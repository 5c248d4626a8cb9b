SPECIFICATION Spec
CHECK_DEADLOCK FALSE
CONSTANTS
    c1 = c1
    c2 = c2
    i1 = i1
    i2 = i2
    p1 = p1
    p2 = p2
    Callers = {c1, c2}
    Ids = {i1, i2}
    Payloads = {p1}
    MaxItems = 2
    MaxSequence = 3
    MaxOpened = 2
INVARIANTS
    TypeOK
    AnsweredIsDurable
    NumberNamesOneItem
PROPERTIES
    FileFollowsContract
