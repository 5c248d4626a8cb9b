SPECIFICATION Spec
CHECK_DEADLOCK FALSE
CONSTANTS
    t1 = t1
    t2 = t2
    a1 = a1
    None = None
    Command = Command
    Takes = {t1, t2}
    Repastes = {}
    Undoers = {a1}
    TextLength = 2
    Radius = 1
    UndoMax = 3
    MaxActs = 3
    MaxLength = 6
PROPERTIES
    OnlyEditsAreRead
