SPECIFICATION CleanupSpec
CHECK_DEADLOCK FALSE
CONSTANTS
    t1 = t1
    t2 = t2
    a1 = a1
    None = None
    Command = Command
    Takes = {t1, t2}
    Repastes = {t2}
    Undoers = {a1}
    TextLength = 3
    Radius = 1
    UndoMax = 4
    MaxActs = 1
    MaxLength = 9
    Alike = {t1, t2}
    EditAt = 2
INVARIANTS
    CleanupTypeOK
    UndoIsNotLearned
PROPERTIES
    CleanupIsPrecise
    OnlyOwnTextRemoved
