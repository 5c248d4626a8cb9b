SPECIFICATION Spec
SYMMETRY Symmetry
CHECK_DEADLOCK FALSE
CONSTANTS
    t1 = t1
    t2 = t2
    w1 = w1
    w2 = w2
    k1 = k1
    k2 = k2
    None = None
    Takes = {t1, t2}
    Workers = {w1, w2}
    Children = {k1, k2}
    MaxSpans = 2
    MaxMade = 2
INVARIANTS
    TypeOK
    AnswerIsOwn
    NoStrayChild
    WarmingHasOneWorker
    OnlySendOutlastsDeadline
