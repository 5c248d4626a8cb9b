\* Two takes, either of them possibly a tap, three blocks of speech and a ring
\* of two: device changes, toggles, late threads and both sources of a take
\* meet in every order.
SPECIFICATION Spec
CONSTANTS
    Takes = {t1, t2}
    NoTake = NoTake
    RecoveryWorker = RecoveryWorker
    MaxBuffer = 2
    MaxBlocks = 3
    MaxStarters = 1
INVARIANTS
    TypeOK
    HoldIsContiguous
    TakesRespectThePress
    TapsAreDisjoint
    StaleStreamIsOwed
