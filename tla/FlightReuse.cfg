\* A hold recorded through the pool while Flight runs stays in the ring.
SPECIFICATION Spec
CONSTANTS
    Takes = {t1, t2}
    NoTake = NoTake
    RecoveryWorker = RecoveryWorker
    MaxBuffer = 2
    MaxBlocks = 3
    MaxStarters = 1
INVARIANTS
    UsedHoldLeavesBuffer
