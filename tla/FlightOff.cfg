\* Pause, or turn Flight off, while the thread that starts it is still on its
\* way.
SPECIFICATION Spec
CONSTANTS
    Takes = {t1, t2}
    NoTake = NoTake
    RecoveryWorker = RecoveryWorker
    MaxBuffer = 2
    MaxBlocks = 3
    MaxStarters = 1
INVARIANTS
    BufferClearedWhenOff
