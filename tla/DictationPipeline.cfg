\* Three takes over two streams: a second press during a tail, a third that
\* finds the pool exhausted, and out-of-order completion of tickets.
SPECIFICATION FairSpec
CONSTANTS
    Takes = {t1, t2, t3}
    NoTake = NoTake
    PoolSize = 2
    MaxQueued = 2
INVARIANTS
    TypeOK
    OneTakeInTurn
    EffectsInReleaseOrder
    NoOrphanMicrophone
    CaptureIsAnswered
PROPERTIES
    EveryReleaseSettles
    OrphanedCaptureEnds
    ImplementsOrderedDelivery
CHECK_DEADLOCK FALSE
