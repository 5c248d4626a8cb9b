\* A take gets a ticket and never a thread.
SPECIFICATION Spec
CONSTANTS
    Takes = {t1, t2}
    NoTake = NoTake
    PoolSize = 2
    MaxQueued = 2
INVARIANTS
    NoStrandedTicket
