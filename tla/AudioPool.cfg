\* Two takes over a pool of two, any number of device changes and failures: a
\* take may acquire while the tail of the other still records, and either may
\* be the one that runs the deferred recovery.
SPECIFICATION FairSpec
CONSTANTS
    Takes = {t1, t2}
    Main = Main
    Recovery = Recovery
    Prewarm = Prewarm
    Streams = {s1, s2, s3, s4}
    Size = 2
    None = None
INVARIANTS
    TypeOK
    TakeKeepsItsStream
    StaleSlotIsOwed
    EveryStreamHasAnOwner
PROPERTIES
    StaleSlotsAreReplaced
