\* Three texts, an outbox of two and a memory of one settled text: both
\* bounds overflow, and an id is staged again once its memory expired.
SPECIFICATION Spec
CONSTANTS
    Ids = {a, b, c}
    Callers = {c1, c2}
    NoId = NoId
    MaxRecoverable = 2
    MaxTombstones = 1
INVARIANTS
    TypeOK
    AtMostOnePaste
    InFlightIsOwned
    MemoryIsBounded
PROPERTIES
    LeavesOutboxOldestFirst
    ImplementsContract
