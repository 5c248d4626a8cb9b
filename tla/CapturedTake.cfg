SPECIFICATION Spec
CHECK_DEADLOCK FALSE
CONSTANTS
    SpeculateMin = 1
    SpeculateSilence = 1
    ChunkMin = 3
    ChunkSilence = 2
    RemainderMin = 2
    MaxBlocks = 9
INVARIANTS
    TypeOK
    DecodedOnce
    ReusedIsFinal
