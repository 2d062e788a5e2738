SPECIFICATION FairSpec
CONSTANTS
    Joins = {j1, j2}
    Length = 3
    Type = Type
    BufferBlocks = 5
    AckTimeout = 3
    Retransmissions = 1
    MaxDelay = 1
    Lossy = FALSE
    Overlapping = FALSE
CHECK_DEADLOCK FALSE
INVARIANT
    NothingGarbled
