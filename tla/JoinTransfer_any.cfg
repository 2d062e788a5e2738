SPECIFICATION FairSpec
CONSTANTS
    Joins = {j1, j2}
    Length = 2
    Type = Type
    BufferBlocks = 5
    AckTimeout = 3
    Retransmissions = 1
    MaxDelay = 1
    Lossy = TRUE
    Overlapping = TRUE
CHECK_DEADLOCK FALSE
INVARIANTS
    TypeOK
    TimerRuns
    UndisturbedIsWhole
PROPERTIES
    DoneIsJoined
    EveryJoinEnds
