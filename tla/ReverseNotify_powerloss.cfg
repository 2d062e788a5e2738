SPECIFICATION Spec
CONSTANTS
    Nodes = {n1, n2}
    Torn = torn
    PoolSize = 3
    NSlots = 1
    QueueMax = 2
    MaxTrans = 1
    MaxTries = 1
    MaxCrashes = 2
    Reliable = FALSE
    InOrder = FALSE
    EarlyTraffic = TRUE
INVARIANTS
    TypeOK
PROPERTIES
    SourcesSurvivePowerLoss
CHECK_DEADLOCK TRUE
