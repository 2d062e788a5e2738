SPECIFICATION FairSpec
CONSTANTS
    Nodes = {n1, n2}
    Torn = torn
    PoolSize = 2
    NSlots = 2
    QueueMax = 2
    MaxTrans = 2
    MaxTries = 1
    MaxCrashes = 1
    Reliable = TRUE
    InOrder = TRUE
    EarlyTraffic = FALSE
PROPERTIES
    KnownNodesReturn
CHECK_DEADLOCK TRUE
