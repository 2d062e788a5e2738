SPECIFICATION Spec
CONSTANTS
    Nodes = {n1, n2}
    Torn = torn
    PoolSize = 3
    NSlots = 2
    QueueMax = 3
    MaxTrans = 2
    MaxTries = 1
    MaxCrashes = 1
    Reliable = TRUE
    InOrder = FALSE
    EarlyTraffic = FALSE
INVARIANTS
    ObserversAreRemembered
CHECK_DEADLOCK TRUE
