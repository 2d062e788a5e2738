SPECIFICATION Spec
CONSTANTS
    Nodes = {n1, n2}
    Torn = torn
    PoolSize = 3
    NSlots = 2
    QueueMax = 2
    MaxTrans = 2
    MaxTries = 2
    MaxCrashes = 1
    Reliable = TRUE
    InOrder = TRUE
    EarlyTraffic = TRUE
INVARIANTS
    ObserversAreRemembered
CHECK_DEADLOCK TRUE
