SPECIFICATION Spec
CONSTANTS
    NDev = 2
    Records <- TwoUrls
    NoUrl = NoUrl
    NoRecord = NoRecord
    PoolSize = 3
    QueueMax = 3
    MaxFd = 3
    MaxRecords = 3
    MaxCrashes = 1
    MidRewrite = TRUE
    EarlyTraffic = FALSE
    n1 = n1
    n2 = n2
    u1 = u1
    u2 = u2
PROPERTIES
    ImplementsPairStore
CHECK_DEADLOCK TRUE
