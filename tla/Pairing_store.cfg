SPECIFICATION FairSpec
CONSTANTS
    NDev = 2
    Records <- TwoUrls
    NoUrl = NoUrl
    NoRecord = NoRecord
    PoolSize = 2
    QueueMax = 2
    MaxFd = 3
    MaxRecords = 2
    MaxCrashes = 1
    MidRewrite = FALSE
    EarlyTraffic = FALSE
    n1 = n1
    n2 = n2
    u1 = u1
    u2 = u2
INVARIANTS
    TypeOK
    CreatedIsStored
    RecordsFitPool
    NoRedundantPairs
PROPERTIES
    ImplementsPairStore
    PairsStayPut
    EveryPairObserved
CHECK_DEADLOCK TRUE
