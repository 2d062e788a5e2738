SPECIFICATION FairSpec
CONSTANTS
    NDev = 3
    IsrDevices = {1, 2}
    Config <- MCConfig
    Spaced = {2}
INVARIANTS
    TypeOK
    NoLostWakeup
    OnlyRaisedEventsPosted
    SpacedEventsKept
    LastReportIsCurrent
PROPERTIES
    EveryEventPosted
    ImplementsPosting
CHECK_DEADLOCK TRUE
