SPECIFICATION Spec
CONSTANTS
    NDev = 3
    IsrDevices = {1, 2}
    Config <- MCConfig
    Spaced = {2}
INVARIANT
    NoEventLost
CHECK_DEADLOCK TRUE
