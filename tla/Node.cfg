SPECIFICATION FairSpec
CONSTANTS
    Period = 5
    AboveAt = 11
    BelowAt = 0
    PulseEvents = {"change", "above"}
    StepSize = 3
    ValueSize = 32
    MaxPulses = 40
    DEBOUNCE_DURATION = 2
    press_duration = 4
    CounterSize = 4
    ButtonEvents = {"below"}
    MaxPosted = 1
    MaxHeld = 14
    PulsesPerIrq = 4
    TICKTIMEOUT = 5
    Relays = {"r1", "r2"}
    Leds = {"l1", "l2"}
    Pairs <- ThreeLinks
    RelayEvents <- AllThenChanges
    MaxRequests = 3
    GUIs = {"a", "b"}
    LevelType = "u16"
    FirstLevel = 0
    FirstActive = 0
    Values = {0, 1}
    Masks = {0, 8}
    MaxSetups = 3
    Messages <- ThreeMessages
    MaxFrames = 2
    MaxNoise = 1
    NSensors = 2
    MAX_RESOURCES = 2
    RX_BUFFERS = 3
    EarlyPuts = FALSE
    MaxOwn = 1
    MaxPuts = 1
    Confs <- ShortStrings
    UartDevices = 2
    Numbers = 1
    StringMax = 5
    LASTVALSIZE = 2
    Room = 40
    MaxReadings = 2
INVARIANTS NodeTypeOK PulsesAccounted TimerFollowsPin CountedIsHeld FollowersAgree
           AcceptedIsSent RowIsItsSensor StringsIntact
PROPERTIES AcceptedIsStored MainsIsSeen HandshakeEnds
CHECK_DEADLOCK FALSE
