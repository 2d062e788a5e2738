SPECIFICATION Spec
CONSTANTS
    Base = 4
    PosFixMax = 1
    NegFixMin <- MinusTwo
    FixStrMax = 1
    FixListMax = 1
    MpNumbers <- TwoBits
    MpSizes = {1, 3, 5, 16}
    MaxObjects = 2
    StrBuffer = 4
    OptionNumbers = {6, 27}
    OptionLengths = {0, 14}
    Uris <- ThreeUris
    Codes = {95}
    Tokens = {2, 3}
    Payloads = {1, 3}
    Room = 60
    AnyOrder = FALSE
    MaxCalls = 4
    ListedPairs = {"p1", "p2", "p3"}
    FirstFile <- ThreePairs
    MaxRequests = 2
    MaxOthers = 1
    MaxCopies = 1
    Nodes = {"k", "n"}
    KnownNodes <- OneKnown
    Published <- PublishedLinks
    Destinations <- TwoDestinations
    MaxRows = 4
    CodedPairs <- PairsAtLimits
    srcurl <- SourceUrl
    StringMax = 100
    ShownMax = 40
    StoreSize = 200
    BUFFERSIZE = 300
    BlockSize = 32
    MaxJoins = 3
    MaxRemovals = 1
INVARIANTS ClientTypeOK ValuesSurvive ParsesAsBuilt PairsReadAlike ViewFollowsFile
           RowsAreShown
CHECK_DEADLOCK FALSE
