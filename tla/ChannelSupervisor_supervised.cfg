SPECIFICATION SFairSpec
CONSTANTS
    ChunkLen = 2
    Window = 4
    Retention = 2
    RollInterval = 2
    MaxGenerations = 2
    GenSizes = {2}
    Misjudged = 2
    ListLen = 2
    At <- MCPair
    Anchored = FALSE
    Anchor = 0
    Cursor = "series"
    MaxNow = 5
    MaxEdits = 0
    MaxRequests = 0
    MaxLosses = 1
    MaxOutages = 1
    MaxFaults = 3
    MaxDamage = 0
    MayCrash = FALSE
    Timely = TRUE
    CardLen = 2
    FailuresBeforeCard = 2
    BackoffStart = 1
    MaxSweeps = 0
INVARIANTS
    GenerationOnDisk
    CardsInTheirPlace
    ListGoesOn
    CardedToTheEnd
PROPERTIES
    WindowCovered
CHECK_DEADLOCK FALSE
