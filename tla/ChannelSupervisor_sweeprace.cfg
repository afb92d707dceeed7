SPECIFICATION SweptSpec
CONSTANTS
    ChunkLen = 2
    Window = 4
    Retention = 2
    RollInterval = 2
    MaxGenerations = 2
    GenSizes = {2}
    Misjudged = 2
    ListLen = 2
    At <- MCPair
    Anchored = FALSE
    Anchor = 0
    Cursor = "position"
    MaxNow = 5
    MaxEdits = 0
    MaxRequests = 1
    MaxLosses = 1
    MaxOutages = 0
    MaxFaults = 0
    MaxDamage = 0
    MayCrash = FALSE
    Timely = TRUE
    CardLen = 2
    FailuresBeforeCard = 2
    BackoffStart = 1
    MaxSweeps = 1
INVARIANTS
    SweptTimeline
CHECK_DEADLOCK FALSE
