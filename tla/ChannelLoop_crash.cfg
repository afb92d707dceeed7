SPECIFICATION Spec
CONSTANTS
    ChunkLen = 2
    Window = 4
    Retention = 2
    RollInterval = 1
    MaxGenerations = 3
    GenSizes = {1, 2}
    Misjudged = 1
    ListLen = 2
    At <- MCTiles
    Anchored = FALSE
    Anchor = 0
    Cursor = "position"
    MaxNow = 4
    MaxEdits = 0
    MaxRequests = 0
    MaxLosses = 0
    MaxOutages = 1
    MaxFaults = 1
    MaxDamage = 1
    MayCrash = TRUE
    Timely = TRUE
INVARIANTS
    HealsInOnePass
PROPERTIES
    SidecarFollowsDisk
    LedgerFollowsDisk
