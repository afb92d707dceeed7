SPECIFICATION Spec
CONSTANTS
    ChunkLen = 3
    Window = 6
    Retention = 2
    RollInterval = 1
    MaxGenerations = 3
    GenSizes = {1, 2, 3, 4}
    Misjudged = 2
    ListLen = 4
    At <- MCShort
    Anchored = FALSE
    Anchor = 0
    Cursor = "position"
    MaxNow = 5
    MaxEdits = 1
    MaxRequests = 1
    MaxLosses = 1
    MaxOutages = 1
    MaxFaults = 0
    MaxDamage = 0
    MayCrash = FALSE
    Timely = TRUE
INVARIANTS
    NeverBlack
    BooksMatch
    EditReachesScreen
PROPERTIES
    KeepsItsPromise
