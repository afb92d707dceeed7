SPECIFICATION Spec
CONSTANTS
    p1 = p1
    p2 = p2
    g1 = g1
    g2 = g2
    none = none
    RatingKeys <- MCRatingKeys
    Paths <- MCPaths
    Guids <- MCGuids
    NoGuid = none
    Dated <- MCDated
    Collections = {"c"}
    Refresh = 1
    FullSweep = 2
    Shrinks = FALSE
    MaxTime = 2
    Budgets <- MCBudgets
INVARIANTS
    NothingLost
    MissingIsRight
    NoTwins
    BadFileStaysOut
SYMMETRY MCSymmetry
CHECK_DEADLOCK FALSE
