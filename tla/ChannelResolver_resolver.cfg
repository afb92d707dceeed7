SPECIFICATION Spec
CONSTANTS
    Ids <- MCIds
    Groups <- MCGroups
    Channels <- MCChannels
    DayLen = 4
    WeekLen = 2
    Seeds <- MCSeeds
    Period = 3
    Mix <- MCMix
    RecentCap = 7
    Window = 6
INVARIANTS
    ReportsEveryConflict
    SlotsAir
    ListsGoOn
    RotationsTurn
CHECK_DEADLOCK FALSE
