SPECIFICATION Spec
CONSTANTS
    Channels <- MCChannels
    Seeds <- MCSeeds
    Roll <- MCRoll
    RandomRerolls = 1
    MaxAirings = 7
    MaxCycle = 6
INVARIANTS
    Reproduces
    TurnsAreTaken
    FilmsSpaced
CHECK_DEADLOCK FALSE
