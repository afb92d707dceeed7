SPECIFICATION Spec
CONSTANTS
    Hooks = {"items"}
    CronHooks = {"nightly"}
    Trigger <- MCTrigger
    QueueCap = 1
    MaxLog = 2
    MaxLines = 5
    MaxFaults = 1
    Generations = 2
INVARIANTS
    EveryLineOnce
    NeverTwoCopies
    NoFiringForgotten
PROPERTIES
    ReloadEnds
CHECK_DEADLOCK FALSE
