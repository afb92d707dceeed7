SPECIFICATION Spec
CONSTANTS
    Plans <- MCPlans
    Clients = {"enqueue"}
    Uses <- MCUses
    AirTimes = {1, 2}
    Length = 1
    Lead = 1
    Cap = 1
    MaxNow = 3
    MaxEnqueues = 3
    MaxTroubles = 1
INVARIANTS
    DoneUntilAired
    WithinCap
PROPERTIES
    NeverBeforeAir
    ServedEventually
CHECK_DEADLOCK FALSE
