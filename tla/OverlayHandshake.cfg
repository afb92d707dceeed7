SPECIFICATION FairSpec
CONSTANTS
    IdleTimeout = 5
    WarmUp = 1
    WriterTimeout = 4
    MaxRequests = 4
    MaxFaults = 1
    MaxReloads = 1
INVARIANTS
    ServedInTime
    NeverSleepsThrough
PROPERTIES
    QuitsOnlyAlone
    WindsDown
