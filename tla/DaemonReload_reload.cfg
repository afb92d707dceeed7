SPECIFICATION FairSpec
CONSTANTS
    Channels <- MCChannels
    Supervisors <- MCSupervisors
    MaxEdits = 1
    MaxApplies = 1
    MaxSignals = 1
    MaxFailures = 1
    MaxFaults = 1
INVARIANTS
    OneGeneration
    EditNeverEndsIt
    OneRecordPerReload
PROPERTIES
    EditIsRead
    SignalsAreServed
