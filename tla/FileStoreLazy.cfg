SPECIFICATION FairSpec
CONSTANTS
    MaxIndex = 3
    Keys = {k}
    Values = {1}
    None = None
    LazySync = TRUE
    Faults <- WALErrors
    MaxFaults = 2
    Crashes <- PowerLosses
    MaxCrashes = 1
    MaxOps = 5
INVARIANTS
    SurvivesCrash
PROPERTIES
    PendingSynced
    OnlyDeleteOpensGap
    CloseKeeps
