SPECIFICATION Spec
CONSTANTS
    MaxIndex = 3
    Keys = {k}
    Values = {1, 2}
    None = None
    LazySync = TRUE
    Faults <- FsyncLost
    MaxFaults = 1
    Crashes <- NoCrashes
    MaxCrashes = 0
    MaxOps = 4
INVARIANTS
    SurvivesCrash
