SPECIFICATION Spec
CONSTANTS
    MaxIndex = 3
    Keys = {k}
    Values = {1, 2}
    None = None
    LazySync = FALSE
    Faults <- NoFaults
    MaxFaults = 0
    Crashes <- Kills
    MaxCrashes = 1
    MaxOps = 4
PROPERTIES
    LoadedIsDurable
