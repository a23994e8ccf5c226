SPECIFICATION Spec
CONSTANTS
    MaxIndex = 3
    Keys = {k}
    Values = {1, 2}
    None = None
    LazySync = FALSE
    Faults <- ErrorsOnly
    MaxFaults = 1
    Crashes <- AllCrashes
    MaxCrashes = 2
    MaxOps = 4
INVARIANTS
    TypeOK
    SurvivesCrash
PROPERTIES
    Implements
