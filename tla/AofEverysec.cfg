SPECIFICATION Spec
CONSTANTS
    Writers = {w1, w2}
    MaxWrites = 2
    Policy = "everysec"
    QueueCap = 2
    BufCap = 2
    EntryFollowsFsync = TRUE
    Faults <- RetriedFaults
    MaxFaults = 2
    Crashes <- Power
    MaxCrashes = 1
    MaxVacuums = 1
    CanShutDown = FALSE
SYMMETRY Symmetry
INVARIANTS
    NothingForgotten
    CrashLosesSuffix
    RefusedCanRecover
PROPERTIES
    TickMakesDurable
