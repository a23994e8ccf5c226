SPECIFICATION Spec
CONSTANTS
    Writers = {w1}
    MaxWrites = 1
    Policy = "everysec"
    QueueCap = 2
    BufCap = 2
    EntryFollowsFsync = TRUE
    Faults <- NoFaults
    MaxFaults = 0
    Crashes <- Kills
    MaxCrashes = 1
    MaxVacuums = 1
    CanShutDown = FALSE
SYMMETRY Symmetry
PROPERTIES
    TickMakesDurable
