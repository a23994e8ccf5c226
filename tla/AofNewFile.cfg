SPECIFICATION Spec
CONSTANTS
    Writers = {w1, w2}
    MaxWrites = 2
    Policy = "always"
    QueueCap = 2
    BufCap = 2
    EntryFollowsFsync = FALSE
    Faults <- NoFaults
    MaxFaults = 0
    Crashes <- NoCrashes
    MaxCrashes = 0
    MaxVacuums = 1
    CanShutDown = FALSE
SYMMETRY Symmetry
INVARIANTS
    AckedDurable
