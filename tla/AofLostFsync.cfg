SPECIFICATION Spec
CONSTANTS
    Writers = {w1, w2}
    MaxWrites = 2
    Policy = "always"
    QueueCap = 2
    BufCap = 2
    EntryFollowsFsync = TRUE
    Faults <- FsyncLostInVacuum
    MaxFaults = 2
    Crashes <- NoCrashes
    MaxCrashes = 0
    MaxVacuums = 1
    CanShutDown = FALSE
SYMMETRY Symmetry
INVARIANTS
    AckedDurable
