SPECIFICATION Spec
CONSTANTS
    Writers = {w1, w2, w3}
    MaxWrites = 1
    Policy = "always"
    QueueCap = 2
    BufCap = 2
    EntryFollowsFsync = TRUE
    Faults <- ToleratedFaults
    MaxFaults = 1
    Crashes <- AllCrashes
    MaxCrashes = 2
    MaxVacuums = 1
    CanShutDown = TRUE
SYMMETRY Symmetry
INVARIANTS
    TypeOK
    AckedDurable
    AckedVisible
    NoWaiterForgotten
