SPECIFICATION FairSpec
CONSTANTS
    Writers = {w1, w2}
    MaxWrites = 1
    Policy = "everysec"
    QueueCap = 2
    BufCap = 2
    EntryFollowsFsync = TRUE
    Faults <- RetriedFaults
    MaxFaults = 2
    Crashes <- NoCrashes
    MaxCrashes = 0
    MaxVacuums = 1
    CanShutDown = TRUE
PROPERTIES
    RefusalEnds
    EventuallyDurable
    CleanShutdownKeeps
