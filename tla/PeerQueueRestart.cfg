SPECIFICATION FairSpec
CONSTANTS
    Writers = {w1, w2}
    MaxOps = 3
    Policy = "everysec"
    CheckpointEvery = 1
    MaxBatch = 2
    Faults <- NoFaults
    MaxFaults = 0
    Crashes <- Kills
    MaxCrashes = 1
CHECK_DEADLOCK FALSE
PROPERTIES
    EventuallyOnDisk
