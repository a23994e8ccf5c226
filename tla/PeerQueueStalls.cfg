SPECIFICATION ReachableSpec
CONSTANTS
    Writers = {w1, w2}
    MaxOps = 3
    Policy = "always"
    CheckpointEvery = 1
    MaxBatch = 2
    Faults <- WriteFails
    MaxFaults = 1
    Crashes <- NoCrashes
    MaxCrashes = 0
CHECK_DEADLOCK FALSE
PROPERTIES
    QueueDrains
