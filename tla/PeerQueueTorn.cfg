SPECIFICATION Spec
CONSTANTS
    Writers = {w1, w2}
    MaxOps = 2
    Policy = "always"
    CheckpointEvery = 1
    MaxBatch = 2
    Faults <- NoFaults
    MaxFaults = 0
    Crashes <- Tears
    MaxCrashes = 1
CHECK_DEADLOCK FALSE
INVARIANTS
    AnsweredDurable
