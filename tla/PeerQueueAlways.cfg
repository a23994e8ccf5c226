SPECIFICATION Spec
CONSTANTS
    Writers = {w1, w2}
    MaxOps = 3
    Policy = "always"
    CheckpointEvery = 2
    MaxBatch = 2
    Faults <- WALErrors
    MaxFaults = 1
    Crashes <- AllCrashes
    MaxCrashes = 1
CHECK_DEADLOCK FALSE
INVARIANTS
    TypeOK
    WALInStep
    SyncedOnDisk
    AnsweredDurable
PROPERTIES
    TakenInOrder
