SPECIFICATION FairSpec
CONSTANTS
    Writers = {w1}
    CheckpointEvery = 2
CHECK_DEADLOCK FALSE
PROPERTIES
    EventuallyOnDisk
    QueueDrains
