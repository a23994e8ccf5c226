SPECIFICATION FairSpec
CONSTANTS
    Writers = {w1}
    Keys = {a, b}
    Values = {1, 2}
    None = None
    OpKinds <- SetsAndDels
    MaxOps = 3
    MaxBatch = 2
    MaxConns = 3
    MaxRefusals = 1
    SlowPeer = FALSE
    Kills = FALSE
    MaxRestarts = 2
CHECK_DEADLOCK FALSE
INVARIANTS
    TypeOK
    EndsTheSame
    SameAsLocal
PROPERTIES
    QueueDrains
