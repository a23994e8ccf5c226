SPECIFICATION Spec
CONSTANTS
    Writers = {w1, w2}
    Keys = {a}
    Values = {1, 2}
    None = None
    OpKinds <- OnlySets
    MaxOps = 3
    MaxBatch = 2
    MaxConns = 2
    MaxRefusals = 0
    SlowPeer = FALSE
    Kills = FALSE
    MaxRestarts = 0
CHECK_DEADLOCK FALSE
INVARIANTS
    SameAsLocal
