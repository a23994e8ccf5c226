SPECIFICATION Spec
CONSTANTS
    Writers = {w1}
    Keys = {a, b}
    Values = {1, 2}
    None = None
    OpKinds <- SetsAndClones
    MaxOps = 3
    MaxBatch = 2
    MaxConns = 2
    MaxRefusals = 0
    SlowPeer = FALSE
    Kills = FALSE
    MaxRestarts = 0
CHECK_DEADLOCK FALSE
INVARIANTS
    EndsTheSame
