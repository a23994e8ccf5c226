SPECIFICATION Spec
CONSTANTS
    n1 = n1
    n2 = n2
    w1 = w1
    w2 = w2
    None = None
    Nodes = {n1, n2}
    Writes = {w1, w2}
    At <- SameNode
    First = n1
    Conns = {c1, c2, c3}
    MaxIdle = 1
    OldNodes <- OldLeader
    MaxHops = 3
    MaxElections = 2
    MaxTimeouts = 0
    MaxDrops = 0
CHECK_DEADLOCK FALSE
INVARIANTS
    ForwardedOnce
