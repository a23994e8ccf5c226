SPECIFICATION FairSpec
CONSTANTS
    n1 = n1
    n2 = n2
    w1 = w1
    w2 = w2
    None = None
    Nodes = {n1, n2}
    Writes = {w1, w2}
    At <- SameNode
    First = n1
    Conns = {c1, c2, c3}
    MaxIdle = 1
    OldNodes <- OldLeader
    MaxHops = 2
    MaxElections = 1
    MaxTimeouts = 1
    MaxDrops = 1
CHECK_DEADLOCK FALSE
INVARIANTS
    TypeOK
    AnswerIsOwn
    OKIsCommitted
PROPERTIES
    EveryWriteAnswered
