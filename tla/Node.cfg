SPECIFICATION NodeSpec
CONSTANTS
    Nodes = {n1, n2}
    MaxLog = 4
    MaxRestarts = 1
    MaxSnapshots = 2
    MuxConns = {m1, m2}
    AcceptMayFail = TRUE
    TcpConns = {t1}
    MaxCommands = 2
    TcpAcceptMayFail = TRUE
    RaftEnabled = TRUE
SYMMETRY Symmetry
CHECK_DEADLOCK FALSE
INVARIANTS
    SameDocument
    StopNeverPanics
    ClosedMeansClosed
