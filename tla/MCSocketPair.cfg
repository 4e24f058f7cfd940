CONSTANTS
    Threads = {t1, t2, t3}
    Foreign = {f1, f2}
    None = none
    UnixBacklog = 2
    TcpBacklog = 3
SPECIFICATION FairSpec
INVARIANTS ConnectedToItself AcceptFindsUs
PROPERTY PairReturns
CHECK_DEADLOCK FALSE
