SPECIFICATION FairSpec
CONSTANTS
    Threads = {t1, t2, t3}
    Capacity = 6
    Chunk = 2
    MaxQueue = 4
INVARIANTS
    TypeOK
    NoLostWakeup
    FlagIsBacked
    QueueIsCovered
    BytesBounded
PROPERTY EventuallyCollecting
