CONSTANTS
    Futures = {t1, t2, t3, t4}
    Borrowers = {t1, t2}
SPECIFICATION FairSpec
INVARIANTS CountersExact ParkedIsWoken RuntimeHasOneHolder
PROPERTY ImplementsRunningFutures
CHECK_DEADLOCK FALSE
