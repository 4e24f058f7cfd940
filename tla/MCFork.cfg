CONSTANTS
    Processes = {p1, p2}
    Root = p1
    NoProcess = none
    Kinds = {"suspend_on", "try_suspend_on"}
    MaxId = 1
    MaxLoops = 2
SPECIFICATION FairSpec
INVARIANTS WakeupSurvivesFork FuturesRunHere WaitIsBounded PendingIsHere
PROPERTIES ReleasedByItsProcess NobodyHangs
CHECK_DEADLOCK FALSE
