CONSTANTS
    MaxDepth = 4
    MaxCallers = 3
    MaxRequests = 2
    Fatal = {"autoload", "getSuspension", "resume", "drop"}
SPECIFICATION Spec
INVARIANT NoLoopOutlivesRequest
CHECK_DEADLOCK FALSE
