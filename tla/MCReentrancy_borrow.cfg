CONSTANTS
    MaxDepth = 4
    MaxCallers = 3
    MaxRequests = 2
    Fatal = {"resume", "drop"}
SPECIFICATION Spec
INVARIANTS NeverBorrowedTwice NoLoopOutlivesRequest
CHECK_DEADLOCK FALSE
