SPECIFICATION Spec
CONSTANTS
    Fibers = {f1, f2}
    MaxId = 2
    MaxLoops = 2
    Kinds = {"suspend_on", "try_suspend_on"}
    Runtimes = {"loop"}
    Env = {"panic", "throw", "exit", "drain", "shutdown", "end"}
SYMMETRY Symmetry
INVARIANTS
    TypeOK
    BorrowSafety
    RegisteredCallers
    NoStrandedCaller
    ResultFaithful
    RuntimeReleased
PROPERTY ResumesOnlyTheDone
