SPECIFICATION FairSpec
CONSTANTS
    Fibers = {f1}
    MaxId = 2
    MaxLoops = 1
    Kinds = {"suspend_on", "try_suspend_on"}
    Runtimes = {"shared", "loop"}
    Env = {"fail", "throw", "drain", "shutdown", "end", "close"}
PROPERTIES
    CallerContinues
    ShutdownReturns
    DeferredReleased
