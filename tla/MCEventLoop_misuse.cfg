SPECIFICATION Spec
CONSTANTS
    Fibers = {f1, f2}
    MaxId = 2
    MaxLoops = 1
    Kinds = {"suspend_on", "try_suspend_on"}
    Runtimes = {"loop"}
    Env = {"fail", "throw", "exit", "elsewhere", "drain", "shutdown", "end", "resume", "close"}
SYMMETRY Symmetry
PROPERTIES
    HandlersResumeTheDone
    ImplementsCalls
