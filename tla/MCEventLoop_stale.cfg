SPECIFICATION Spec
CONSTANTS
    Fibers = {f1}
    MaxId = 2
    MaxLoops = 1
    Kinds = {"suspend_on", "try_suspend_on"}
    Runtimes = {"shared"}
    Env = {"resume"}
PROPERTY ResumesOnlyTheDone
