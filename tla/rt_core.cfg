SPECIFICATION Spec
CONSTANTS
    Pids = {p1}
    HubThreads = {h1, h2}
    Mutexes = {mutex_, mutexForRT_}
    SkipLimit = 1
    MaxIndex = 2
    MaxSplit = 2
    Failures = {"marshal", "send", "parse"}
    None = None
SYMMETRY Symmetry
INVARIANTS NoneOvertaken WaitsOnlyForTheLost ServedWhileConnected
CHECK_DEADLOCK FALSE
