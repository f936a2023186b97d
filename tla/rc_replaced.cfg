SPECIFICATION Spec
CONSTANTS
    Pids = {p1}
    HubThreads = {h1, h2}
    Mutexes = {mutex_}
    SkipLimit = 1
    MaxIndex = 1
    MaxSplit = 1
    Failures = {}
    None = None
SYMMETRY Symmetry
INVARIANTS ReplacedIsServed
CHECK_DEADLOCK FALSE
