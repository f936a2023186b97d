SPECIFICATION Spec
CONSTANTS
    Producers = {p1, p2}
    Consumers = {c1}
    Managers = {m1}
    Configs = {k1}
    NoArg = NoArg
    MaxQueueSize = 2
    DefaultQueueSize = 1
    Sharing = {FALSE}
    Calls = {"SetQueueSize"}
    Failures = {}
    ReleaseResults = {"error"}
    MaxSequence = 3
    MaxListLength = 3
INVARIANTS GrowthWakesWaiters
