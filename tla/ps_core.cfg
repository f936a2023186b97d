SPECIFICATION SurfaceSpec
CONSTANTS
    Producers = {p1, p2}
    Consumers = {c1}
    Managers = {m1}
    Configs = {k1, k2}
    NoArg = NoArg
    MaxQueueSize = 2
    DefaultQueueSize = 2
    Sharing = {FALSE}
    Calls = {"CancelBuffer", "SetQueueSize", "CleanCache", "GoBackground",
             "SetProducerCacheCleanFlag", "ConsumerDied"}
    Failures = {"FlushCache"}
    ReleaseResults = {"none"}
    MaxSequence = 2
    MaxListLength = 3
    Habits = {}
SYMMETRY ClientSymmetry
INVARIANTS ReplyResolves NoGhosts ReportedNotInUse
CHECK_DEADLOCK FALSE
