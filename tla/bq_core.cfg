SPECIFICATION Spec
CONSTANTS
    Producers = {p1, p2}
    Consumers = {c1}
    Managers = {m1}
    Configs = {k1}
    NoArg = NoArg
    MaxQueueSize = 2
    DefaultQueueSize = 2
    Sharing = {FALSE}
    Calls = {"CancelBuffer", "SetQueueSize", "AttachBuffer", "DetachBuffer", "CleanCache", "GoBackground",
             "ConsumerDied", "SetProducerCacheCleanFlag"}
    Failures = {}
    ReleaseResults = {"error"}
    MaxSequence = 3
    MaxListLength = 3
CONSTRAINT FewBuffers
SYMMETRY Symmetry
INVARIANTS TypeOK ListsMatchStates ExclusiveHolders NoSlotLost NoSleepBesideFree EveryFrameAnnounced
PROPERTIES HeldBuffersStay LifecycleSpec
CHECK_DEADLOCK FALSE
