SPECIFICATION FairSpec
CONSTANTS
    Producers = {p1, p2}
    Consumers = {c1}
    Managers = {m1}
    Configs = {k1, k2}
    NoArg = NoArg
    MaxQueueSize = 2
    DefaultQueueSize = 2
    Sharing = {TRUE, FALSE}
    Calls = {"CancelBuffer", "DetachBuffer", "SetListener"}
    Failures = {}
    ReleaseResults = {"error"}
    MaxSequence = 2
    MaxListLength = 1
PROPERTIES SharedBufferStays RequestReturns FrameConsumed
