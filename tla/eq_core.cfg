SPECIFICATION FairSpec
CONSTANTS
    Senders = {s1}
    Runner = Runner
    Creator = Creator
    Handlers = {h1}
    Priorities = {0, 2, 3}
    Delays = {0, 1}
    MaxHandled = 1
    MaxSent = 3
    MaxTime = 1
    None = None
INVARIANTS NeverOversleeps PostedInOrder LowIsServed NoOrphanLeft
PROPERTIES EventHandled RunnerEnds
CHECK_DEADLOCK FALSE
