SPECIFICATION Spec
CONSTANTS
    Sptrs = {s1, s2, s3}
    Wptrs = {w1, w2}
    Initial = 8
    EarlyWeak = FALSE
    This = This
    None = None
SYMMETRY Symmetry
INVARIANTS ObjectAlive CounterOutlivesUsers NothingLeaks
PROPERTIES PromoteFailsOnlyWhenGone
CHECK_DEADLOCK FALSE
