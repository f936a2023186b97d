SPECIFICATION Spec
CONSTANTS
    Callbacks = {c1, c2}
    Modes <- TwoModes
    Offsets = {0, 2}
    DelayWeight = 2
    MaxWakeupDelay = 1
    ErrorThreshold = 2
    MaxLate = 1
    MaxTime = 16
    MaxCalls = 4
SYMMETRY Symmetry
INVARIANTS NobodyForgotten
PROPERTIES WellSpaced Regular
CHECK_DEADLOCK FALSE
