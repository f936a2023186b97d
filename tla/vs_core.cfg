SPECIFICATION FairSpec
CONSTANTS
    Connections = {k1, k2}
    Rates = {1}
    HighRates = {1}
    RateCycle = 1
    OwnConnections = {k2}
    RatedConnections = {k1}
    SocketSize = 1
INVARIANTS TypeOK SleepsOnlyIdle
PROPERTIES ServiceSpec RequestAnswered VSyncGoesOff StopEndsThread
CHECK_DEADLOCK FALSE
