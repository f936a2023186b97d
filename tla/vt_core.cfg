SPECIFICATION FairSpec
CONSTANTS
    Clients = {t1, t2}
    Handler = Handler
    Callbacks = {c1, c2, c3}
    SocketSize = 2
INVARIANT RequestEnds
PROPERTY CallbackRuns
