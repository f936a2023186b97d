SPECIFICATION FairSpec
CONSTANTS
    Pids = {p1}
    HubThreads = {h1}
    Mutexes = {mutex_, mutexForRT_}
    SkipLimit = 1
    MaxIndex = 2
    MaxSplit = 2
    Failures = {"marshal", "send", "parse"}
    None = None
PROPERTIES ReceivedIsProcessed DeadAreForgotten
CHECK_DEADLOCK FALSE
