SPECIFICATION FairSpec
CONSTANTS
    Args <- FlatArgs
    Children <- FlatChildren
    Below <- FlatBelow
    Links = {}
    Ignored = {}
    QueueSize = 2
    ScanThreads = 2
    Threshold = 1
    PoolThreads = 2
    KeepGoing = TRUE
    Gui = TRUE
    Codes = {"ok"}
    InitialTokens = {FALSE}
    MaxRuns = 2
    MayCancel = TRUE
INVARIANTS
    RunningWorkersExact
PROPERTIES
    FinishIsQuiet
    EventuallyFinished
CHECK_DEADLOCK FALSE
