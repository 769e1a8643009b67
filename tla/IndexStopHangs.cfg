SPECIFICATION FairSpec
CONSTANTS
    Args <- LongArgs
    Children <- LongChildren
    Below <- LongBelow
    Links = {}
    Ignored = {}
    QueueSize = 1
    ScanThreads = 2
    Threshold = 1
    PoolThreads = 1
    KeepGoing = TRUE
    Gui = TRUE
    Codes = {"ok"}
    InitialTokens = {FALSE}
    MaxRuns = 1
    MayCancel = TRUE
PROPERTY EventuallyFinished
CHECK_DEADLOCK FALSE
