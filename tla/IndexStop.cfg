SPECIFICATION FairSpec
CONSTANTS
    Args <- TreeArgs
    Children <- TreeChildren
    Below <- TreeBelow
    Links = {"l"}
    Ignored = {"x", "y"}
    QueueSize = 2
    ScanThreads = 2
    Threshold = 2
    PoolThreads = 1
    KeepGoing = TRUE
    Gui = TRUE
    Codes = {"ok"}
    InitialTokens = {FALSE}
    MaxRuns = 1
    MayCancel = TRUE
INVARIANTS
    TypeOK
    BatchesAreBacked
    PermitsConserved
    FinishedMeansAllIndexed
    CountedOnce
PROPERTIES
    ImplementsIndexRun
    WorkRunsOut
CHECK_DEADLOCK FALSE
