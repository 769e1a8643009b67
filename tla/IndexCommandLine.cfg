SPECIFICATION FairSpec
CONSTANTS
    Args <- CliArgs
    Children <- CliChildren
    Below <- CliBelow
    Links = {}
    Ignored = {}
    QueueSize = 1
    ScanThreads = 2
    Threshold = 2
    PoolThreads = 2
    KeepGoing = FALSE
    Gui = FALSE
    Codes = {"ok", "skipped", "error", "signal"}
    InitialTokens = {FALSE}
    MaxRuns = 1
    MayCancel = FALSE
INVARIANTS
    ExitLeavesNoJob
    NeverStuck
PROPERTIES
    ImplementsIndexRun
    EventuallyExits
CHECK_DEADLOCK FALSE
