SPECIFICATION FairSpec
CONSTANTS
    Paths = {"p", "q", "r", "s"}
    DirOf <- Flat
    Changing = {"p", "q", "r", "s"}
    Kinds = {}
    Failures = {"dbfail", "processfail"}
    MaxMtime = 2
    MaxSame = 1
    Workers = {1, 2}
    Excluded = {}
    AddModes = {"content"}
    MaxAdds = 0
    Limit = 2
    StopEvery = 2
    Matching = {"p", "r"}
    Mounted = {}
    Options <- SyncOptions
    MaxSyncs = 1
    DeleteLimit = 2
    DeleteMatching = {"p", "q", "r", "s"}
    DeleteOptions <- BothDeletes
    MaxDeletes = 1
    Indexes <- FourRows
    Aged <- AnyAge
    MayRemove = FALSE
    MayCrash = FALSE
INVARIANTS
    CheckedMeansInSync
    DryRunIsComplete
    DeleteLeavesNothing
PROPERTIES
    DeleteEnds
CHECK_DEADLOCK FALSE
