SPECIFICATION FairSpec
CONSTANTS
    Paths = {"p", "d"}
    DirOf <- OneDirectory
    Changing = {"p"}
    Kinds = {"file", "empty", "dir"}
    Failures = {"processfail", "signal", "silent", "dbfail"}
    MaxMtime = 3
    MaxSame = 2
    Workers = {1, 2}
    Excluded = {}
    AddModes = {"content", "metadata", "fill"}
    MaxAdds = 1
    Limit = 1
    StopEvery = 1
    Matching = {"p"}
    Mounted = {}
    Options <- GuiOptions
    MaxSyncs = 1
    DeleteLimit = 1
    DeleteMatching = {"p"}
    DeleteOptions <- BothDeletes
    MaxDeletes = 0
    Indexes <- FileInDirectory
    Aged <- Changed
    MayRemove = TRUE
    MayCrash = TRUE
INVARIANTS
    TypeOK
    UpToDateMeansIndexed
PROPERTIES
    SyncEnds
CHECK_DEADLOCK FALSE
