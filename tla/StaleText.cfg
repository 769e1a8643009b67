SPECIFICATION Spec
CONSTANTS
    Paths = {"p", "q", "r"}
    DirOf <- Flat
    Changing = {"p", "q", "r"}
    Kinds = {"file"}
    Failures = {}
    MaxMtime = 2
    MaxSame = 1
    Workers = {1, 2}
    Excluded = {}
    AddModes = {"content"}
    MaxAdds = 0
    Limit = 2
    StopEvery = 2
    Matching = {"p", "q", "r"}
    Mounted = {}
    Options <- GuiOptions
    MaxSyncs = 1
    DeleteLimit = 2
    DeleteMatching = {"p", "q", "r"}
    DeleteOptions <- BothDeletes
    MaxDeletes = 0
    Indexes <- ThreeRows
    Aged <- Unchanged
    MayRemove = FALSE
    MayCrash = FALSE
INVARIANTS
    TextBelongsToRow
CHECK_DEADLOCK FALSE
