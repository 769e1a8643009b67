SPECIFICATION FairSpec
CONSTANTS
    Processes = {"gui", "cli"}
    Guis = {"gui"}
    LastRevision = 2
    MayKill = TRUE
    SqlFails = TRUE
    MaxStarts = 2
    Paths = {"p", "q"}
    Kinds = {}
    Failures = {"dbfail"}
    MayRemove = FALSE
    MaxMtime = 1
    MaxSame = 1
    DirOf <- Flat
    Changing = {}
    Names = {"s", "t"}
    Clients = {"gui", "cli"}
    MaxCommands = 3
    MaxWrites = 1
    StartRevisions = {0, 1, 2}
    Indexed <- TwoRows
    TagRevision = 2
INVARIANTS
    TypeOK
    RevisionTellsSchema
    WorksUpToDate
    AssignedTagsExist
PROPERTIES
    EventuallyUpgraded
    BookKept
CHECK_DEADLOCK FALSE
