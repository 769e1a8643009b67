--------------------------- MODULE CommandDelete ---------------------------
(***************************************************************************)
(* CommandDelete::remove: looqs delete --deleted or --pattern pages        *)
(* through the table whose rows it deletes.  It is a process of its own.   *)
(***************************************************************************)
EXTENDS FileStore

CONSTANTS
    DeleteLimit,      \* rows per page: 1000
    DeleteMatching,   \* paths its pattern matches
    DeleteOptions,    \* options it may be called with
    MaxDeletes        \* bound on the calls

ASSUME DeleteAssumption ==
    /\ DeleteLimit \in Nat \ {0}
    /\ DeleteOptions \subseteq [dryRun : BOOLEAN, onlyDeleted : BOOLEAN]
    /\ MaxDeletes \in Nat

VARIABLES
    deletePc,         \* where remove() stands
    deleteOptions,    \* dryRun, onlyDeleted
    deleteOffset,     \* offset
    deletePage,       \* files not yet visited of the page
    deleted,          \* deleted, in this page
    deletes,          \* calls so far
    listed,           \* history: paths it said it would delete
    disturbed         \* history: somebody else wrote to disk or table since it began

deleteVars == <<deletePc, deleteOptions, deleteOffset, deletePage, deleted, deletes,
                listed, disturbed>>

DeletePageAt(start) ==
    LET got == GetFiles(start, DeleteLimit) IN
    /\ deletePage' = {r \in got : r.path \in DeleteMatching}
    /\ deletePc' = IF got = {} THEN "idle" ELSE "visit"

\* remove() up to its loop.
StartDelete ==
    /\ deletePc = "idle"
    /\ deletes < MaxDeletes
    /\ deleteOptions' \in DeleteOptions
    /\ deleteOffset' = 0
    /\ DeletePageAt(0)
    /\ deleted' = 0
    /\ deletes' = deletes + 1
    /\ listed' = {}
    /\ disturbed' = FALSE
    /\ UNCHANGED storeVars

\* One turn of for(FileData &file : files), up to deleteFile.
VisitRow ==
    /\ deletePc = "visit"
    /\ \E r \in deletePage :
        /\ IsFirst(r, deletePage)
        /\ LET keep == deleteOptions.onlyDeleted /\ Exists(r.path) IN
             /\ listed' = listed \cup {p \in {r.path} : ~keep /\ deleteOptions.dryRun}
             /\ IF keep \/ deleteOptions.dryRun
                THEN deletePage' = deletePage \ {r} /\ UNCHANGED deletePc
                ELSE deletePc' = "delete" /\ UNCHANGED deletePage
    /\ UNCHANGED <<storeVars, deleteOptions, deleteOffset, deleted, deletes, disturbed>>

\* deleteFile; if it fails, the command ends.
DeleteVisited ==
    /\ deletePc = "delete"
    /\ \E r \in deletePage :
        /\ IsFirst(r, deletePage)
        /\ deletePage' = deletePage \ {r}
        /\ DeleteFile(r.path)
    /\ deleted' = deleted + 1
    /\ deletePc' = "visit"
    /\ UNCHANGED <<disk, deleteOptions, deleteOffset, deletes, listed, disturbed>>

\* ... and so it does if getFiles fails, which throws where nobody catches.
FailDelete ==
    /\ "dbfail" \in Failures
    /\ deletePc = "delete" \/ (deletePc = "visit" /\ deletePage = {})
    /\ deletePc' = "idle"
    /\ disturbed' = TRUE
    /\ UNCHANGED <<storeVars, deleteOptions, deleteOffset, deletePage, deleted, deletes, listed>>

\* Slip: the offset does not make up for the rows deleted.
NextOffsetByLimit == deleteOffset + DeleteLimit

NextOffset ==
    IF deleteOptions.dryRun THEN deleteOffset + DeleteLimit
                            ELSE deleteOffset + DeleteLimit - deleted

\* Slip: deleted is not reset for the next page.
KeepDeletedCount ==
    /\ deletePc = "visit"
    /\ deletePage = {}
    /\ deleteOffset' = NextOffset
    /\ DeletePageAt(NextOffset)
    /\ UNCHANGED <<storeVars, deleted, deleteOptions, deletes, listed, disturbed>>

\* The page is visited: getFiles again.
NextDeletePage ==
    /\ deletePc = "visit"
    /\ deletePage = {}
    /\ deleteOffset' = NextOffset
    /\ DeletePageAt(NextOffset)
    /\ deleted' = 0
    /\ UNCHANGED <<storeVars, deleteOptions, deletes, listed, disturbed>>

\* removePaths: looqs delete with a path that has a row.
RemovePath ==
    /\ deletePc = "idle"
    /\ deletes < MaxDeletes
    /\ \E r \in rows : DeleteFile(r.path)
    /\ deletes' = deletes + 1
    /\ disturbed' = TRUE
    /\ UNCHANGED <<disk, deletePc, deleteOptions, deleteOffset, deletePage, deleted, listed>>

DeleterStep == VisitRow \/ DeleteVisited \/ NextDeletePage
=============================================================================
