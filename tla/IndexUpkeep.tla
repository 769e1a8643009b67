---------------------------- MODULE IndexUpkeep ----------------------------
(***************************************************************************)
(* Everything that keeps the index: indexing jobs, the syncer and looqs    *)
(* delete work on one database while other programs change the files, and  *)
(* the process may die at any moment.                                      *)
(***************************************************************************)
EXTENDS IndexSyncer, CommandDelete

CONSTANTS
    Indexes,      \* the indexes there may be to begin with: types of paths, by their ids
    Aged,         \* what may have become of the files since
    MayCrash      \* TRUE: the process may be killed

ASSUME UpkeepAssumption ==
    /\ Indexes \subseteq Seq([path : Paths, type : {"c", "f", "d"}])
    /\ \A index \in Indexes : \A i, k \in DOMAIN index : index[i].path = index[k].path => i = k
    /\ Aged \subseteq {d \in [Paths -> Stat] : IsTree(d)}
    /\ MayCrash \in BOOLEAN

vars == <<storeVars, saverVars, syncVars, deleteVars>>

\* An index of paths that all had modification time 1, and the texts of its files.
Init ==
    /\ disk \in Aged
    /\ \E index \in Indexes :
         /\ rows = {[id |-> i, path |-> index[i].path, mtime |-> 1, type |-> index[i].type] :
                      i \in DOMAIN index}
         /\ content = {[fileid |-> i, path |-> index[i].path, mtime |-> 1, nth |-> 1] :
                         i \in {k \in DOMAIN index : index[k].type = "c"}}
    /\ task = [w \in Workers |-> Idle]
    /\ adds = 0
    /\ bare = {}
    /\ syncPc = "idle"
    /\ options = [dryRun |-> FALSE, keepGoing |-> FALSE, removeDeleted |-> FALSE]
    /\ stopToken = FALSE
    /\ offset = 0
    /\ processed = 0
    /\ page = {}
    /\ selected = {}
    /\ pending = {}
    /\ terminate = FALSE
    /\ saved = 0
    /\ totals = NoTotals
    /\ syncs = 0
    /\ seen = {}
    /\ announced = {}
    /\ failed = FALSE
    /\ interfered = TRUE
    /\ deletePc = "idle"
    /\ deleteOptions = [dryRun |-> FALSE, onlyDeleted |-> TRUE]
    /\ deleteOffset = 0
    /\ deletePage = {}
    /\ deleted = 0
    /\ deletes = 0
    /\ listed = {}
    /\ disturbed = TRUE

\* Who writes disturbs the others.
SyncUndisturbed == UNCHANGED <<syncPc, options, stopToken, pageVars, mapVars, totals, syncs,
                               seen, announced, failed>>
DeleteUndisturbed == UNCHANGED <<deletePc, deleteOptions, deleteOffset, deletePage, deleted,
                                 deletes, listed>>
Disturb == interfered' = TRUE /\ disturbed' = TRUE

OtherPrograms ==
    /\ \E p \in Changing : Write(p) \/ Remove(p)
    /\ Disturb
    /\ SyncUndisturbed /\ DeleteUndisturbed
    /\ UNCHANGED saverVars

Indexing(w) ==
    /\ \E p \in Changing : StartAdd(w, p)
    /\ UNCHANGED <<syncVars, deleteVars>>

SaverReadStep(w) == SaverReads(w) /\ UNCHANGED <<syncVars, deleteVars>>

SaverSaveStep(w) ==
    /\ Save(w)
    /\ IF task[w].for = "add" THEN interfered' = TRUE ELSE UNCHANGED interfered
    /\ disturbed' = TRUE
    /\ SyncUndisturbed /\ DeleteUndisturbed

UpdateStep(w) == (TakeUpdate(w) \/ EndUpdate(w)) /\ UNCHANGED deleteVars

SyncerThread ==
    /\ SyncerStep
    /\ IF rows' = rows THEN UNCHANGED disturbed ELSE disturbed' = TRUE
    /\ DeleteUndisturbed

\* looqs delete, a process of its own.
DeleteProcess ==
    /\ DeleterStep \/ FailDelete
    /\ IF rows' = rows THEN UNCHANGED interfered ELSE interfered' = TRUE
    /\ SyncUndisturbed
    /\ UNCHANGED saverVars

SyncClick == (StartSync \/ Cancel) /\ UNCHANGED deleteVars
DeleteCall == StartDelete /\ UNCHANGED <<saverVars, syncVars>>
DeletePath ==
    /\ RemovePath
    /\ interfered' = TRUE
    /\ SyncUndisturbed
    /\ UNCHANGED saverVars

\* The process that syncs is gone, and the indexing job with it if the GUI runs both.
\* Nothing of a transaction that was not committed is left.
Abort ==
    /\ \E gone \in {Updating, Workers} :
         task' = [w \in Workers |-> IF w \in gone THEN Idle ELSE task[w]]
    /\ syncPc' = "idle"
    /\ pending' = {}
    /\ Disturb
    /\ UNCHANGED <<storeVars, adds, bare, options, stopToken, pageVars, terminate, saved,
                   totals, syncs, seen, announced, failed>>
    /\ DeleteUndisturbed

Crash == MayCrash /\ Abort

\* getFiles, or queryFileType on behalf of an update, throws where nobody catches.
QueryFails ==
    /\ "dbfail" \in Failures
    /\ \/ syncPc = "read"
       \/ \E w \in Updating : At(w, "decide") /\ AsksForType(task[w])
    /\ Abort

Threads ==
    \/ SyncerThread
    \/ \E w \in Workers : SaverReadStep(w) \/ SaverSaveStep(w) \/ UpdateStep(w)

Next ==
    \/ OtherPrograms
    \/ \E w \in Workers : Indexing(w)
    \/ Threads
    \/ SyncClick
    \/ DeleteCall
    \/ DeletePath
    \/ DeleteProcess
    \/ Crash
    \/ QueryFails

Spec == Init /\ [][Next]_vars

\* The syncer's thread, each thread of the pool and the deleting process go on.
Fairness ==
    /\ WF_vars(SyncerThread)
    /\ \A w \in Workers :
         WF_vars(SaverReadStep(w) \/ SaverSaveStep(w) \/ UpdateStep(w))
    /\ WF_vars(DeleteProcess)

FairSpec == Spec /\ Fairness
----------------------------------------------------------------------------
TypeOK ==
    /\ SaverTypeOK
    /\ syncPc \in {"idle", "read", "check", "delete", "update"}
    /\ options \in [dryRun : BOOLEAN, keepGoing : BOOLEAN, removeDeleted : BOOLEAN]
    /\ stopToken \in BOOLEAN
    /\ offset \in Nat
    /\ processed \in Nat
    /\ page \subseteq Row
    /\ selected \subseteq Paths
    /\ pending \subseteq Paths
    /\ terminate \in BOOLEAN
    /\ saved \in Nat
    /\ totals \in [updated : Nat, deleted : Nat, errored : Int]
    /\ syncs \in Nat
    /\ seen \subseteq Paths
    /\ announced \subseteq Paths
    /\ failed \in BOOLEAN
    /\ interfered \in BOOLEAN
    /\ deletePc \in {"idle", "visit", "delete"}
    /\ deleteOptions \in [dryRun : BOOLEAN, onlyDeleted : BOOLEAN]
    /\ deleteOffset \in Int
    /\ deletePage \subseteq Row
    /\ deleted \in Nat
    /\ deletes \in Nat
    /\ listed \subseteq Paths
    /\ disturbed \in BOOLEAN

\* What sync has nothing to do about.
InSync(r) == r.path \in Mounted \cup Excluded \/ (~IsStale(r) /\ ~IsGone(r))
SyncIsOver == syncPc = "idle" /\ syncs > 0
SyncWasQuiet == ~interfered /\ ~failed

\* When sync turns to the next page or ends, undisturbed and without a failure, every
\* row it has visited agrees with its file: the threads that update the files of a
\* page have all committed (indexsyncer.cpp:104-118, filesaver.cpp:67).
CheckedMeansInSync ==
    (SyncIsOver \/ syncPc = "read") /\ SyncWasQuiet /\ ~options.dryRun =>
        \A r \in rows : r.path \in seen => InSync(r)

\* looqs update -n tells of exactly the files that a sync would have to do something
\* about, however many pages the table has and whether or not the pattern matches
\* anything on a page (indexsyncer.cpp:43,118-123, sqlitedbservice.cpp:101).
DryRunIsComplete ==
    SyncIsOver /\ SyncWasQuiet /\ options.dryRun =>
        announced = {r.path : r \in {s \in rows : s.path \in Matching \ Mounted
                                                    /\ (IsStale(s) \/ IsGone(s))}}

\* The row looqs delete is to remove.
ToDelete(r) ==
    r.path \in DeleteMatching /\ (deleteOptions.onlyDeleted => ~Exists(r.path))

\* looqs delete leaves no row it was asked to remove, although it pages through the
\* table that shrinks below it; with --dry-run it lists exactly those
\* (commanddelete.cpp:52-63).
DeleteLeavesNothing ==
    deletePc = "idle" /\ deletes > 0 /\ ~disturbed =>
        IF deleteOptions.dryRun
        THEN listed = {r.path : r \in {s \in rows : ToDelete(s)}}
        ELSE \A r \in rows : ~ToDelete(r)

\* A sync comes to an end, and so does a deletion, while files and table change.
SyncEnds == syncPc # "idle" ~> syncPc = "idle"
DeleteEnds == deletePc # "idle" ~> deletePc = "idle"

\* "Over time, files get deleted or their content changes. [...] looqs will reindex the
\* content of files which have been changed. Files that cannot be found anymore will
\* be removed from the index." (USAGE.md:68)
SyncMeansInSync ==
    SyncIsOver /\ SyncWasQuiet /\ ~options.dryRun =>
        \A r \in rows : r.path \in Matching => InSync(r)

\* "fileid INTEGER REFERENCES file (id) ON DELETE CASCADE" (migrations/1.sql:2): what is
\* stored for a row is the text of the version of the file it was written for.
TextBelongsToRow ==
    \A r \in rows : \A c \in content :
        c.fileid = r.id => c.path = r.path /\ c.mtime >= r.mtime
=============================================================================
