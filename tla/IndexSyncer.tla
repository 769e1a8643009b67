---------------------------- MODULE IndexSyncer ----------------------------
(***************************************************************************)
(* IndexSyncer::sync, as the GUI's "Sync index" and looqs update run it,   *)
(* paging through the table it changes, with FileSaver's threads below it  *)
(* and indexing jobs and looqs delete beside it.                           *)
(***************************************************************************)
EXTENDS FileSaver

CONSTANTS
    Limit,       \* rows per page: 10000
    StopEvery,   \* the token is read when the page's size is a multiple of this: 100
    Matching,    \* paths the pattern matches
    Mounted,     \* paths below Common::mountPaths()
    Options,     \* options sync may be run with
    MaxSyncs     \* bound on the number of syncs

ASSUME SyncerAssumption ==
    /\ Limit \in Nat \ {0}
    /\ StopEvery \in Nat \ {0}
    /\ Options \subseteq [dryRun : BOOLEAN, keepGoing : BOOLEAN, removeDeleted : BOOLEAN]
    /\ MaxSyncs \in Nat

VARIABLES
    syncPc,      \* where sync() stands
    options,     \* dryRun, keepGoing, removeDeletedFromIndex of this sync
    stopToken,   \* stopToken
    offset,      \* offset
    processed,   \* processedRows
    page,        \* files not yet visited of the page
    selected,    \* filePathsToUpdate
    pending,     \* those blockingMap has not handed to a thread yet
    terminate,   \* processFiles' terminate
    saved,       \* processFiles' processedCount
    totals,      \* what finished() reports
    syncs,       \* syncs so far
    seen,        \* history: paths of the rows visited in this sync
    announced,   \* history: paths of updatedDryRun and removedDryRun
    failed,      \* history: an operation of this sync failed
    interfered   \* history: somebody else wrote to disk or table since it began

pageVars == <<offset, processed, page, selected>>
mapVars == <<pending, terminate, saved>>
syncVars == <<syncPc, options, stopToken, pageVars, mapVars, totals, syncs,
              seen, announced, failed, interfered>>

NoTotals == [updated |-> 0, deleted |-> 0, errored |-> 0]

\* beginIndexSync is delivered to the syncer's thread, or looqs update calls it.
StartSync ==
    /\ syncPc = "idle"
    /\ syncs < MaxSyncs
    /\ options' \in Options
    /\ stopToken' = FALSE
    /\ offset' = 0
    /\ totals' = NoTotals
    /\ syncPc' = "read"
    /\ syncs' = syncs + 1
    /\ seen' = {}
    /\ announced' = {}
    /\ failed' = FALSE
    /\ interfered' = FALSE
    /\ UNCHANGED <<storeVars, saverVars, processed, page, selected, mapVars>>

\* IndexSyncer::cancel, a slot of the syncer's thread: it is delivered when sync()
\* has returned, be it for the Cancel button or for progressDialog.cancel().
Cancel ==
    /\ syncPc = "idle"
    /\ syncs > 0
    /\ stopToken' = TRUE
    /\ UNCHANGED <<storeVars, saverVars, syncPc, options, pageVars, mapVars, totals,
                   syncs, seen, announced, failed, interfered>>

\* Slip: a page that is not full ends the loop.
ReadFullPages ==
    /\ syncPc = "read"
    /\ LET got == GetFiles(offset, Limit) IN
         /\ page' = {r \in got : r.path \in Matching}
         /\ processed' = Cardinality(got)
         /\ syncPc' = IF Cardinality(got) < Limit THEN "idle" ELSE "check"
    /\ selected' = {}
    /\ UNCHANGED <<storeVars, saverVars, options, stopToken, offset, mapVars, totals,
                   syncs, seen, announced, failed, interfered>>

\* dbService->getFiles(files, pattern, offset, limit); finished() after the last page.
ReadPage ==
    /\ syncPc = "read"
    /\ LET got == GetFiles(offset, Limit) IN
         /\ page' = {r \in got : r.path \in Matching}
         /\ processed' = Cardinality(got)
         /\ syncPc' = IF got = {} THEN "idle" ELSE "check"
    /\ selected' = {}
    /\ UNCHANGED <<storeVars, saverVars, options, stopToken, offset, mapVars, totals,
                   syncs, seen, announced, failed, interfered>>

IsStale(r) == IsFile(r.path) /\ disk[r.path].mtime # r.mtime
IsGone(r) == ~Exists(r.path) /\ options.removeDeleted

\* One turn of for(FileData &fileData : files), up to deleteFile.
CheckRow ==
    /\ syncPc = "check"
    /\ \E r \in page :
        /\ IsFirst(r, page)
        /\ LET stop == processed % StopEvery = 0 /\ stopToken
               delete == IsGone(r) /\ ~options.dryRun
               change == ~stop /\ r.path \notin Mounted /\ (IsStale(r) \/ IsGone(r))
           IN /\ syncPc' = CASE stop -> "idle"
                             [] change /\ delete -> "delete"
                             [] OTHER -> "check"
              /\ page' = IF change /\ delete THEN page ELSE page \ {r}
              /\ seen' = IF stop THEN seen ELSE seen \cup {r.path}
              /\ announced' = announced \cup {p \in {r.path} : change /\ options.dryRun}
              /\ selected' =
                   selected \cup {p \in {r.path} : change /\ IsStale(r) /\ ~options.dryRun}
    /\ UNCHANGED <<storeVars, saverVars, options, stopToken, offset, processed, mapVars,
                   totals, syncs, failed, interfered>>

\* deleteFile.  A failure is reported; with keepGoing the row is counted as removed
\* all the same, without it sync ends.
DeleteRow ==
    /\ syncPc = "delete"
    /\ \E r \in page :
        /\ IsFirst(r, page)
        /\ page' = page \ {r}
        /\ \/ /\ DeleteFile(r.path)
              /\ syncPc' = "check"
              /\ totals' = [totals EXCEPT !.deleted = @ + 1]
              /\ UNCHANGED failed
           \/ /\ "dbfail" \in Failures
              /\ failed' = TRUE
              /\ IF options.keepGoing
                 THEN syncPc' = "check" /\ totals' = [totals EXCEPT !.deleted = @ + 1]
                 ELSE syncPc' = "idle" /\ UNCHANGED totals
              /\ UNCHANGED <<rows, content>>
    /\ UNCHANGED <<disk, saverVars, options, stopToken, offset, processed, selected, mapVars,
                   syncs, seen, announced, interfered>>

\* The page is visited: updateFiles(filePathsToUpdate).
StartUpdates ==
    /\ syncPc = "check"
    /\ page = {}
    /\ syncPc' = "update"
    /\ pending' = selected
    /\ terminate' = FALSE
    /\ saved' = 0
    /\ UNCHANGED <<storeVars, saverVars, options, stopToken, pageVars, totals, syncs,
                   seen, announced, failed, interfered>>

\* blockingMap hands a path to a thread; after a failure without keepGoing the
\* thread leaves it alone.
TakeUpdate(w) ==
    /\ syncPc = "update"
    /\ \E p \in pending :
        /\ pending' = pending \ {p}
        /\ IF terminate THEN At(w, "idle") /\ UNCHANGED <<storeVars, saverVars>>
                        ELSE StartUpdate(w, p)
    /\ UNCHANGED <<syncPc, options, stopToken, pageVars, terminate, saved, totals, syncs,
                   seen, announced, failed, interfered>>

\* What processFiles' function does with the result.
EndUpdate(w) ==
    /\ At(w, "answer")
    /\ task[w].for = "update"
    /\ LET bad == task[w].result \in {"dbfail", "processfail"} IN
         /\ terminate' = (terminate \/ (bad /\ ~options.keepGoing))
         /\ saved' = IF bad THEN saved ELSE saved + 1
    /\ failed' = (failed \/ task[w].result \notin {"ok", "skipped"})
    /\ task' = [task EXCEPT ![w] = Idle]
    /\ UNCHANGED <<storeVars, adds, bare, syncPc, options, stopToken, pageVars, pending,
                   totals, syncs, seen, announced, interfered>>

Updating == {w \in Workers : ~At(w, "idle") /\ task[w].for = "update"}

\* Slip: the next page begins where this one did.
StayOnPage == UNCHANGED offset

Advance == offset' = offset + Limit

\* Slip: map instead of blockingMap.
CollectEarly ==
    /\ syncPc = "update"
    /\ pending = {}
    /\ Advance
    /\ totals' = [totals EXCEPT !.updated = @ + saved,
                                !.errored = @ + Cardinality(selected) - saved]
    /\ syncPc' = "read"
    /\ UNCHANGED <<storeVars, saverVars, options, stopToken, processed, page, selected,
                   mapVars, syncs, seen, announced, failed, interfered>>

\* updateFiles returned.  Without keepGoing a failure emits finished() here, but the
\* loop goes on with the next page and emits it again.
CollectUpdates ==
    /\ syncPc = "update"
    /\ pending = {}
    /\ Updating = {}
    /\ Advance
    /\ totals' = [totals EXCEPT !.updated = @ + saved,
                                !.errored = @ + Cardinality(selected) - saved]
    /\ syncPc' = "read"
    /\ UNCHANGED <<storeVars, saverVars, options, stopToken, processed, page, selected,
                   mapVars, syncs, seen, announced, failed, interfered>>

\* The steps of the syncer's own thread.
SyncerStep ==
    \/ ReadPage
    \/ CheckRow
    \/ DeleteRow
    \/ StartUpdates
    \/ CollectUpdates
=============================================================================
