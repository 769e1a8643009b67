----------------------------- MODULE DirScanner -----------------------------
(***************************************************************************)
(* ParallelDirScanner and DirScanWorker.  The scanner lists the first      *)
(* level of the argument directories on the main thread, then a few pool   *)
(* threads walk the subdirectories found there.  Workers talk to the main  *)
(* thread through queued signals only: they post events to its queue.      *)
(***************************************************************************)
EXTENDS ConcurrentQueue, FiniteSets

CONSTANTS
    Args,         \* pathsToScan: sequence of the paths the user asked for
    Children,     \* argument directory -> sequence of its direct entries
    Below,        \* subdirectory -> sequence of the files anywhere below it
    Links,        \* first-level entries that are symbolic links
    Ignored,      \* paths an ignore pattern matches
    ScanThreads,  \* maxThreadCount of the scanner's own pool
    Threshold     \* progressReportThreshold of a DirScanWorker

Elements(s) == {s[i] : i \in DOMAIN s}
SubDirs == DOMAIN Below
Paths == Elements(Args) \cup (UNION {Elements(Children[d]) : d \in DOMAIN Children})
                     \cup (UNION {Elements(Below[d]) : d \in SubDirs})

ASSUME TreeAssumption ==
    /\ IsFiniteSet(Paths)
    /\ Args \in Seq(Paths)
    /\ \A d \in DOMAIN Children : Children[d] \in Seq(Paths)
    /\ \A d \in SubDirs : Below[d] \in Seq(Paths)
    /\ ScanThreads \in Nat
    /\ Threshold \in Nat \ {0}

VARIABLES
    targets,          \* targetPathsQueue: subdirectories to walk
    results,          \* resultPathsQueue: files found
    stopToken,        \* ParallelDirScanner::stopToken
    finishedWorkers,  \* ParallelDirScanner::finishedWorkers
    processedPaths,   \* ParallelDirScanner::processedPaths
    scanning,         \* ParallelDirScanner::running
    paths,            \* ParallelDirScanner::paths
    dirWorkers,       \* every DirScanWorker started so far, in order
    events            \* the main thread's posted events, oldest first

scanVars == <<targets, results, stopToken, finishedWorkers, processedPaths,
              scanning, paths, dirWorkers>>

----------------------------------------------------------------------------
\* What a worker thread knows: where it stands in run(), the files its current
\* QDirIterator still has to yield, and the results it has collected.
DirPcs == {"queued", "pick", "walk", "acquire", "append", "progress",
           "lastAcquire", "lastAppend", "lastProgress", "finish", "posted", "done"}
DirWorker == [pc : DirPcs, left : Seq(Paths), found : Seq(Paths)]
QueuedDirWorker == [pc |-> "queued", left |-> <<>>, found |-> <<>>]

DirEvents == [type : {"progress"}, count : Nat] \cup [type : {"dirFinished"}, worker : Nat]
Progress(n) == [type |-> "progress", count |-> n]
DirFinished(w) == [type |-> "dirFinished", worker |-> w]

Post(e) == events' = Append(events, e)

AtDir(w, pc) == dirWorkers[w].pc = pc
\* dirWorkers with worker w somewhere else in run().
MoveDir(w, pc, left, found) ==
    [dirWorkers EXCEPT ![w] = [pc |-> pc, left |-> left, found |-> found]]
Goto(w, pc) == dirWorkers' = MoveDir(w, pc, dirWorkers[w].left, dirWorkers[w].found)

mainScanVars == <<stopToken, finishedWorkers, processedPaths, scanning, paths>>

\* The scanner's pool runs at most ScanThreads workers at a time, first come first served.
StartDirWorker(w) ==
    /\ AtDir(w, "queued")
    /\ \A v \in 1..(w - 1) : ~AtDir(v, "queued")
    /\ Cardinality({v \in DOMAIN dirWorkers :
                      dirWorkers[v].pc \notin {"queued", "posted", "done"}}) < ScanThreads
    /\ Goto(w, "pick")
    /\ UNCHANGED <<targets, results, events>>

\* while(queue->dequeue(path)): an ignored or empty subdirectory is passed over.
PickDirectory(w) ==
    /\ AtDir(w, "pick")
    /\ targets.items # <<>>
    /\ LET d == Head(targets.items) IN
         dirWorkers' = IF d \in Ignored \/ Below[d] = <<>> THEN dirWorkers
                       ELSE MoveDir(w, "walk", Below[d], dirWorkers[w].found)
    /\ targets' = WithoutFirst(targets)
    /\ UNCHANGED <<results, events>>

\* Slip: run() returns without the last enqueue of what it has collected.
NoFinalFlush(w) ==
    /\ AtDir(w, "pick")
    /\ targets.items = <<>>
    /\ Goto(w, "finish")
    /\ UNCHANGED <<targets, results, events>>

NoMoreDirectories(w) ==
    /\ AtDir(w, "pick")
    /\ targets.items = <<>>
    /\ Goto(w, "lastAcquire")
    /\ UNCHANGED <<targets, results, events>>

\* Slip: do-while instead of while(iterator.hasNext()).
ResumeUnchecked(left) == "walk"

\* Where the outer loop goes on: in this directory, or with the next one.
Resume(left) == IF left = <<>> THEN "pick" ELSE "walk"

\* One turn of while(iterator.hasNext()).  The stop token is read only when the
\* threshold is reached: a cancelled worker then drops what it has collected.
WalkEntry(w) ==
    /\ AtDir(w, "walk")
    /\ LET entry == Head(dirWorkers[w].left)
           rest == Tail(dirWorkers[w].left)
           found == IF entry \in Ignored THEN dirWorkers[w].found
                    ELSE Append(dirWorkers[w].found, entry)
           full == entry \notin Ignored /\ Len(found) = Threshold
       IN dirWorkers' = IF full /\ stopToken THEN MoveDir(w, "finish", <<>>, <<>>)
                        ELSE MoveDir(w, IF full THEN "acquire" ELSE Resume(rest), rest, found)
    /\ UNCHANGED <<targets, results, events>>

\* resultQueue->enqueue(results): blocks until there is room, then appends.
AcquireResults(w) ==
    /\ dirWorkers[w].pc \in {"acquire", "lastAcquire"}
    /\ CanAcquire(results, Len(dirWorkers[w].found))
    /\ results' = Acquire(results, Len(dirWorkers[w].found))
    /\ Goto(w, IF AtDir(w, "acquire") THEN "append" ELSE "lastAppend")
    /\ UNCHANGED <<targets, events>>

AppendResults(w) ==
    /\ dirWorkers[w].pc \in {"append", "lastAppend"}
    /\ results' = Put(results, dirWorkers[w].found)
    /\ Goto(w, IF AtDir(w, "append") THEN "progress" ELSE "lastProgress")
    /\ UNCHANGED <<targets, events>>

\* Slip: results.clear() is forgotten after the progress signal.
EmitProgressKeeping(w) ==
    /\ dirWorkers[w].pc \in {"progress", "lastProgress"}
    /\ Post(Progress(Len(dirWorkers[w].found)))
    /\ dirWorkers' = IF AtDir(w, "progress")
                      THEN MoveDir(w, Resume(dirWorkers[w].left), dirWorkers[w].left,
                                   dirWorkers[w].found)
                      ELSE MoveDir(w, "finish", <<>>, <<>>)
    /\ UNCHANGED <<targets, results>>

\* emit progress(results.length()), queued; the last one may announce nothing.
EmitProgress(w) ==
    /\ dirWorkers[w].pc \in {"progress", "lastProgress"}
    /\ Post(Progress(Len(dirWorkers[w].found)))
    /\ dirWorkers' = IF AtDir(w, "progress")
                      THEN MoveDir(w, Resume(dirWorkers[w].left), dirWorkers[w].left, <<>>)
                      ELSE MoveDir(w, "finish", <<>>, <<>>)
    /\ UNCHANGED <<targets, results>>

\* emit finished(), queued, and run() returns.
EmitDirFinished(w) ==
    /\ AtDir(w, "finish")
    /\ Post(DirFinished(w))
    /\ Goto(w, "posted")
    /\ UNCHANGED <<targets, results>>

\* DirScanWorker::run, one step of pool thread w.
DirWorkerStep(w) ==
    /\ \/ StartDirWorker(w)
       \/ PickDirectory(w)
       \/ NoMoreDirectories(w)
       \/ WalkEntry(w)
       \/ AcquireResults(w)
       \/ AppendResults(w)
       \/ EmitProgress(w)
       \/ EmitDirFinished(w)
    /\ UNCHANGED mainScanVars

----------------------------------------------------------------------------
\* The main thread's part.  scan(), the resets at its start.
BeginScan(dirs) ==
    /\ paths' = dirs
    /\ stopToken' = FALSE
    /\ finishedWorkers' = 0
    /\ processedPaths' = 0
    /\ targets' = Clear(targets)
    /\ results' = Clear(results)
    /\ UNCHANGED <<scanning, dirWorkers>>

\* Slip: every first-level entry is counted as a result, directories too.
ListEntryCountingAll(entry) ==
    /\ IF entry \in Ignored \cup Links THEN UNCHANGED <<targets, results, processedPaths>>
       ELSE /\ processedPaths' = processedPaths + 1
            /\ IF entry \in SubDirs
               THEN /\ CanAcquire(targets, 1)
                    /\ targets' = EnqueueOne(targets, entry)
                    /\ UNCHANGED results
               ELSE /\ CanAcquire(results, 1)
                    /\ results' = EnqueueOne(results, entry)
                    /\ UNCHANGED targets
    /\ UNCHANGED <<stopToken, finishedWorkers, scanning, paths, dirWorkers>>

\* scan(), one first-level entry: files are results, directories are targets.
\* Both enqueue calls block the main thread while the queue has no free place.
ListEntry(entry) ==
    /\ IF entry \in Ignored \cup Links THEN UNCHANGED <<targets, results, processedPaths>>
       ELSE IF entry \in SubDirs
            THEN /\ CanAcquire(targets, 1)
                 /\ targets' = EnqueueOne(targets, entry)
                 /\ UNCHANGED <<results, processedPaths>>
            ELSE /\ CanAcquire(results, 1)
                 /\ results' = EnqueueOne(results, entry)
                 /\ processedPaths' = processedPaths + 1
                 /\ UNCHANGED targets
    /\ UNCHANGED <<stopToken, finishedWorkers, scanning, paths, dirWorkers>>

ThreadsNum == IF ScanThreads > Len(paths) THEN Len(paths) ELSE ScanThreads

\* scan(), its end: start the workers, at least one.
SpawnDirWorkers ==
    /\ scanning' = TRUE
    /\ dirWorkers' = dirWorkers \o [i \in 1..ThreadsNum |-> QueuedDirWorker]
    /\ UNCHANGED <<targets, results, stopToken, finishedWorkers, processedPaths, paths>>

\* handleWorkersProgress, without the signal it emits.
CountProgress(n) ==
    /\ processedPaths' = processedPaths + n
    /\ UNCHANGED <<targets, results, stopToken, finishedWorkers, scanning, paths, dirWorkers>>

\* Slip: the count is compared before it is incremented.
ScanIsCompleteLate == stopToken \/ finishedWorkers = ThreadsNum

\* handleWorkersFinish, without the signal it emits; the worker is deleted.
ScanIsComplete == stopToken \/ finishedWorkers + 1 = ThreadsNum
CountDirFinish(w) ==
    /\ finishedWorkers' = finishedWorkers + 1
    /\ scanning' = IF ScanIsComplete THEN FALSE ELSE scanning
    /\ dirWorkers' = MoveDir(w, "done", <<>>, <<>>)
    /\ UNCHANGED <<targets, results, stopToken, processedPaths, paths>>

----------------------------------------------------------------------------
DirScannerInit ==
    /\ targets = EmptyQueue
    /\ results = EmptyQueue
    /\ stopToken = FALSE
    /\ finishedWorkers = 0
    /\ processedPaths = 0
    /\ scanning = FALSE
    /\ paths = <<>>
    /\ dirWorkers = <<>>
=============================================================================
