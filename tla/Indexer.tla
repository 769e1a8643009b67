------------------------------- MODULE Indexer -------------------------------
(***************************************************************************)
(* Indexer and FileScanWorker, composed with the directory scanner, the    *)
(* main thread's event loop and its user.  The main thread is either in    *)
(* its event loop, where it handles one posted event or one click at a     *)
(* time, or somewhere inside beginIndexing, where it handles none.         *)
(* Indexing jobs (FileScanWorkers) run on the global thread pool.          *)
(***************************************************************************)
EXTENDS DirScanner

CONSTANTS
    PoolThreads,   \* maxThreadCount of the global pool
    KeepGoing,     \* FileSaverOptions::keepGoing
    Gui,           \* TRUE: MainWindow drives the indexer; FALSE: CommandAdd does
    Codes,         \* what FileSaver::addFile may answer in this environment
    InitialTokens, \* values workerCancellationToken may hold before its first store
    MaxRuns,       \* bound on the number of times indexing is started
    MayCancel      \* TRUE: the user may press "Stop indexing"

\* "ok": OK and OK_WASEMPTY; "error": what isErrorSaveFileResult accepts;
\* "signal": the number of the signal that killed the extraction process.
AllCodes == {"ok", "skipped", "error", "signal"}

ASSUME IndexerAssumption ==
    /\ PoolThreads \in Nat \ {0}
    /\ KeepGoing \in BOOLEAN
    /\ Gui \in BOOLEAN
    /\ Codes \subseteq AllCodes
    /\ InitialTokens \subseteq BOOLEAN
    /\ MaxRuns \in Nat
    /\ MayCancel \in BOOLEAN

VARIABLES
    fileTargets,     \* filePathTargetsQueue: arguments that are files
    cancelToken,     \* workerCancellationToken
    runningWorkers,  \* runningWorkers
    counts,          \* addedPaths, skippedPaths, erroredPaths of currentIndexResult
    jobs,            \* every FileScanWorker launched so far, in order
    mainPc,          \* where the main thread stands
    todo,            \* arguments, then directories, its loops have still to visit
    dirs,            \* beginIndexing's list of the arguments that are directories
    entries,         \* scan(): entries of the directory being listed, not yet visited
    enabled,         \* btnStartIndexing is enabled
    phase,           \* "idle", or "indexing" until the owner is told it finished
    runs,            \* how often indexing was started
    cancelled,       \* history: requestCancellation was called in this run
    reported         \* history: the paths whose result was counted in this run

jobVars == <<fileTargets, cancelToken, runningWorkers, counts, jobs>>
mainVars == <<mainPc, todo, dirs, entries, enabled, phase, runs, cancelled, reported>>
vars == <<scanVars, events, jobVars, mainVars>>

----------------------------------------------------------------------------
\* FileScanWorker.  "results" and "files" name the queue it was given.
JobPcs == {"queued", "take", "process", "check", "posted", "done", "underflow"}
Job == [pc : JobPcs, queue : {"files", "results"}, size : Int, batch : Seq(Paths)]
NewJob(queue, size) == [pc |-> "queued", queue |-> queue, size |-> size, batch |-> <<>>]
\* jobs with job j somewhere else in run(); of a job that is over nothing is kept.
MoveJob(j, pc, batch) ==
    [jobs EXCEPT ![j] = [pc |-> pc, queue |-> jobs[j].queue, size |-> jobs[j].size,
                         batch |-> batch]]
EndJob(j, pc) ==
    [jobs EXCEPT ![j] = [pc |-> pc, queue |-> "files", size |-> 0, batch |-> <<>>]]

JobEvents == [type : {"result"}, job : Nat, path : Paths, code : AllCodes]
             \cup [type : {"fileFinished"}, job : Nat]
Result(j, p, code) == [type |-> "result", job |-> j, path |-> p, code |-> code]
FileFinished(j) == [type |-> "fileFinished", job |-> j]

AtJob(j, pc) == jobs[j].pc = pc
LiveJobs == {j \in DOMAIN jobs : jobs[j].pc # "done"}

\* The queue job j reads, and the same state with that queue replaced.
QueueOfJob(j) == IF jobs[j].queue = "files" THEN fileTargets ELSE results
SetQueueOfJob(j, q) ==
    IF jobs[j].queue = "files"
    THEN fileTargets' = q /\ UNCHANGED results
    ELSE results' = q /\ UNCHANGED fileTargets

\* A pool thread picks the oldest queued job; dequeue(batchsize) releases the
\* permits of the whole batch first ...
StartJob(j) ==
    /\ AtJob(j, "queued")
    /\ \A k \in 1..(j - 1) : ~AtJob(k, "queued")
    /\ Cardinality({k \in DOMAIN jobs :
                      jobs[k].pc \notin {"queued", "posted", "done"}}) < PoolThreads
    /\ SetQueueOfJob(j, Release(QueueOfJob(j), jobs[j].size))
    /\ jobs' = MoveJob(j, "take", <<>>)
    /\ UNCHANGED <<cancelToken, events>>

\* ... and then takes its elements under the lock.  takeFirst() on an empty list
\* is undefined, as is a negative batchsize: the job is stuck in "underflow".
TakeBatch(j) ==
    /\ AtJob(j, "take")
    /\ LET q == QueueOfJob(j) IN
         IF Holds(q, jobs[j].size)
         THEN /\ SetQueueOfJob(j, WithoutBatch(q, jobs[j].size))
              /\ jobs' = MoveJob(j, IF jobs[j].size = 0 THEN "check" ELSE "process",
                                 Batch(q, jobs[j].size))
         ELSE /\ jobs' = MoveJob(j, "underflow", <<>>)
              /\ UNCHANGED <<fileTargets, results>>
    /\ UNCHANGED <<cancelToken, events>>

\* saver.addFile(path) and emit result(...), queued.
ProcessPath(j) ==
    /\ AtJob(j, "process")
    /\ \E code \in Codes : Post(Result(j, Head(jobs[j].batch), code))
    /\ jobs' = MoveJob(j, "check", Tail(jobs[j].batch))
    /\ UNCHANGED <<fileTargets, results, cancelToken>>

\* Slip: return instead of break when the token is set.
CheckTokenSilently(j) ==
    /\ AtJob(j, "check")
    /\ IF cancelToken \/ jobs[j].batch = <<>>
       THEN /\ jobs' = EndJob(j, "posted")
            /\ IF cancelToken THEN UNCHANGED events ELSE Post(FileFinished(j))
       ELSE jobs' = MoveJob(j, "process", jobs[j].batch) /\ UNCHANGED events
    /\ UNCHANGED <<fileTargets, results, cancelToken>>

\* if(stopToken->load(...)): the rest of the batch is dropped.  With nothing left
\* to do, emit finished(), queued, and the job deletes itself.
CheckToken(j) ==
    /\ AtJob(j, "check")
    /\ IF cancelToken \/ jobs[j].batch = <<>>
       THEN Post(FileFinished(j)) /\ jobs' = EndJob(j, "posted")
       ELSE jobs' = MoveJob(j, "process", jobs[j].batch) /\ UNCHANGED events
    /\ UNCHANGED <<fileTargets, results, cancelToken>>

\* FileScanWorker::run, one step of the pool thread that runs job j.
JobStep(j) ==
    /\ \/ StartJob(j)
       \/ TakeBatch(j)
       \/ ProcessPath(j)
       \/ CheckToken(j)
    /\ UNCHANGED <<targets, mainScanVars, dirWorkers, runningWorkers, counts, mainVars>>

----------------------------------------------------------------------------
\* Indexer::launchWorker.
LaunchWorker(queue, size) ==
    /\ jobs' = Append(jobs, NewJob(queue, size))
    /\ runningWorkers' = runningWorkers + 1

\* Slip: the indexer counts as running only while the directories are scanned.
IsScanning == scanning

IsRunning == runningWorkers > 0 \/ scanning

\* requestCancellation: the scanner's token, then the workers' token.
RequestCancellation ==
    /\ stopToken' = TRUE
    /\ cancelToken' = TRUE
    /\ cancelled' = TRUE
DoNotCancel == UNCHANGED <<stopToken, cancelToken, cancelled>>

\* emit finished(): MainWindow::finishIndexing re-enables the button,
\* CommandAdd::indexerFinished asks the event loop to exit.
EmitFinished == phase' = "idle" /\ enabled' = TRUE
DoNotFinish == UNCHANGED <<phase, enabled>>

clickVars == <<enabled, phase, runs, cancelled, reported>>

\* MainWindow::startIndexing on an indexer that does not run: "Start indexing".
StartButton == Gui /\ enabled /\ ~IsRunning

\* CommandAdd::handle: the command starts the indexer once.
AddCommand == ~Gui /\ runs = 0

\* Indexer::beginIndexing up to its loop over pathsToScan.
BeginIndexing ==
    /\ mainPc = "loop"
    /\ runs < MaxRuns
    /\ StartButton \/ AddCommand
    /\ runningWorkers' = 0
    /\ counts' = [added |-> 0, skipped |-> 0, errored |-> 0]
    /\ mainPc' = "arguments"
    /\ todo' = Args
    /\ phase' = "indexing"
    /\ runs' = runs + 1
    /\ cancelled' = FALSE
    /\ reported' = {}
    /\ UNCHANGED <<scanVars, events, fileTargets, cancelToken, jobs, dirs, entries, enabled>>

\* One turn of that loop.  filePathTargetsQueue.enqueue(path) blocks the main
\* thread while the queue is full.
NextArgument ==
    /\ mainPc = "arguments"
    /\ todo # <<>>
    /\ LET p == Head(todo) IN
         CASE p \in Ignored -> UNCHANGED <<dirs, fileTargets>>
           [] p \notin Ignored /\ p \in DOMAIN Children ->
                dirs' = Append(dirs, p) /\ UNCHANGED fileTargets
           [] OTHER ->
                /\ CanAcquire(fileTargets, 1)
                /\ fileTargets' = EnqueueOne(fileTargets, p)
                /\ UNCHANGED dirs
    /\ todo' = Tail(todo)
    /\ UNCHANGED <<scanVars, events, cancelToken, runningWorkers, counts, jobs,
                   mainPc, entries, clickVars>>

\* The loop is over: setPaths and the head of scan(), if there are directories.
StartScan ==
    /\ mainPc = "arguments"
    /\ todo = <<>>
    /\ IF dirs = <<>>
       THEN mainPc' = "launch" /\ UNCHANGED <<scanVars, todo>>
       ELSE mainPc' = "list" /\ todo' = dirs /\ BeginScan(dirs)
    /\ dirs' = <<>>
    /\ UNCHANGED <<events, jobVars, entries, clickVars>>

\* for(QString &path : this->paths): open the next directory's iterator.
OpenDirectory ==
    /\ mainPc = "list"
    /\ entries = <<>>
    /\ todo # <<>>
    /\ entries' = Children[Head(todo)]
    /\ todo' = Tail(todo)
    /\ UNCHANGED <<scanVars, events, jobVars, mainPc, dirs, clickVars>>

NextEntry ==
    /\ mainPc = "list"
    /\ entries # <<>>
    /\ ListEntry(Head(entries))
    /\ entries' = Tail(entries)
    /\ UNCHANGED <<events, jobVars, mainPc, todo, dirs, clickVars>>

\* emit progress(processedPaths, processedPaths), a direct call of dirScanProgress:
\* a job for the files of the first level starts before scan() returns.
AnnounceFirstLevel ==
    /\ mainPc = "list"
    /\ entries = <<>>
    /\ todo = <<>>
    /\ LaunchWorker("results", processedPaths)
    /\ mainPc' = "spawn"
    /\ UNCHANGED <<scanVars, events, fileTargets, cancelToken, counts,
                   todo, dirs, entries, clickVars>>

\* The rest of scan().  Without a thread it only emits scanComplete, which
\* dirScanFinished ignores: the job just launched is running.
SpawnOrComplete ==
    /\ mainPc = "spawn"
    /\ IF ThreadsNum = 0 THEN UNCHANGED scanVars ELSE SpawnDirWorkers
    /\ mainPc' = "launch"
    /\ UNCHANGED <<events, jobVars, todo, dirs, entries, clickVars>>

\* The end of beginIndexing: only now is the workers' token reset.
LaunchFileTargets ==
    /\ mainPc = "launch"
    /\ cancelToken' = FALSE
    /\ LaunchWorker("files", Remaining(fileTargets))
    /\ mainPc' = "loop"
    /\ UNCHANGED <<scanVars, events, fileTargets, counts, todo, dirs, entries, clickVars>>
----------------------------------------------------------------------------
\* The event loop.  Every handler takes the oldest event.
Handling(type) ==
    /\ mainPc = "loop"
    /\ events # <<>>
    /\ Head(events).type = type
    /\ events' = Tail(events)
    /\ UNCHANGED <<fileTargets, mainPc, todo, dirs, entries, runs>>

\* handleWorkersProgress; unless the scan was stopped it emits progress, a direct
\* call of dirScanProgress.
HandleProgress ==
    /\ Handling("progress")
    /\ CountProgress(Head(events).count)
    /\ IF stopToken THEN UNCHANGED <<jobs, runningWorkers>>
       ELSE LaunchWorker("results", Head(events).count)
    /\ UNCHANGED <<cancelToken, counts, enabled, phase, cancelled, reported>>

\* Slip: dirScanFinished emits finished without looking at runningWorkers.
FinishWithScan ==
    /\ Handling("dirFinished")
    /\ CountDirFinish(Head(events).worker)
    /\ IF ScanIsComplete THEN EmitFinished ELSE DoNotFinish
    /\ UNCHANGED <<cancelToken, runningWorkers, counts, jobs, cancelled, reported>>

\* handleWorkersFinish; when the scan is complete, dirScanFinished.
HandleDirFinished ==
    /\ Handling("dirFinished")
    /\ CountDirFinish(Head(events).worker)
    /\ IF ScanIsComplete /\ runningWorkers = 0 THEN EmitFinished ELSE DoNotFinish
    /\ UNCHANGED <<cancelToken, runningWorkers, counts, jobs, cancelled, reported>>

Counted(code) ==
    [added |-> counts.added + IF code = "ok" THEN 1 ELSE 0,
     skipped |-> counts.skipped + IF code = "skipped" THEN 1 ELSE 0,
     errored |-> counts.errored + IF code \in {"ok", "skipped"} THEN 0 ELSE 1]

\* Slip: finished is emitted on an error, but nothing is cancelled.
FinishWithoutCancel ==
    /\ Handling("result")
    /\ counts' = Counted(Head(events).code)
    /\ reported' = reported \cup {Head(events).path}
    /\ DoNotCancel
    /\ IF Head(events).code = "error" /\ ~KeepGoing THEN EmitFinished ELSE DoNotFinish
    /\ UNCHANGED <<targets, results, finishedWorkers, processedPaths, scanning, paths,
                   dirWorkers, runningWorkers, jobs>>

\* processFileScanResult.  A child killed by a signal is counted as errored, but
\* isErrorSaveFileResult does not know its code: the indexing goes on.
HandleResult ==
    /\ Handling("result")
    /\ counts' = Counted(Head(events).code)
    /\ reported' = reported \cup {Head(events).path}
    /\ IF Head(events).code = "error" /\ ~KeepGoing
       THEN RequestCancellation /\ EmitFinished
       ELSE DoNotCancel /\ DoNotFinish
    /\ UNCHANGED <<targets, results, finishedWorkers, processedPaths, scanning, paths,
                   dirWorkers, runningWorkers, jobs>>

\* Slip: processFinishedWorker does not ask whether the scan still runs.
FinishDuringScan ==
    /\ Handling("fileFinished")
    /\ jobs' = EndJob(Head(events).job, "done")
    /\ runningWorkers' = runningWorkers - 1
    /\ IF runningWorkers - 1 = 0 THEN EmitFinished ELSE DoNotFinish
    /\ UNCHANGED <<scanVars, cancelToken, counts, cancelled, reported>>

\* processFinishedWorker.
HandleFileFinished ==
    /\ Handling("fileFinished")
    /\ jobs' = EndJob(Head(events).job, "done")
    /\ runningWorkers' = runningWorkers - 1
    /\ IF runningWorkers - 1 = 0 /\ ~scanning THEN EmitFinished ELSE DoNotFinish
    /\ UNCHANGED <<scanVars, cancelToken, counts, cancelled, reported>>

\* MainWindow::startIndexing while the indexer runs: "Stop indexing".
StopIndexing ==
    /\ Gui
    /\ MayCancel
    /\ mainPc = "loop"
    /\ enabled
    /\ IsRunning
    /\ RequestCancellation
    /\ enabled' = FALSE
    /\ UNCHANGED <<targets, results, finishedWorkers, processedPaths, scanning, paths,
                   dirWorkers, events, fileTargets, runningWorkers, counts, jobs,
                   mainPc, todo, dirs, entries, phase, runs, reported>>

\* QCoreApplication::exit: the event loop returns, though not necessarily before
\* the events already posted are delivered.
LeaveEventLoop ==
    /\ ~Gui
    /\ mainPc = "loop"
    /\ runs > 0
    /\ phase = "idle"
    /\ mainPc' = "exited"
    /\ UNCHANGED <<scanVars, events, jobVars, todo, dirs, entries, clickVars>>
----------------------------------------------------------------------------
Init ==
    /\ DirScannerInit
    /\ events = <<>>
    /\ fileTargets = EmptyQueue
    /\ cancelToken \in InitialTokens
    /\ runningWorkers = 0
    /\ counts = [added |-> 0, skipped |-> 0, errored |-> 0]
    /\ jobs = <<>>
    /\ mainPc = "loop"
    /\ todo = <<>>
    /\ dirs = <<>>
    /\ entries = <<>>
    /\ enabled = TRUE
    /\ phase = "idle"
    /\ runs = 0
    /\ cancelled = FALSE
    /\ reported = {}

DirWorkerThread(w) == DirWorkerStep(w) /\ UNCHANGED <<jobVars, mainVars>>

MainStep ==
    \/ NextArgument
    \/ StartScan
    \/ OpenDirectory
    \/ NextEntry
    \/ AnnounceFirstLevel
    \/ SpawnOrComplete
    \/ LaunchFileTargets
    \/ HandleProgress
    \/ HandleDirFinished
    \/ HandleResult
    \/ HandleFileFinished
    \/ LeaveEventLoop

Next ==
    \/ BeginIndexing
    \/ StopIndexing
    \/ MainStep
    \/ \E w \in DOMAIN dirWorkers : DirWorkerThread(w)
    \/ \E j \in DOMAIN jobs : JobStep(j)

Spec == Init /\ [][Next]_vars

\* The operating system runs the pool threads and the event loop handles what is
\* posted: each of the three goes on while it can.  Clicks are never promised.
Fairness ==
    /\ WF_vars(MainStep)
    /\ WF_vars(\E w \in DOMAIN dirWorkers : DirWorkerThread(w))
    /\ WF_vars(\E j \in DOMAIN jobs : JobStep(j))

FairSpec == Spec /\ Fairness
----------------------------------------------------------------------------
(***************************************************************************)
(* Properties.                                                             *)
(***************************************************************************)
Counters == [added : Nat, skipped : Nat, errored : Nat]
ArgDirs == Paths \cap DOMAIN Children

\* No loop takes the next element of nothing, and scan() opens directories only.
LoopsHaveWork ==
    /\ mainPc = "list" => todo \in Seq(ArgDirs)
    /\ \A w \in DOMAIN dirWorkers : dirWorkers[w].pc = "walk" => dirWorkers[w].left # <<>>
    /\ \A j \in DOMAIN jobs : jobs[j].pc = "process" => jobs[j].batch # <<>>

\* Every variable has the type of the member or local variable it stands for.
TypeOK ==
    /\ targets \in QueueOf(SubDirs)
    /\ results \in QueueOf(Paths)
    /\ fileTargets \in QueueOf(Paths)
    /\ stopToken \in BOOLEAN
    /\ finishedWorkers \in Nat
    /\ processedPaths \in Nat
    /\ scanning \in BOOLEAN
    /\ paths \in Seq(ArgDirs)
    /\ dirWorkers \in Seq(DirWorker)
    /\ events \in Seq(DirEvents \cup JobEvents)
    /\ cancelToken \in BOOLEAN
    /\ runningWorkers \in Int
    /\ counts \in Counters
    /\ jobs \in Seq(Job)
    /\ mainPc \in {"loop", "arguments", "list", "spawn", "launch", "exited"}
    /\ todo \in Seq(Paths)
    /\ dirs \in Seq(ArgDirs)
    /\ entries \in Seq(Paths)
    /\ enabled \in BOOLEAN
    /\ phase \in {"idle", "indexing"}
    /\ runs \in Nat
    /\ cancelled \in BOOLEAN
    /\ reported \subseteq Paths
    /\ LoopsHaveWork

\* The counter the main thread keeps is the number of jobs whose finished signal it
\* has not handled, although the jobs end on other threads (indexer.cpp:102,163).
RunningWorkersExact == runningWorkers = Cardinality(LiveJobs)

\* Why the counter is exact: a job's results, then its finished signal, are posted
\* and handled in this order, and the signal once.
JobEventsInv ==
    /\ \A i \in DOMAIN events :
         events[i].type \in {"result", "fileFinished"} =>
           /\ events[i].job \in DOMAIN jobs
           /\ jobs[events[i].job].pc # "done"
           /\ events[i].type = "fileFinished" => jobs[events[i].job].pc = "posted"
    /\ \A i, k \in DOMAIN events :
         /\ i < k
         /\ events[i].type = "fileFinished"
         /\ events[k].type \in {"result", "fileFinished"}
         => events[i].job # events[k].job

\* Nothing has happened before indexing is first started.
NothingBeforeRun ==
    runs = 0 => jobs = <<>> /\ events = <<>> /\ dirWorkers = <<>> /\ mainPc = "loop"

JobsInv == RunningWorkersExact /\ JobEventsInv /\ NothingBeforeRun

\* When finished is emitted after a run that keeps going, no job is left and no
\* result is on its way: the counters getResult() hands out are final.
FinishIsQuiet ==
    [][phase = "indexing" /\ phase' = "idle" /\ KeepGoing =>
         /\ \A j \in DOMAIN jobs' : jobs'[j].pc = "done"
         /\ \A i \in DOMAIN events' : events'[i].type \notin {"result", "fileFinished"}]_vars
=============================================================================
