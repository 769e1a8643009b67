------------------------- MODULE IndexerProperties -------------------------
(***************************************************************************)
(* What indexing must do that takes a sum over threads, a temporal formula *)
(* or the abstract run of IndexRun to say.                                 *)
(***************************************************************************)
EXTENDS Indexer, Sums

\* The files a complete run is to report.
Files == LET kept == Elements(Args) \ Ignored
             first == (UNION {Elements(Children[d]) : d \in kept \cap DOMAIN Children})
                        \ (Ignored \cup Links)
         IN (kept \ DOMAIN Children) \cup (first \ SubDirs)
            \cup ((UNION {Elements(Below[d]) : d \in first \cap SubDirs}) \ Ignored)

\* How often a complete run comes across path p: in the directory a worker walks, at an
\* entry of an argument, below an argument, at an argument.
Once(p) == [x \in Paths |-> IF x = p THEN 1 ELSE 0]
Walked(p) == [x \in Paths |-> IF x = p /\ x \notin Ignored THEN 1 ELSE 0]
Under(p) == [d \in SubDirs |-> IF d \in Ignored THEN 0 ELSE Weigh(Walked(p), Below[d])]
AtEntry(p) ==
    [e \in Paths |-> IF e \in Ignored \cup Links THEN 0
                     ELSE IF e \in SubDirs THEN Under(p)[e] ELSE Once(p)[e]]
Inside(p) == [d \in ArgDirs |-> Weigh(AtEntry(p), Children[d])]
AtArgument(p) ==
    [a \in Paths |-> IF a \in Ignored THEN 0
                     ELSE IF a \in DOMAIN Children THEN Inside(p)[a] ELSE Once(p)[a]]
Occurrences(p) == Weigh(AtArgument(p), Args)

\* No argument is given twice or lies below another: what the arguments name is a forest.
NothingTwice == \A p \in Paths : Occurrences(p) <= 1

\* workerCancellationToken, which the constructor leaves uninitialised, holds false, and
\* the scanner's pool has a thread (indexer.h:70, paralleldirscanner.cpp:12).
SoundStart == TRUE \notin InitialTokens /\ ScanThreads > 0

Total == counts.added + counts.skipped + counts.errored

\* Job by job, the size of the batch of those that are at pcs and read the queue; and
\* worker by worker, how much those at pcs have collected.
Sizes(pcs, queue) ==
    [j \in DOMAIN jobs |->
        IF jobs[j].pc \in pcs /\ jobs[j].queue = queue THEN jobs[j].size ELSE 0]
Collected(pcs) ==
    [w \in DOMAIN dirWorkers |->
        IF dirWorkers[w].pc \in pcs THEN Len(dirWorkers[w].found) ELSE 0]
Announced ==
    [i \in DOMAIN events |-> IF events[i].type = "progress" THEN events[i].count ELSE 0]

\* Elements of the queue that jobs were promised and have not taken yet, those that
\* signals on their way stand for, and those that will be announced next.
Claimed(queue) == Sum(Sizes({"queued", "take"}, queue))
AnnouncedByEvents == Sum(Announced)
AboutToBeAnnounced ==
    Sum(Collected({"progress", "lastProgress"})) + IF mainPc = "list" THEN processedPaths ELSE 0

\* dequeue(int) takes its batch without looking: every batch a job or a signal
\* stands for must be in the queue, and unless the scan was stopped nothing else
\* is in it (concurrentqueue.h:28-31, indexer.cpp:63,108).
BatchesAreBacked ==
    /\ runs <= 1 =>
         LET announced == Claimed("results") + AnnouncedByEvents + AboutToBeAnnounced IN
           IF stopToken THEN announced <= Len(results.items)
                        ELSE announced = Len(results.items)
    /\ mainPc = "loop" => Claimed("files") = Len(fileTargets.items)

ReservedResults == Sum(Collected({"append", "lastAppend"}))
Freed(queue) == Sum(Sizes({"take"}, queue))

\* The permits of the semaphore and the elements of the list, two objects updated
\* apart, always add up; clear() adds QUEUE_SIZE permits for good, so a run over
\* directories works with twice the capacity (concurrentqueue.h:24-26,38-40,52).
PermitsConserved ==
    /\ runs <= 1 =>
         results.avail + Len(results.items) + ReservedResults - Freed("results")
           = IF paths = <<>> THEN QueueSize ELSE 2 * QueueSize
    /\ fileTargets.avail + Len(fileTargets.items) - Freed("files") = QueueSize

\* Once a run that nobody cancelled says it is finished, every file below its
\* arguments was counted exactly once, and no directory worker is left.
FinishedMeansAllIndexed ==
    phase = "idle" /\ runs > 0 /\ ~cancelled =>
        /\ reported = Files
        /\ Total = Cardinality(Files)
        /\ \A w \in DOMAIN dirWorkers : dirWorkers[w].pc = "done"

\* No file is counted twice in a run, cancelled or not.
CountedOnce == Total = Cardinality(reported)

\* Who can move: a worker or job that is not over, unless it waits for a thread of its
\* pool, or for places in the queue of results; and the main thread, unless nothing is
\* posted or the queue that it is to fill is full.
Busy(threads) ==
    Cardinality({i \in DOMAIN threads : threads[i].pc \notin {"queued", "posted", "done"}})
NextToStart(threads, i, poolSize) ==
    Busy(threads) < poolSize /\ \A k \in 1..(i - 1) : threads[k].pc # "queued"
DirWorkerCanMove(w) ==
    /\ dirWorkers[w].pc \notin {"posted", "done"}
    /\ AtDir(w, "queued") => NextToStart(dirWorkers, w, ScanThreads)
    /\ dirWorkers[w].pc \in {"acquire", "lastAcquire"} =>
          CanAcquire(results, Len(dirWorkers[w].found))
JobCanMove(j) ==
    /\ jobs[j].pc \notin {"posted", "done", "underflow"}
    /\ AtJob(j, "queued") => NextToStart(jobs, j, PoolThreads)
Fills(queue) ==
    CASE queue = "files" -> mainPc = "arguments" /\ todo # <<>>
                              /\ Head(todo) \notin Ignored \cup DOMAIN Children
      [] queue = "results" -> mainPc = "list" /\ entries # <<>>
                              /\ Head(entries) \notin Ignored \cup Links \cup SubDirs
      [] queue = "targets" -> mainPc = "list" /\ entries # <<>>
                              /\ Head(entries) \in SubDirs \ (Ignored \cup Links)
MainCanMove ==
    /\ mainPc = "loop" => events # <<>>
    /\ Fills("files") => CanAcquire(fileTargets, 1)
    /\ Fills("results") => CanAcquire(results, 1)
    /\ Fills("targets") => CanAcquire(targets, 1)

\* How many elements beginIndexing and scan() put into a queue: arguments that are files,
\* and files and subdirectories directly in the arguments.
Listed(queue) ==
    [e \in Paths |-> IF e \notin Ignored \cup Links
                        /\ queue = (IF e \in SubDirs THEN "targets" ELSE "results")
                     THEN 1 ELSE 0]
ListedIn(queue) == [d \in ArgDirs |-> Weigh(Listed(queue), Children[d])]
ListedAt(queue) ==
    [a \in Paths |-> IF a \in Ignored THEN 0
                     ELSE IF a \in DOMAIN Children THEN ListedIn(queue)[a]
                     ELSE IF queue = "files" THEN 1 ELSE 0]
FilledAtFirst(queue) == Weigh(ListedAt(queue), Args)

\* The main thread puts no more into a queue, before anybody takes from it, than there is
\* room for, and neither does a worker at once. clear() has doubled the queues of a scan
\* (indexer.cpp:50, paralleldirscanner.cpp:90-110, concurrentqueue.h:24,52).
QueuesFit ==
    /\ FilledAtFirst("files") <= QueueSize
    /\ FilledAtFirst("results") <= 2 * QueueSize
    /\ FilledAtFirst("targets") <= 2 * QueueSize
    /\ Threshold <= 2 * QueueSize

\* Where the queues fit, some thread can move until the first run is finished, if nobody
\* stops it: no worker waits for room that only a job not yet launched would make, and no
\* count is short of the one that finishes the run (dirscanworker.cpp:54,
\* paralleldirscanner.cpp:45, indexer.cpp:87-94,161-169).
NeverStuck ==
    QueuesFit /\ runs = 1 /\ phase = "indexing" /\ ~stopToken =>
        \/ MainCanMove
        \/ \E w \in DOMAIN dirWorkers : DirWorkerCanMove(w)
        \/ \E j \in DOMAIN jobs : JobCanMove(j)

\* How many steps are ahead at most, for each thing there is to do: each weighs more than
\* what a step makes of it. A path in a queue or a batch weighs 4: processed, checked, and
\* its result, of weight 2, handled, which may enable the button again.
EventWork == [e \in DirEvents \cup JobEvents |-> IF e.type = "progress" THEN 6 ELSE 2]
JobPcWork == [queued |-> 5, take |-> 4, check |-> 3, process |-> 2,
              posted |-> 0, done |-> 0, underflow |-> 0]
JobWork == [job \in Job |-> JobPcWork[job.pc] + 4 * Len(job.batch)]
DirPcWork == [queued |-> 14, pick |-> 13, walk |-> 13, acquire |-> 22, append |-> 21,
              progress |-> 20, lastAcquire |-> 12, lastAppend |-> 11, lastProgress |-> 10,
              finish |-> 3, posted |-> 0, done |-> 0]
FoundWork(pc, found) == IF pc \in {"progress", "lastProgress"} THEN 0 ELSE 4 * Len(found)
WorkerWork ==
    [worker \in DirWorker |-> DirPcWork[worker.pc] + 14 * Len(worker.left)
                                + FoundWork(worker.pc, worker.found)]
TargetWork == [d \in SubDirs |-> 1 + 14 * Len(Below[d])]
EntryWork ==
    [e \in Paths |-> IF e \in Ignored \cup Links THEN 1
                     ELSE IF e \in SubDirs THEN 1 + TargetWork[e] ELSE 5]
ListWork == [d \in ArgDirs |-> 1 + Weigh(EntryWork, Children[d])]
ArgumentWork ==
    [a \in Paths |-> IF a \in Ignored THEN 1
                     ELSE IF a \in DOMAIN Children THEN 1 + ListWork[a] ELSE 5]
MainPcWork ==
    [exited |-> 0, loop |-> 1, launch |-> 7, spawn |-> 8 + 14 * ScanThreads,
     list |-> 14 + 14 * ScanThreads, arguments |-> 15 + 14 * ScanThreads]
VisitWork ==
    CASE mainPc = "arguments" -> Weigh(ArgumentWork, todo) + Weigh(ListWork, dirs)
      [] mainPc = "list" -> Weigh(ListWork, todo) + Weigh(EntryWork, entries)
      [] OTHER -> 0
MainWork == MainPcWork[mainPc] + (IF enabled THEN 1 ELSE 0) + VisitWork
QueueWork ==
    4 * Len(fileTargets.items) + 4 * Len(results.items) + Weigh(TargetWork, targets.items)
Work ==
    MainWork + QueueWork
      + Weigh(WorkerWork, dirWorkers) + Weigh(JobWork, jobs) + Weigh(EventWork, events)

\* Between two starts of indexing only so many steps can be taken, clicks on Stop among
\* them: no loop, retry or exchange of signals goes on for ever (filescanworker.cpp:17-44,
\* dirscanworker.cpp:28-65, indexer.cpp:106-169).
WorkRunsOut == [][BeginIndexing \/ (Work \in Nat /\ Work' \in Nat /\ Work' < Work)]_vars

\* Whoever starts or stops indexing gets its finished signal.
EventuallyFinished == phase = "indexing" ~> phase = "idle"

\* looqs add returns from main only after its last job is over, unless an error made
\* it exit asap: main's SqliteDbService is what the jobs work with (cli/main.cpp:116).
ExitLeavesNoJob == mainPc = "exited" /\ ~cancelled => LiveJobs = {}

\* looqs add comes to an end, whatever its files answer.
EventuallyExits == runs > 0 ~> mainPc = "exited"

\* The indexer implements the abstract run.
AbstractRun == INSTANCE IndexRun WITH Expected <- Files, StopsOnError <- ~KeepGoing
ImplementsIndexRun == AbstractRun!Spec
=============================================================================
