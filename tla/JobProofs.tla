------------------------------ MODULE JobProofs ------------------------------
(***************************************************************************)
(* Jobs, signals and queues, proved for any tree, any answers of the file  *)
(* saver and any size of queues and pools.  In every run: the count of     *)
(* running workers is exact, finished is a quiet point, permits and        *)
(* elements add up, and looqs add leaves no job behind.  In the first run: *)
(* the batches are there.                                                  *)
(*                                                                         *)
(* Each part below adds an invariant to those before it:                   *)
(*   JobsInv    a job posts its results, then its end, and the event loop  *)
(*              handles them in this order                                 *)
(*   EndsInv    a directory worker posts its end once, as its last event   *)
(*   QueuesInv  the queues hold what signals and jobs promise              *)
(*   FinishInv  when a run is over nothing of it is left                   *)
(***************************************************************************)
EXTENDS IndexerProofs, IndexerProperties, OrderLemmas

----------------------------------------------------------------------------
(* Live jobs. *)

\* The set the counter is compared with is finite; it is empty when its size is 0.
LEMMA LiveJobsFinite ==
    ASSUME TypeOK
    PROVE  /\ IsFiniteSet(LiveJobs)
           /\ Cardinality(LiveJobs) \in Nat
           /\ Cardinality(LiveJobs) = 0 <=> LiveJobs = {}
<1>1. DOMAIN jobs = 1..Len(jobs) /\ Len(jobs) \in Nat
  <2>1. jobs \in Seq(Job)
    BY DEF TypeOK
  <2> QED BY <2>1, LenProperties
<1>2. IsFiniteSet(1..Len(jobs))
  BY <1>1, FS_Interval
<1>3. LiveJobs \subseteq 1..Len(jobs)
  BY <1>1 DEF LiveJobs
<1>4. IsFiniteSet(LiveJobs)
  BY <1>2, <1>3, FS_Subset
<1> QED BY <1>4, FS_CardinalityType, FS_EmptySet

\* The events of a sequence whose first element is removed.
LEMMA TailEvents ==
    ASSUME TypeOK, events # <<>>, events' = Tail(events)
    PROVE  /\ DOMAIN events = 1..Len(events)
           /\ 1 \in DOMAIN events /\ Head(events) = events[1]
           /\ \A i \in DOMAIN events' : /\ i + 1 \in DOMAIN events
                                        /\ events'[i] = events[i + 1]
                                        /\ i \in Nat \ {0}
<1>1. events \in Seq(DirEvents \cup JobEvents)
  BY DEF TypeOK
<1>2. /\ Tail(events) \in Seq(DirEvents \cup JobEvents)
      /\ Len(Tail(events)) = Len(events) - 1
      /\ \A i \in 1..Len(Tail(events)) : Tail(events)[i] = events[i + 1]
  BY <1>1, HeadTailProperties
<1>3. DOMAIN events = 1..Len(events) /\ Len(events) \in Nat
  BY <1>1, LenProperties
<1>4. DOMAIN events' = 1..Len(Tail(events))
  BY <1>2, LenProperties
<1>5. Len(events) # 0
  BY <1>1, EmptySeq
<1>6. Head(events) = events[1]
  BY <1>1
<1> QED BY <1>2, <1>3, <1>4, <1>5, <1>6

\* Handling an event keeps JobEventsInv if only the job it finishes may change.
LEMMA HandlingKeepsEvents ==
    ASSUME TypeOK, JobEventsInv, events # <<>>, events' = Tail(events),
           DOMAIN jobs \subseteq DOMAIN jobs',
           \A k \in DOMAIN jobs :
              \/ jobs'[k].pc = jobs[k].pc
              \/ Head(events).type = "fileFinished" /\ k = Head(events).job
    PROVE  JobEventsInv'
<1> USE DEF JobEventsInv
<1>1. ASSUME NEW i \in DOMAIN events', events'[i].type \in {"result", "fileFinished"}
      PROVE  /\ events'[i].job \in DOMAIN jobs'
             /\ jobs'[events'[i].job].pc # "done"
             /\ events'[i].type = "fileFinished" => jobs'[events'[i].job].pc = "posted"
  <2>1. i + 1 \in DOMAIN events /\ events'[i] = events[i + 1] /\ 1 \in DOMAIN events
        /\ 1 < i + 1 /\ Head(events) = events[1]
    BY <1>1, TailEvents
  <2>2. /\ events[i + 1].job \in DOMAIN jobs
        /\ jobs[events[i + 1].job].pc # "done"
        /\ events[i + 1].type = "fileFinished" => jobs[events[i + 1].job].pc = "posted"
    BY <1>1, <2>1
  <2>3. ~(Head(events).type = "fileFinished" /\ events[i + 1].job = Head(events).job)
    BY <1>1, <2>1
  <2>4. jobs'[events[i + 1].job].pc = jobs[events[i + 1].job].pc
    BY <2>2, <2>3
  <2> QED BY <2>1, <2>2, <2>4
<1>2. ASSUME NEW i \in DOMAIN events', NEW k \in DOMAIN events', i < k,
             events'[i].type = "fileFinished",
             events'[k].type \in {"result", "fileFinished"}
      PROVE  events'[i].job # events'[k].job
  <2>1. /\ i + 1 \in DOMAIN events /\ events'[i] = events[i + 1]
        /\ k + 1 \in DOMAIN events /\ events'[k] = events[k + 1]
        /\ i + 1 < k + 1
    BY <1>2, TailEvents
  <2> QED BY <1>2, <2>1
<1> QED BY <1>1, <1>2

\* Posting an event keeps JobEventsInv: one of a directory worker, or one of a job
\* that has not posted its finished signal.
LEMMA PostingKeepsEvents ==
    ASSUME TypeOK, JobEventsInv, NEW e \in DirEvents \cup JobEvents, Post(e),
           DOMAIN jobs' = DOMAIN jobs,
           \/ e \in DirEvents /\ jobs' = jobs
           \/ /\ e \in JobEvents
              /\ e.job \in DOMAIN jobs
              /\ jobs[e.job].pc # "posted"
              /\ jobs'[e.job].pc # "done"
              /\ e.type = "fileFinished" => jobs'[e.job].pc = "posted"
              /\ \A k \in DOMAIN jobs : k # e.job => jobs'[k] = jobs[k]
    PROVE  JobEventsInv'
<1> USE DEF JobEventsInv
<1>1. events \in Seq(DirEvents \cup JobEvents) /\ events' = Append(events, e)
  BY DEF TypeOK, Post
<1>2. /\ events' \in Seq(DirEvents \cup JobEvents)
      /\ Len(events') = Len(events) + 1
      /\ \A i \in 1..Len(events) : events'[i] = events[i]
      /\ events'[Len(events) + 1] = e
  BY <1>1, AppendProperties
<1>3. /\ DOMAIN events = 1..Len(events) /\ Len(events) \in Nat
      /\ DOMAIN events' = 1..(Len(events) + 1)
  BY <1>1, <1>2, LenProperties
<1>4. e \in DirEvents => e.type \notin {"result", "fileFinished"}
  BY DEF DirEvents
<1>5. ASSUME NEW i \in DOMAIN events, events[i].type \in {"result", "fileFinished"}
      PROVE  /\ events[i].job \in DOMAIN jobs'
             /\ jobs'[events[i].job].pc # "done"
             /\ events[i].type = "fileFinished" =>
                   /\ jobs'[events[i].job].pc = "posted"
                   /\ e \in JobEvents => events[i].job # e.job
  <2>1. /\ events[i].job \in DOMAIN jobs
        /\ jobs[events[i].job].pc # "done"
        /\ events[i].type = "fileFinished" => jobs[events[i].job].pc = "posted"
    BY <1>5
  <2>2. CASE e \in DirEvents /\ jobs' = jobs
    <3>1. e \notin JobEvents
      BY <1>4, <2>2 DEF JobEvents
    <3> QED BY <2>1, <2>2, <3>1
  <2>3. CASE ~(e \in DirEvents /\ jobs' = jobs)
    <3>1. /\ jobs[e.job].pc # "posted" /\ jobs'[e.job].pc # "done"
          /\ e.type = "fileFinished" => jobs'[e.job].pc = "posted"
          /\ \A k \in DOMAIN jobs : k # e.job => jobs'[k] = jobs[k]
      BY <2>3
    <3> QED BY <2>1, <3>1
  <2> QED BY <2>2, <2>3
<1>6. ASSUME NEW i \in DOMAIN events', events'[i].type \in {"result", "fileFinished"}
      PROVE  /\ events'[i].job \in DOMAIN jobs'
             /\ jobs'[events'[i].job].pc # "done"
             /\ events'[i].type = "fileFinished" => jobs'[events'[i].job].pc = "posted"
  <2>1. CASE i \in DOMAIN events
    BY <1>2, <1>3, <1>5, <1>6, <2>1
  <2>2. CASE i \notin DOMAIN events
    <3>1. events'[i] = e
      BY <1>2, <1>3, <1>6, <2>2
    <3> QED BY <1>4, <1>6, <3>1
  <2> QED BY <2>1, <2>2
<1>7. ASSUME NEW i \in DOMAIN events', NEW k \in DOMAIN events', i < k,
             events'[i].type = "fileFinished",
             events'[k].type \in {"result", "fileFinished"}
      PROVE  events'[i].job # events'[k].job
  <2>1. i \in DOMAIN events /\ events'[i] = events[i]
    BY <1>2, <1>3, <1>7
  <2>2. CASE k \in DOMAIN events
    BY <1>2, <1>3, <1>7, <2>1, <2>2
  <2>3. CASE k \notin DOMAIN events
    <3>1. events'[k] = e
      BY <1>2, <1>3, <1>7, <2>3
    <3> QED BY <1>4, <1>5, <1>7, <2>1, <3>1
  <2> QED BY <2>2, <2>3
<1> QED BY <1>6, <1>7

----------------------------------------------------------------------------
(* The steps. *)

LEMMA InitJobsInv == Init => JobsInv
<1> SUFFICES ASSUME Init PROVE JobsInv
  OBVIOUS
<1>1. jobs = <<>> /\ events = <<>> /\ dirWorkers = <<>> /\ mainPc = "loop" /\ runningWorkers = 0
  BY DEF Init, DirScannerInit
<1>2. DOMAIN jobs = {} /\ DOMAIN events = {}
  BY <1>1
<1>3. LiveJobs = {}
  BY <1>2 DEF LiveJobs
<1> QED BY <1>1, <1>2, <1>3, FS_EmptySet DEF JobsInv, RunningWorkersExact, JobEventsInv, NothingBeforeRun

\* Steps that touch neither the jobs nor the events.
LEMMA JobsUntouched ==
    ASSUME JobsInv, UNCHANGED <<jobs, events, runningWorkers>>
    PROVE  RunningWorkersExact' /\ JobEventsInv'
BY DEF JobsInv, RunningWorkersExact, LiveJobs, JobEventsInv

LEMMA DirWorkerJobsInv ==
    ASSUME TypeOK, JobsInv, NEW w \in DOMAIN dirWorkers, DirWorkerThread(w)
    PROVE  JobsInv'
<1>1. UNCHANGED <<jobs, runningWorkers, runs>>
  BY DEF DirWorkerThread, jobVars, mainVars
<1>2. RunningWorkersExact'
  BY <1>1 DEF JobsInv, RunningWorkersExact, LiveJobs
<1>3. w \in Nat /\ Len(dirWorkers[w].found) \in Nat /\ dirWorkers # <<>>
  <2>1. dirWorkers \in Seq(DirWorker)
    BY DEF TypeOK
  <2>2. dirWorkers[w] \in DirWorker /\ w \in Nat
    BY <2>1, ElementOfSeq, LenProperties
  <2>3. dirWorkers[w].found \in Seq(Paths)
    BY <2>2 DEF DirWorker
  <2>4. dirWorkers # <<>>
    OBVIOUS
  <2> QED BY <2>2, <2>3, <2>4, LenProperties
<1>4. JobEventsInv'
  <2>1. CASE EmitProgress(w)
    <3>1. Progress(Len(dirWorkers[w].found)) \in DirEvents
      BY <1>3 DEF Progress, DirEvents
    <3> QED BY <1>1, <2>1, <3>1, PostingKeepsEvents DEF EmitProgress, JobsInv
  <2>2. CASE EmitDirFinished(w)
    <3>1. DirFinished(w) \in DirEvents
      BY <1>3 DEF DirFinished, DirEvents
    <3> QED BY <1>1, <2>2, <3>1, PostingKeepsEvents DEF EmitDirFinished, JobsInv
  <2>3. CASE ~EmitProgress(w) /\ ~EmitDirFinished(w)
    <3>1. events' = events
      BY <2>3 DEF DirWorkerThread, DirWorkerStep, StartDirWorker, PickDirectory,
                  NoMoreDirectories, WalkEntry, AcquireResults, AppendResults
    <3> QED BY <1>1, <3>1, JobsUntouched DEF JobsInv
  <2> QED BY <2>1, <2>2, <2>3
<1>5. NothingBeforeRun'
  BY <1>1, <1>3 DEF JobsInv, NothingBeforeRun
<1> QED BY <1>2, <1>4, <1>5 DEF JobsInv

LEMMA JobStepJobsInv ==
    ASSUME TypeOK, JobsInv, NEW j \in DOMAIN jobs, JobStep(j)
    PROVE  JobsInv'
<1>1. UNCHANGED <<runningWorkers, runs>>
  BY DEF JobStep, mainVars
<1>2. jobs \in Seq(Job) /\ jobs[j] \in Job /\ jobs[j].batch \in Seq(Paths) /\ j \in Nat
  <2>1. jobs \in Seq(Job)
    BY DEF TypeOK
  <2>2. jobs[j] \in Job /\ j \in Nat
    BY <2>1, ElementOfSeq, LenProperties
  <2> QED BY <2>1, <2>2 DEF Job
<1>3. ASSUME jobs[j].pc \notin {"posted", "done"},
             DOMAIN jobs' = DOMAIN jobs, jobs'[j].pc # "done",
             \A k \in DOMAIN jobs : k # j => jobs'[k] = jobs[k]
      PROVE  RunningWorkersExact'
  <2>1. LiveJobs' = LiveJobs
    BY <1>3 DEF LiveJobs
  <2> QED BY <1>1, <2>1 DEF JobsInv, RunningWorkersExact
<1>4. ASSUME jobs[j].pc \notin {"posted", "done"},
             DOMAIN jobs' = DOMAIN jobs, jobs'[j].pc # "done",
             \A k \in DOMAIN jobs : k # j => jobs'[k] = jobs[k],
             events' = events
      PROVE  JobEventsInv'
  BY <1>4 DEF JobsInv, JobEventsInv
<1>5. RunningWorkersExact' /\ JobEventsInv'
  <2>1. CASE StartJob(j)
    <3>1. /\ jobs[j].pc = "queued" /\ events' = events
          /\ DOMAIN jobs' = DOMAIN jobs /\ jobs'[j].pc = "take"
          /\ \A k \in DOMAIN jobs : k # j => jobs'[k] = jobs[k]
      BY <2>1, MoveJobTypes, EmptySeq DEF StartJob, AtJob, JobPcs
    <3> QED BY <1>3, <1>4, <3>1
  <2>2. CASE TakeBatch(j)
    <3>1. PICK pc \in {"check", "process", "underflow"},
                  batch \in {<<>>, Batch(QueueOfJob(j), jobs[j].size)} :
             jobs' = MoveJob(j, pc, batch)
      BY <2>2 DEF TakeBatch
    <3>2. /\ jobs[j].pc = "take" /\ events' = events
          /\ DOMAIN jobs' = DOMAIN jobs /\ jobs'[j].pc = pc
          /\ \A k \in DOMAIN jobs : k # j => jobs'[k] = jobs[k]
      BY <2>2, <3>1 DEF TakeBatch, AtJob, MoveJob
    <3> QED BY <1>3, <1>4, <3>1, <3>2
  <2>3. CASE ProcessPath(j)
    <3>1. /\ jobs[j].pc = "process"
          /\ DOMAIN jobs' = DOMAIN jobs /\ jobs'[j].pc = "check"
          /\ \A k \in DOMAIN jobs : k # j => jobs'[k] = jobs[k]
      BY <2>3 DEF ProcessPath, AtJob, MoveJob
    <3>2. PICK code \in Codes : Post(Result(j, Head(jobs[j].batch), code))
      BY <2>3 DEF ProcessPath
    <3> DEFINE e == Result(j, Head(jobs[j].batch), code)
    <3>3. e \in JobEvents /\ e.job = j /\ e.type = "result"
      <4>1. Head(jobs[j].batch) \in Paths
        BY <1>2, <3>1, HeadTail DEF TypeOK, LoopsHaveWork
      <4> QED BY <1>2, <4>1, IndexerAssumption DEF Result, JobEvents
    <3> HIDE DEF e
    <3>4. JobEventsInv'
      BY <3>1, <3>2, <3>3, PostingKeepsEvents DEF JobsInv, e
    <3> QED BY <1>3, <3>1, <3>4
  <2>4. CASE CheckToken(j)
    <3>1. CASE cancelToken \/ jobs[j].batch = <<>>
      <4>1. /\ jobs[j].pc = "check"
            /\ DOMAIN jobs' = DOMAIN jobs /\ jobs'[j].pc = "posted"
            /\ \A k \in DOMAIN jobs : k # j => jobs'[k] = jobs[k]
            /\ Post(FileFinished(j))
        BY <2>4, <3>1 DEF CheckToken, AtJob, EndJob
      <4>2. FileFinished(j) \in JobEvents /\ FileFinished(j).job = j
        BY <1>2 DEF FileFinished, JobEvents
      <4>3. JobEventsInv'
        BY <4>1, <4>2, PostingKeepsEvents DEF JobsInv
      <4> QED BY <1>3, <4>1, <4>3
    <3>2. CASE ~(cancelToken \/ jobs[j].batch = <<>>)
      <4>1. /\ jobs[j].pc = "check" /\ events' = events
            /\ DOMAIN jobs' = DOMAIN jobs /\ jobs'[j].pc = "process"
            /\ \A k \in DOMAIN jobs : k # j => jobs'[k] = jobs[k]
        BY <2>4, <3>2 DEF CheckToken, AtJob, MoveJob
      <4> QED BY <1>3, <1>4, <4>1
    <3> QED BY <3>1, <3>2
  <2> QED BY <2>1, <2>2, <2>3, <2>4 DEF JobStep
<1>6. NothingBeforeRun'
  <2>1. jobs # <<>>
    OBVIOUS
  <2> QED BY <1>1, <2>1 DEF JobsInv, NothingBeforeRun
<1> QED BY <1>5, <1>6 DEF JobsInv

\* launchWorker: one more job, one more in the counter.
LEMMA LaunchKeepsCount ==
    ASSUME TypeOK, JobsInv, NEW queue \in {"files", "results"}, NEW size \in Int,
           LaunchWorker(queue, size)
    PROVE  /\ RunningWorkersExact'
           /\ DOMAIN jobs \subseteq DOMAIN jobs'
           /\ \A k \in DOMAIN jobs : jobs'[k] = jobs[k]
           /\ jobs' # <<>>
<1>1. /\ DOMAIN jobs' = DOMAIN jobs \cup {Len(jobs) + 1}
      /\ Len(jobs) + 1 \notin DOMAIN jobs
      /\ jobs'[Len(jobs) + 1].pc = "queued"
      /\ \A k \in DOMAIN jobs : jobs'[k] = jobs[k]
      /\ runningWorkers' = runningWorkers + 1
  BY LaunchTypes
<1>2. LiveJobs' = LiveJobs \cup {Len(jobs) + 1} /\ Len(jobs) + 1 \notin LiveJobs
  BY <1>1 DEF LiveJobs
<1>3. Cardinality(LiveJobs') = Cardinality(LiveJobs) + 1
  BY <1>2, LiveJobsFinite, FS_AddElement
<1>4. DOMAIN jobs' # {}
  BY <1>1
<1> QED BY <1>1, <1>3, <1>4 DEF JobsInv, RunningWorkersExact

\* Indexing is started only when no job is left.
LEMMA NoneLiveAtBegin ==
    ASSUME TypeOK, JobsInv, BeginIndexing
    PROVE  LiveJobs = {}
<1>1. CASE Gui
  <2>1. ~(runningWorkers > 0)
    BY <1>1 DEF BeginIndexing, StartButton, AddCommand, IsRunning
  <2>2. runningWorkers = Cardinality(LiveJobs)
    BY DEF JobsInv, RunningWorkersExact
  <2>3. Cardinality(LiveJobs) = 0
    BY <2>1, <2>2, LiveJobsFinite
  <2> QED BY <2>3, LiveJobsFinite
<1>2. CASE ~Gui
  <2>1. jobs = <<>>
    BY <1>2 DEF BeginIndexing, StartButton, AddCommand, JobsInv, NothingBeforeRun
  <2> QED BY <2>1 DEF LiveJobs
<1> QED BY <1>1, <1>2

\* beginIndexing resets the counter only when there is nothing to count.
LEMMA BeginJobsInv ==
    ASSUME TypeOK, JobsInv, BeginIndexing
    PROVE  JobsInv'
<1>1. UNCHANGED <<jobs, events>> /\ runningWorkers' = 0 /\ runs' = runs + 1
  BY DEF BeginIndexing, scanVars
<1>2. LiveJobs = {}
  BY NoneLiveAtBegin
<1>3. RunningWorkersExact'
  BY <1>1, <1>2, FS_EmptySet DEF RunningWorkersExact, LiveJobs
<1>4. JobEventsInv'
  BY <1>1 DEF JobsInv, JobEventsInv
<1>5. NothingBeforeRun'
  <2>1. runs \in Nat
    BY DEF TypeOK
  <2>2. runs' # 0
    BY <1>1, <2>1
  <2> QED BY <2>2 DEF NothingBeforeRun
<1> QED BY <1>3, <1>4, <1>5 DEF JobsInv

\* The other steps of the main thread that handle no event.
LEMMA MainJobsInv ==
    ASSUME TypeOK, JobsInv,
           \/ StopIndexing \/ NextArgument \/ StartScan \/ OpenDirectory \/ NextEntry
           \/ AnnounceFirstLevel \/ SpawnOrComplete \/ LaunchFileTargets \/ LeaveEventLoop
    PROVE  JobsInv'
<1>1. events' = events /\ runs' = runs
  BY DEF StopIndexing, NextArgument, StartScan, OpenDirectory, NextEntry, AnnounceFirstLevel,
         SpawnOrComplete, LaunchFileTargets, LeaveEventLoop, clickVars
<1>2. NothingBeforeRun'
  <2>1. CASE StopIndexing
    BY <1>1, <2>1 DEF StopIndexing, JobsInv, NothingBeforeRun
  <2>2. CASE LeaveEventLoop
    <3>1. runs # 0
      BY <2>2 DEF LeaveEventLoop, TypeOK
    <3> QED BY <1>1, <3>1 DEF NothingBeforeRun
  <2>3. CASE ~StopIndexing /\ ~LeaveEventLoop
    <3>1. mainPc # "loop"
      BY <2>3 DEF NextArgument, StartScan, OpenDirectory, NextEntry, AnnounceFirstLevel,
                  SpawnOrComplete, LaunchFileTargets
    <3> QED BY <1>1, <3>1 DEF JobsInv, NothingBeforeRun
  <2> QED BY <2>1, <2>2, <2>3
<1>3. RunningWorkersExact' /\ JobEventsInv'
  <2>1. CASE AnnounceFirstLevel \/ LaunchFileTargets
    <3>1. PICK queue \in {"files", "results"}, size \in Int : LaunchWorker(queue, size)
      <4>1. processedPaths \in Int /\ Remaining(fileTargets) \in Int
        <5>1. fileTargets \in QueueOf(Paths) /\ processedPaths \in Nat
          BY DEF TypeOK
        <5>2. Remaining(fileTargets) \in Int
          BY <5>1, QueueSizeAssumption DEF Remaining, QueueOf
        <5> QED BY <5>1, <5>2
      <4> QED BY <2>1, <4>1 DEF AnnounceFirstLevel, LaunchFileTargets
    <3>2. JobEventsInv'
      BY <1>1, <3>1, LaunchKeepsCount DEF JobsInv, JobEventsInv
    <3> QED BY <3>1, <3>2, LaunchKeepsCount
  <2>2. CASE ~(AnnounceFirstLevel \/ LaunchFileTargets)
    <3>1. UNCHANGED <<jobs, runningWorkers>>
      BY <2>2 DEF StopIndexing, NextArgument, StartScan, OpenDirectory, NextEntry,
                  SpawnOrComplete, LeaveEventLoop, jobVars
    <3> QED BY <1>1, <3>1, JobsUntouched
  <2> QED BY <2>1, <2>2
<1> QED BY <1>2, <1>3 DEF JobsInv

\* The handlers: the only step that ends a job is the one that handles its finished signal.
LEMMA HandlerJobsInv ==
    ASSUME TypeOK, JobsInv,
           \/ HandleProgress \/ HandleDirFinished \/ HandleResult \/ HandleFileFinished
    PROVE  JobsInv'
<1>1. events # <<>> /\ events' = Tail(events) /\ runs' = runs
  BY DEF HandleProgress, HandleDirFinished, HandleResult, HandleFileFinished, Handling
<1>2. NothingBeforeRun'
  BY <1>1 DEF JobsInv, NothingBeforeRun
<1>3. CASE HandleDirFinished \/ HandleResult \/ (HandleProgress /\ stopToken)
  <2>1. UNCHANGED <<jobs, runningWorkers>>
    BY <1>3 DEF HandleDirFinished, HandleResult, HandleProgress
  <2>2. JobEventsInv'
    BY <1>1, <2>1, HandlingKeepsEvents DEF JobsInv
  <2>3. RunningWorkersExact'
    BY <2>1 DEF JobsInv, RunningWorkersExact, LiveJobs
  <2> QED BY <1>2, <2>2, <2>3 DEF JobsInv
<1>4. CASE HandleProgress /\ ~stopToken
  <2>1. Head(events).count \in Int
    <3>1. events \in Seq(DirEvents \cup JobEvents)
      BY DEF TypeOK
    <3>2. Head(events) \in DirEvents \cup JobEvents /\ Head(events).type = "progress"
      BY <1>1, <1>4, <3>1, HeadTail DEF HandleProgress, Handling
    <3> QED BY <3>2 DEF DirEvents, JobEvents
  <2>2. LaunchWorker("results", Head(events).count)
    BY <1>4 DEF HandleProgress
  <2>3. /\ RunningWorkersExact'
        /\ DOMAIN jobs \subseteq DOMAIN jobs'
        /\ \A k \in DOMAIN jobs : jobs'[k] = jobs[k]
    BY <2>1, <2>2, LaunchKeepsCount
  <2>4. JobEventsInv'
    BY <1>1, <2>3, HandlingKeepsEvents DEF JobsInv
  <2> QED BY <1>2, <2>3, <2>4 DEF JobsInv
<1>5. CASE HandleFileFinished
  <2> DEFINE j == Head(events).job
  <2>1. /\ jobs' = [jobs EXCEPT ![j] = [pc |-> "done", queue |-> "files", size |-> 0, batch |-> <<>>]]
        /\ runningWorkers' = runningWorkers - 1
        /\ Head(events).type = "fileFinished"
    BY <1>5 DEF HandleFileFinished, EndJob, Handling
  <2>2. j \in DOMAIN jobs /\ jobs[j].pc = "posted"
    BY <1>1, <2>1, TailEvents DEF JobsInv, JobEventsInv
  <2> HIDE DEF j
  <2>3. /\ DOMAIN jobs' = DOMAIN jobs /\ jobs'[j].pc = "done"
        /\ \A k \in DOMAIN jobs : k # j => jobs'[k] = jobs[k]
    BY <2>1, <2>2
  <2>4. LiveJobs' = LiveJobs \ {j} /\ j \in LiveJobs
    BY <2>2, <2>3 DEF LiveJobs
  <2>5. Cardinality(LiveJobs') = Cardinality(LiveJobs) - 1
    BY <2>4, LiveJobsFinite, FS_RemoveElement
  <2>6. RunningWorkersExact'
    BY <2>1, <2>5 DEF JobsInv, RunningWorkersExact
  <2>7. JobEventsInv'
    BY <1>1, <2>1, <2>3, HandlingKeepsEvents DEF JobsInv, j
  <2> QED BY <1>2, <2>6, <2>7 DEF JobsInv
<1> QED BY <1>3, <1>4, <1>5

LEMMA NextJobsInv == TypeOK /\ JobsInv /\ [Next]_vars => JobsInv'
<1> SUFFICES ASSUME TypeOK, JobsInv, [Next]_vars PROVE JobsInv'
  OBVIOUS
<1>1. CASE UNCHANGED vars
  <2>1. UNCHANGED <<jobs, events, runningWorkers, runs, dirWorkers, mainPc>>
    BY <1>1 DEF vars, scanVars, jobVars, mainVars
  <2>2. NothingBeforeRun'
    BY <2>1 DEF JobsInv, NothingBeforeRun
  <2> QED BY <2>1, <2>2, JobsUntouched DEF JobsInv
<1>2. CASE \E w \in DOMAIN dirWorkers : DirWorkerThread(w)
  BY <1>2, DirWorkerJobsInv
<1>3. CASE \E j \in DOMAIN jobs : JobStep(j)
  BY <1>3, JobStepJobsInv
<1>4. CASE BeginIndexing \/ StopIndexing \/ MainStep
  BY <1>4, BeginJobsInv, MainJobsInv, HandlerJobsInv DEF MainStep
<1> QED BY <1>1, <1>2, <1>3, <1>4 DEF Next

\* The inductive invariant, together with the types.
LEMMA JobsInvariant == Spec => [](TypeOK /\ JobsInv)
<1>1. Init => TypeOK /\ JobsInv
  BY InitTypeOK, InitJobsInv
<1>2. TypeOK /\ JobsInv /\ [Next]_vars => (TypeOK /\ JobsInv)'
  BY NextTypeOK, NextJobsInv
<1> QED BY <1>1, <1>2, PTL DEF Spec

----------------------------------------------------------------------------
(* The theorems. *)

\* runningWorkers, which only the main thread touches, is at all times the number of
\* FileScanWorkers whose finished signal it has not handled, over any number of runs
\* and cancellations (indexer.cpp:17,102,163).
THEOREM RunningWorkersCorrect == Spec => []RunningWorkersExact
<1>1. TypeOK /\ JobsInv => RunningWorkersExact
  BY DEF JobsInv
<1> QED BY <1>1, JobsInvariant, PTL

\* The step that emits finished, unless an error made it stop early, leaves no job and
\* no result on its way (indexer.cpp:91,164).
LEMMA FinishIsQuietStep ==
    ASSUME TypeOK, JobsInv, [Next]_vars,
           phase = "indexing", phase' = "idle", KeepGoing
    PROVE  /\ \A j \in DOMAIN jobs' : jobs'[j].pc = "done"
           /\ \A i \in DOMAIN events' : events'[i].type \notin {"result", "fileFinished"}
<1>1. TypeOK' /\ JobsInv'
  BY NextTypeOK, NextJobsInv
<1>2. runningWorkers' = 0
  <2>1. HandleDirFinished \/ HandleFileFinished \/ HandleResult
    <3>1. phase' # phase
      OBVIOUS
    <3>2. ~UNCHANGED vars
      BY <3>1 DEF vars, mainVars
    <3>3. ~\E w \in DOMAIN dirWorkers : DirWorkerThread(w)
      BY <3>1 DEF DirWorkerThread, mainVars
    <3>4. ~\E j \in DOMAIN jobs : JobStep(j)
      BY <3>1 DEF JobStep, mainVars
    <3>5. ~BeginIndexing /\ ~StopIndexing
      BY <3>1 DEF BeginIndexing, StopIndexing
    <3>6. /\ ~NextArgument /\ ~StartScan /\ ~OpenDirectory /\ ~NextEntry /\ ~AnnounceFirstLevel
          /\ ~SpawnOrComplete /\ ~LaunchFileTargets /\ ~LeaveEventLoop /\ ~HandleProgress
      BY <3>1 DEF NextArgument, StartScan, OpenDirectory, NextEntry, AnnounceFirstLevel,
                  SpawnOrComplete, LaunchFileTargets, LeaveEventLoop, HandleProgress, clickVars
    <3> QED BY <3>2, <3>3, <3>4, <3>5, <3>6 DEF Next, MainStep
  <2>2. CASE HandleDirFinished
    BY <2>2 DEF HandleDirFinished, DoNotFinish
  <2>3. CASE HandleFileFinished
    BY <2>3 DEF HandleFileFinished, DoNotFinish
  <2>4. CASE HandleResult
    BY <2>4 DEF HandleResult, DoNotFinish
  <2> QED BY <2>1, <2>2, <2>3, <2>4
<1>3. LiveJobs' = {}
  <2>1. Cardinality(LiveJobs') = 0
    BY <1>1, <1>2 DEF JobsInv, RunningWorkersExact
  <2>2. DOMAIN jobs' = 1..Len(jobs') /\ Len(jobs') \in Nat
    <3>1. jobs' \in Seq(Job)
      BY <1>1 DEF TypeOK
    <3> QED BY <3>1, LenProperties
  <2>3. IsFiniteSet(1..Len(jobs')) /\ LiveJobs' \subseteq 1..Len(jobs')
    BY <2>2, FS_Interval DEF LiveJobs
  <2>4. IsFiniteSet(LiveJobs')
    BY <2>3, FS_Subset
  <2> QED BY <2>1, <2>4, FS_EmptySet
<1>4. \A j \in DOMAIN jobs' : jobs'[j].pc = "done"
  BY <1>3 DEF LiveJobs
<1>5. \A i \in DOMAIN events' : events'[i].type \notin {"result", "fileFinished"}
  BY <1>1, <1>4 DEF JobsInv, JobEventsInv
<1> QED BY <1>4, <1>5

\* FinishIsQuiet, for every tree, number of threads, runs and clicks.
THEOREM FinishIsQuietTheorem == Spec => FinishIsQuiet
<1>1. TypeOK /\ JobsInv /\ [Next]_vars =>
        [phase = "indexing" /\ phase' = "idle" /\ KeepGoing =>
           /\ \A j \in DOMAIN jobs' : jobs'[j].pc = "done"
           /\ \A i \in DOMAIN events' : events'[i].type \notin {"result", "fileFinished"}]_vars
  BY FinishIsQuietStep
<1> QED BY <1>1, JobsInvariant, PTL DEF Spec, FinishIsQuiet
----------------------------------------------------------------------------
(* Promises.  A batch is promised by a signal, then by a job; it is taken  *)
(* without looking, so what is promised must add up to what is there.      *)
(* What one step does to the sums over jobs, workers and events follows    *)
(* from the lemmas about weights.                                          *)
Share(pcs, queue, job) == IF job.pc \in pcs /\ job.queue = queue THEN job.size ELSE 0
Collection(pcs, worker) == IF worker.pc \in pcs THEN Len(worker.found) ELSE 0
CountOf(e) == IF e.type = "progress" THEN e.count ELSE 0

AnyEvent == DirEvents \cup JobEvents
Shares(pcs, queue) == [job \in Job |-> Share(pcs, queue, job)]
Collections(pcs) == [worker \in DirWorker |-> Collection(pcs, worker)]
Counts == [e \in AnyEvent |-> CountOf(e)]

LEMMA WeightTypes ==
    /\ \A pcs, queue : Shares(pcs, queue) \in [Job -> Int]
    /\ \A pcs : Collections(pcs) \in [DirWorker -> Int]
    /\ Counts \in [AnyEvent -> Int]
<1>1. ASSUME NEW pcs, NEW queue PROVE Shares(pcs, queue) \in [Job -> Int]
  <2>1. \A job \in Job : Share(pcs, queue, job) \in Int
    BY DEF Share, Job
  <2> QED
    BY <2>1 DEF Shares
<1>2. ASSUME NEW pcs PROVE Collections(pcs) \in [DirWorker -> Int]
  <2>1. ASSUME NEW worker \in DirWorker PROVE Collection(pcs, worker) \in Int
    <3>1. worker.found \in Seq(Paths)
      BY DEF DirWorker
    <3>2. Len(worker.found) \in Nat
      BY <3>1
    <3> QED
      BY <3>2 DEF Collection
  <2> QED
    BY <2>1 DEF Collections
<1>3. Counts \in [AnyEvent -> Int]
  <2>1. ASSUME NEW e \in AnyEvent PROVE CountOf(e) \in Int
    <3>1. CASE e.type = "progress"
      <4>1. e \in [type : {"progress"}, count : Nat]
        BY <3>1 DEF AnyEvent, DirEvents, JobEvents
      <4>2. e.count \in Nat
        BY <4>1
      <4> QED
        BY <3>1, <4>2 DEF CountOf
    <3>2. CASE e.type # "progress"
      BY <3>2 DEF CountOf
    <3> QED
      BY <3>1, <3>2
  <2> QED
    BY <2>1 DEF Counts
<1> QED
  BY <1>1, <1>2, <1>3

LEMMA SharesWeigh ==
    ASSUME NEW js \in Seq(Job), NEW pcs, NEW queue
    PROVE  /\ Weigh(Shares(pcs, queue), js) =
                Sum([j \in DOMAIN js |->
                       IF js[j].pc \in pcs /\ js[j].queue = queue THEN js[j].size ELSE 0])
           /\ Weigh(Shares(pcs, queue), js) \in Int
<1>1. \A j \in DOMAIN js : js[j] \in Job
  BY ElementOfSeq, LenProperties
<1>2. \A j \in DOMAIN js : Shares(pcs, queue)[js[j]] =
        IF js[j].pc \in pcs /\ js[j].queue = queue THEN js[j].size ELSE 0
  BY <1>1 DEF Shares, Share
<1>3. [j \in DOMAIN js |-> Shares(pcs, queue)[js[j]]] =
        [j \in DOMAIN js |-> IF js[j].pc \in pcs /\ js[j].queue = queue THEN js[j].size ELSE 0]
  BY <1>2
<1>4. Weigh(Shares(pcs, queue), js) \in Int
  BY WeightTypes, WeighType
<1> QED
  BY <1>3, <1>4 DEF Weigh

LEMMA CollectionsWeigh ==
    ASSUME NEW ws \in Seq(DirWorker), NEW pcs
    PROVE  /\ Weigh(Collections(pcs), ws) =
                Sum([w \in DOMAIN ws |-> IF ws[w].pc \in pcs THEN Len(ws[w].found) ELSE 0])
           /\ Weigh(Collections(pcs), ws) \in Int
<1>1. \A w \in DOMAIN ws : ws[w] \in DirWorker
  BY ElementOfSeq, LenProperties
<1>2. \A w \in DOMAIN ws : Collections(pcs)[ws[w]] =
        IF ws[w].pc \in pcs THEN Len(ws[w].found) ELSE 0
  BY <1>1 DEF Collections, Collection
<1>3. [w \in DOMAIN ws |-> Collections(pcs)[ws[w]]] =
        [w \in DOMAIN ws |-> IF ws[w].pc \in pcs THEN Len(ws[w].found) ELSE 0]
  BY <1>2
<1>4. Weigh(Collections(pcs), ws) \in Int
  BY WeightTypes, WeighType
<1> QED
  BY <1>3, <1>4 DEF Weigh

LEMMA CountsWeigh ==
    ASSUME NEW es \in Seq(AnyEvent)
    PROVE  /\ Weigh(Counts, es) =
                Sum([i \in DOMAIN es |-> IF es[i].type = "progress" THEN es[i].count ELSE 0])
           /\ Weigh(Counts, es) \in Int
<1>1. \A i \in DOMAIN es : es[i] \in AnyEvent
  BY ElementOfSeq, LenProperties
<1>2. \A i \in DOMAIN es : Counts[es[i]] = IF es[i].type = "progress" THEN es[i].count ELSE 0
  BY <1>1 DEF Counts, CountOf
<1>3. [i \in DOMAIN es |-> Counts[es[i]]] =
        [i \in DOMAIN es |-> IF es[i].type = "progress" THEN es[i].count ELSE 0]
  BY <1>2
<1>4. Weigh(Counts, es) \in Int
  BY WeightTypes, WeighType
<1> QED
  BY <1>3, <1>4 DEF Weigh

\* The sums are integers; over nothing they are 0.
LEMMA SumTypes ==
    ASSUME TypeOK
    PROVE  /\ \A pcs, queue : Sum(Sizes(pcs, queue)) \in Int
           /\ \A pcs : Sum(Collected(pcs)) \in Int
           /\ AnnouncedByEvents \in Int
           /\ jobs = <<>> => \A pcs, queue : Sum(Sizes(pcs, queue)) = 0
           /\ dirWorkers = <<>> => \A pcs : Sum(Collected(pcs)) = 0
           /\ events = <<>> => AnnouncedByEvents = 0
<1>1. jobs \in Seq(Job) /\ dirWorkers \in Seq(DirWorker) /\ events \in Seq(AnyEvent)
  BY DEF TypeOK, AnyEvent
<1>2. \A pcs, queue : Sum(Sizes(pcs, queue)) = Weigh(Shares(pcs, queue), jobs)
                      /\ Sum(Sizes(pcs, queue)) \in Int
  BY <1>1, SharesWeigh DEF Sizes
<1>3. \A pcs : Sum(Collected(pcs)) = Weigh(Collections(pcs), dirWorkers)
               /\ Sum(Collected(pcs)) \in Int
  BY <1>1, CollectionsWeigh DEF Collected
<1>4. AnnouncedByEvents = Weigh(Counts, events) /\ AnnouncedByEvents \in Int
  BY <1>1, CountsWeigh DEF AnnouncedByEvents, Announced
<1> QED
  BY <1>2, <1>3, <1>4, WeighEmpty

LEMMA JobMoves ==
    ASSUME TypeOK, NEW j \in DOMAIN jobs, NEW job \in Job, jobs' = [jobs EXCEPT ![j] = job]
    PROVE  \A pcs, queue :
              Sum(Sizes(pcs, queue))' =
                 Sum(Sizes(pcs, queue)) - Share(pcs, queue, jobs[j]) + Share(pcs, queue, job)
<1>1. jobs \in Seq(Job) /\ jobs' \in Seq(Job) /\ jobs[j] \in Job
  <2>1. jobs \in Seq(Job)
    BY DEF TypeOK
  <2>2. jobs' \in Seq(Job)
    BY <2>1, SeqUpdate
  <2>3. jobs[j] \in Job
    BY <2>1, ElementOfSeq, LenProperties
  <2> QED
    BY <2>1, <2>2, <2>3
<1>2. ASSUME NEW pcs, NEW queue
      PROVE  Sum(Sizes(pcs, queue))' =
               Sum(Sizes(pcs, queue)) - Share(pcs, queue, jobs[j]) + Share(pcs, queue, job)
  <2>0. Shares(pcs, queue) \in [Job -> Int]
    BY WeightTypes
  <2>1. Weigh(Shares(pcs, queue), [jobs EXCEPT ![j] = job]) = Weigh(Shares(pcs, queue), jobs)
          - Shares(pcs, queue)[jobs[j]] + Shares(pcs, queue)[job]
    BY <1>1, <2>0, WeighExcept
  <2>2. Sum(Sizes(pcs, queue)) = Weigh(Shares(pcs, queue), jobs)
    BY <1>1, SharesWeigh DEF Sizes
  <2>3. Sum(Sizes(pcs, queue))' = Weigh(Shares(pcs, queue), jobs')
    <3>1. PICK js : js = jobs'
      OBVIOUS
    <3>2. js \in Seq(Job)
      BY <1>1, <3>1
    <3>3. Sum(Sizes(pcs, queue))' =
            Sum([k \in DOMAIN js |->
                   IF js[k].pc \in pcs /\ js[k].queue = queue THEN js[k].size ELSE 0])
      BY <3>1 DEF Sizes
    <3>4. Weigh(Shares(pcs, queue), js) =
            Sum([k \in DOMAIN js |->
                   IF js[k].pc \in pcs /\ js[k].queue = queue THEN js[k].size ELSE 0])
      BY <3>2, SharesWeigh
    <3> QED
      BY <3>1, <3>3, <3>4
  <2>4. /\ Shares(pcs, queue)[jobs[j]] = Share(pcs, queue, jobs[j])
        /\ Shares(pcs, queue)[job] = Share(pcs, queue, job)
    BY <1>1 DEF Shares
  <2> QED
    BY <2>1, <2>2, <2>3, <2>4
<1> QED
  BY <1>2

LEMMA JobLaunched ==
    ASSUME TypeOK, NEW queue \in {"files", "results"}, NEW size \in Int,
           LaunchWorker(queue, size)
    PROVE  \A pcs, q :
              Sum(Sizes(pcs, q))' = Sum(Sizes(pcs, q)) + Share(pcs, q, NewJob(queue, size))
<1>1. jobs \in Seq(Job) /\ NewJob(queue, size) \in Job
  <2>1. <<>> \in Seq(Paths)
    OBVIOUS
  <2> QED
    BY <2>1 DEF TypeOK, NewJob, Job, JobPcs
<1>2. jobs' = Append(jobs, NewJob(queue, size)) /\ jobs' \in Seq(Job)
  BY <1>1, AppendProperties DEF LaunchWorker
<1>3. ASSUME NEW pcs, NEW q
      PROVE  Sum(Sizes(pcs, q))' = Sum(Sizes(pcs, q)) + Share(pcs, q, NewJob(queue, size))
  <2>1. Weigh(Shares(pcs, q), jobs') = Weigh(Shares(pcs, q), jobs)
          + Shares(pcs, q)[NewJob(queue, size)]
    BY <1>1, <1>2, WeightTypes, WeighAppend
  <2>2. Sum(Sizes(pcs, q)) = Weigh(Shares(pcs, q), jobs)
    BY <1>1, SharesWeigh DEF Sizes
  <2>3. Sum(Sizes(pcs, q))' = Weigh(Shares(pcs, q), jobs')
    <3>1. PICK js : js = jobs'
      OBVIOUS
    <3>2. js \in Seq(Job)
      BY <1>2, <3>1
    <3>3. Sum(Sizes(pcs, q))' =
            Sum([k \in DOMAIN js |->
                   IF js[k].pc \in pcs /\ js[k].queue = q THEN js[k].size ELSE 0])
      BY <3>1 DEF Sizes
    <3>4. Weigh(Shares(pcs, q), js) =
            Sum([k \in DOMAIN js |->
                   IF js[k].pc \in pcs /\ js[k].queue = q THEN js[k].size ELSE 0])
      BY <3>2, SharesWeigh
    <3> QED
      BY <3>1, <3>3, <3>4
  <2>4. Shares(pcs, q)[NewJob(queue, size)] = Share(pcs, q, NewJob(queue, size))
    BY <1>1 DEF Shares
  <2> QED
    BY <2>1, <2>2, <2>3, <2>4
<1> QED
  BY <1>3

LEMMA WorkerMoves ==
    ASSUME TypeOK, NEW w \in DOMAIN dirWorkers, NEW worker \in DirWorker,
           dirWorkers' = [dirWorkers EXCEPT ![w] = worker]
    PROVE  \A pcs : Sum(Collected(pcs))' =
              Sum(Collected(pcs)) - Collection(pcs, dirWorkers[w]) + Collection(pcs, worker)
<1>1. /\ dirWorkers \in Seq(DirWorker) /\ dirWorkers' \in Seq(DirWorker)
      /\ dirWorkers[w] \in DirWorker
  <2>1. dirWorkers \in Seq(DirWorker)
    BY DEF TypeOK
  <2>2. dirWorkers' \in Seq(DirWorker)
    BY <2>1, SeqUpdate
  <2>3. dirWorkers[w] \in DirWorker
    BY <2>1, ElementOfSeq, LenProperties
  <2> QED
    BY <2>1, <2>2, <2>3
<1>2. ASSUME NEW pcs
      PROVE  Sum(Collected(pcs))' =
               Sum(Collected(pcs)) - Collection(pcs, dirWorkers[w]) + Collection(pcs, worker)
  <2>0. Collections(pcs) \in [DirWorker -> Int]
    BY WeightTypes
  <2>1. Weigh(Collections(pcs), [dirWorkers EXCEPT ![w] = worker]) =
          Weigh(Collections(pcs), dirWorkers)
          - Collections(pcs)[dirWorkers[w]] + Collections(pcs)[worker]
    BY <1>1, <2>0, WeighExcept
  <2>2. Sum(Collected(pcs)) = Weigh(Collections(pcs), dirWorkers)
    BY <1>1, CollectionsWeigh DEF Collected
  <2>3. Sum(Collected(pcs))' = Weigh(Collections(pcs), dirWorkers')
    BY <1>1, CollectionsWeigh DEF Collected
  <2>4. /\ Collections(pcs)[dirWorkers[w]] = Collection(pcs, dirWorkers[w])
        /\ Collections(pcs)[worker] = Collection(pcs, worker)
    BY <1>1 DEF Collections
  <2> QED
    BY <2>1, <2>2, <2>3, <2>4
<1> QED
  BY <1>2

LEMMA EventPosted ==
    ASSUME TypeOK, NEW e \in AnyEvent, Post(e)
    PROVE  AnnouncedByEvents' = AnnouncedByEvents + CountOf(e)
<1>1. events \in Seq(AnyEvent) /\ events' = Append(events, e)
  BY DEF TypeOK, AnyEvent, Post
<1>2. events' \in Seq(AnyEvent)
  BY <1>1, AppendProperties
<1>3. Weigh(Counts, events') = Weigh(Counts, events) + Counts[e]
  BY <1>1, WeightTypes, WeighAppend
<1>4. AnnouncedByEvents = Weigh(Counts, events)
  BY <1>1, CountsWeigh DEF AnnouncedByEvents, Announced
<1>5. AnnouncedByEvents' = Weigh(Counts, events')
  BY <1>2, CountsWeigh DEF AnnouncedByEvents, Announced
<1>6. Counts[e] = CountOf(e)
  BY DEF Counts
<1> QED
  BY <1>3, <1>4, <1>5, <1>6

LEMMA EventTaken ==
    ASSUME TypeOK, events # <<>>, events' = Tail(events)
    PROVE  /\ Head(events) \in AnyEvent
           /\ AnnouncedByEvents = CountOf(Head(events)) + AnnouncedByEvents'
<1>1. events \in Seq(AnyEvent)
  BY DEF TypeOK, AnyEvent
<1>2. /\ Head(events) \in AnyEvent /\ events' \in Seq(AnyEvent)
      /\ Weigh(Counts, events) = Counts[Head(events)] + Weigh(Counts, events')
  BY <1>1, WeightTypes, WeighTail
<1>3. AnnouncedByEvents = Weigh(Counts, events)
  BY <1>1, CountsWeigh DEF AnnouncedByEvents, Announced
<1>4. AnnouncedByEvents' = Weigh(Counts, events')
  BY <1>2, CountsWeigh DEF AnnouncedByEvents, Announced
<1>5. Counts[Head(events)] = CountOf(Head(events))
  BY <1>2 DEF Counts
<1> QED
  BY <1>2, <1>3, <1>4, <1>5

\* What is not changed has the same sums.
LEMMA SumsUntouched ==
    /\ jobs' = jobs => \A pcs, queue : Sum(Sizes(pcs, queue))' = Sum(Sizes(pcs, queue))
    /\ dirWorkers' = dirWorkers => \A pcs : Sum(Collected(pcs))' = Sum(Collected(pcs))
    /\ events' = events => AnnouncedByEvents' = AnnouncedByEvents
BY DEF Sizes, Collected, AnnouncedByEvents, Announced

----------------------------------------------------------------------------
(* The ends of directory workers. *)

\* A directory worker's finished signal is its last, is posted once, and the worker is
\* then at posted.  While a progress signal is on its way, some worker has not posted its
\* finished signal, or that is on its way behind.
IsEnd(e, w) == e.type = "dirFinished" /\ e.worker = w
EndsPosted ==
    \A i \in DOMAIN events : events[i].type = "dirFinished" =>
        events[i].worker \in DOMAIN dirWorkers /\ dirWorkers[events[i].worker].pc = "posted"
EndsOnce ==
    \A i, k \in DOMAIN events :
        i < k /\ events[i].type = "dirFinished" => ~IsEnd(events[k], events[i].worker)
EndsLast ==
    \A i \in DOMAIN events : events[i].type = "progress" =>
        \E w \in DOMAIN dirWorkers :
           \/ dirWorkers[w].pc \notin {"posted", "done"}
           \/ \E k \in DOMAIN events : i < k /\ IsEnd(events[k], w)
EndsInv == EndsPosted /\ EndsOnce /\ EndsLast

\* The events of a sequence with one more.
LEMMA MoreEvents ==
    ASSUME TypeOK, NEW e \in AnyEvent, Post(e)
    PROVE  /\ Len(events) \in Nat
           /\ DOMAIN events = 1..Len(events)
           /\ DOMAIN events' = 1..(Len(events) + 1)
           /\ \A i \in DOMAIN events : i \in DOMAIN events' /\ events'[i] = events[i]
           /\ events'[Len(events) + 1] = e
<1>1. events \in Seq(AnyEvent) /\ events' = Append(events, e)
  BY DEF TypeOK, AnyEvent, Post
<1>2. /\ events' \in Seq(AnyEvent)
      /\ Len(events') = Len(events) + 1
      /\ \A i \in 1..Len(events) : events'[i] = events[i]
      /\ events'[Len(events) + 1] = e
  BY <1>1, AppendProperties
<1>3. /\ DOMAIN events = 1..Len(events) /\ Len(events) \in Nat
      /\ DOMAIN events' = 1..(Len(events) + 1)
  BY <1>1, <1>2, LenProperties
<1> QED
  BY <1>2, <1>3

\* Neither the events nor where workers end are touched.
LEMMA EndsUntouched ==
    ASSUME EndsInv, events' = events,
           DOMAIN dirWorkers \subseteq DOMAIN dirWorkers',
           \A v \in DOMAIN dirWorkers :
              \/ dirWorkers'[v] = dirWorkers[v]
              \/ {dirWorkers[v].pc, dirWorkers'[v].pc} \cap {"posted", "done"} = {}
    PROVE  EndsInv'
<1>1. \A v \in DOMAIN dirWorkers :
         /\ v \in DOMAIN dirWorkers'
         /\ dirWorkers[v].pc = "posted" => dirWorkers'[v].pc = "posted"
         /\ dirWorkers[v].pc \notin {"posted", "done"}
              => dirWorkers'[v].pc \notin {"posted", "done"}
  OBVIOUS
<1>2. EndsPosted'
  BY <1>1 DEF EndsInv, EndsPosted
<1>3. EndsOnce'
  BY DEF EndsInv, EndsOnce, IsEnd
<1>4. EndsLast'
  BY <1>1 DEF EndsInv, EndsLast, IsEnd
<1> QED
  BY <1>2, <1>3, <1>4 DEF EndsInv

\* A worker or a job posts a signal: a worker's finished signal when it is through, a
\* progress signal while it is not.
LEMMA PostingKeepsEnds ==
    ASSUME TypeOK, EndsInv, NEW e \in AnyEvent, Post(e), NEW w,
           DOMAIN dirWorkers' = DOMAIN dirWorkers,
           \A v \in DOMAIN dirWorkers : v # w => dirWorkers'[v] = dirWorkers[v],
           \/ e.type \notin {"progress", "dirFinished"} /\ dirWorkers' = dirWorkers
           \/ /\ w \in DOMAIN dirWorkers
              /\ dirWorkers[w].pc \notin {"posted", "done"}
              /\ \/ e.type = "progress" /\ dirWorkers'[w].pc \notin {"posted", "done"}
                 \/ e.type = "dirFinished" /\ e.worker = w /\ dirWorkers'[w].pc = "posted"
    PROVE  EndsInv'
<1> USE DEF IsEnd
<1>1. /\ Len(events) \in Nat
      /\ DOMAIN events = 1..Len(events)
      /\ DOMAIN events' = 1..(Len(events) + 1)
      /\ \A i \in DOMAIN events : i \in DOMAIN events' /\ events'[i] = events[i]
      /\ events'[Len(events) + 1] = e
  BY MoreEvents
<1>2. \A i \in DOMAIN events' : i \in DOMAIN events \/ (i = Len(events) + 1 /\ events'[i] = e)
  BY <1>1
<1>3. EndsPosted'
  <2>1. ASSUME NEW i \in DOMAIN events', events'[i].type = "dirFinished"
        PROVE  /\ events'[i].worker \in DOMAIN dirWorkers'
               /\ dirWorkers'[events'[i].worker].pc = "posted"
    <3>1. CASE i \in DOMAIN events
      <4>1. /\ events[i].worker \in DOMAIN dirWorkers
            /\ dirWorkers[events[i].worker].pc = "posted"
            /\ events'[i] = events[i]
        BY <1>1, <2>1, <3>1 DEF EndsInv, EndsPosted
      <4>2. dirWorkers'[events[i].worker] = dirWorkers[events[i].worker]
        BY <4>1
      <4> QED
        BY <4>1, <4>2
    <3>2. CASE i \notin DOMAIN events
      <4>1. events'[i] = e
        BY <1>2, <3>2
      <4> QED
        BY <2>1, <4>1
    <3> QED
      BY <3>1, <3>2
  <2> QED
    BY <2>1 DEF EndsPosted
<1>4. EndsOnce'
  <2>1. ASSUME NEW i \in DOMAIN events', NEW k \in DOMAIN events', i < k,
               events'[i].type = "dirFinished"
        PROVE  ~IsEnd(events'[k], events'[i].worker)
    <3>1. i \in DOMAIN events /\ events'[i] = events[i]
      BY <1>1, <2>1
    <3>2. CASE k \in DOMAIN events
      BY <1>1, <2>1, <3>1, <3>2 DEF EndsInv, EndsOnce
    <3>3. CASE k \notin DOMAIN events
      <4>1. events'[k] = e
        BY <1>2, <3>3
      <4>2. dirWorkers[events[i].worker].pc = "posted"
        BY <2>1, <3>1 DEF EndsInv, EndsPosted
      <4> QED
        BY <3>1, <4>1, <4>2
    <3> QED
      BY <3>2, <3>3
  <2> QED
    BY <2>1 DEF EndsOnce
<1>5. EndsLast'
  <2>1. ASSUME NEW i \in DOMAIN events', events'[i].type = "progress"
        PROVE  \E v \in DOMAIN dirWorkers' :
                  \/ dirWorkers'[v].pc \notin {"posted", "done"}
                  \/ \E k \in DOMAIN events' : i < k /\ IsEnd(events'[k], v)
    <3>1. CASE i \in DOMAIN events
      <4>1. PICK v \in DOMAIN dirWorkers :
               \/ dirWorkers[v].pc \notin {"posted", "done"}
               \/ \E k \in DOMAIN events : i < k /\ IsEnd(events[k], v)
        BY <1>1, <2>1, <3>1 DEF EndsInv, EndsLast
      <4>2. CASE \E k \in DOMAIN events : i < k /\ IsEnd(events[k], v)
        BY <1>1, <4>2
      <4>3. CASE dirWorkers[v].pc \notin {"posted", "done"}
        <5>1. CASE dirWorkers'[v].pc \notin {"posted", "done"}
          BY <5>1
        <5>2. CASE dirWorkers'[v].pc \in {"posted", "done"}
          <6>1. v = w /\ e.type = "dirFinished" /\ e.worker = w
            BY <4>3, <5>2
          <6>2. Len(events) + 1 \in DOMAIN events' /\ i < Len(events) + 1
            BY <1>1, <3>1
          <6> QED
            BY <1>1, <6>1, <6>2
        <5> QED
          BY <5>1, <5>2
      <4> QED
        BY <4>1, <4>2, <4>3
    <3>2. CASE i \notin DOMAIN events
      <4>1. events'[i] = e
        BY <1>2, <3>2
      <4> QED
        BY <2>1, <4>1
    <3> QED
      BY <3>1, <3>2
  <2> QED
    BY <2>1 DEF EndsLast
<1> QED
  BY <1>3, <1>4, <1>5 DEF EndsInv

\* An event is handled: a finished signal moves its worker to done.
LEMMA HandlingKeepsEnds ==
    ASSUME TypeOK, EndsInv, events # <<>>, events' = Tail(events),
           DOMAIN dirWorkers' = DOMAIN dirWorkers,
           \A v \in DOMAIN dirWorkers :
              \/ dirWorkers'[v] = dirWorkers[v]
              \/ IsEnd(Head(events), v)
    PROVE  EndsInv'
<1> USE DEF IsEnd
<1>1. /\ DOMAIN events = 1..Len(events)
      /\ 1 \in DOMAIN events /\ Head(events) = events[1]
      /\ \A i \in DOMAIN events' : /\ i + 1 \in DOMAIN events
                                   /\ events'[i] = events[i + 1]
                                   /\ i \in Nat \ {0}
  BY TailEvents
<1>2. \A k \in DOMAIN events : k > 1 => k - 1 \in DOMAIN events' /\ events'[k - 1] = events[k]
  <2>1. events \in Seq(DirEvents \cup JobEvents)
    BY DEF TypeOK
  <2>2. Tail(events) \in Seq(DirEvents \cup JobEvents) /\ Len(Tail(events)) = Len(events) - 1
    BY <2>1, HeadTailProperties
  <2>3. DOMAIN events' = 1..(Len(events) - 1) /\ Len(events) \in Nat
    BY <2>1, <2>2, LenProperties
  <2>4. ASSUME NEW k \in DOMAIN events, k > 1
        PROVE  k - 1 \in DOMAIN events' /\ (k - 1) + 1 = k
    BY <1>1, <2>3, <2>4
  <2> QED
    BY <1>1, <2>4
<1>3. EndsPosted'
  <2>1. ASSUME NEW i \in DOMAIN events', events'[i].type = "dirFinished"
        PROVE  /\ events'[i].worker \in DOMAIN dirWorkers'
               /\ dirWorkers'[events'[i].worker].pc = "posted"
    <3>1. i + 1 \in DOMAIN events /\ events'[i] = events[i + 1] /\ 1 < i + 1
      BY <1>1
    <3>2. /\ events[i + 1].worker \in DOMAIN dirWorkers
          /\ dirWorkers[events[i + 1].worker].pc = "posted"
      BY <2>1, <3>1 DEF EndsInv, EndsPosted
    <3>3. ~IsEnd(Head(events), events[i + 1].worker)
      BY <1>1, <2>1, <3>1 DEF EndsInv, EndsOnce
    <3> QED
      BY <3>1, <3>2, <3>3
  <2> QED
    BY <2>1 DEF EndsPosted
<1>4. EndsOnce'
  <2>1. ASSUME NEW i \in DOMAIN events', NEW k \in DOMAIN events', i < k,
               events'[i].type = "dirFinished"
        PROVE  ~IsEnd(events'[k], events'[i].worker)
    <3>1. /\ i + 1 \in DOMAIN events /\ events'[i] = events[i + 1]
          /\ k + 1 \in DOMAIN events /\ events'[k] = events[k + 1]
          /\ i + 1 < k + 1
      BY <1>1, <2>1
    <3> QED
      BY <2>1, <3>1 DEF EndsInv, EndsOnce
  <2> QED
    BY <2>1 DEF EndsOnce
<1>5. EndsLast'
  <2>1. ASSUME NEW i \in DOMAIN events', events'[i].type = "progress"
        PROVE  \E v \in DOMAIN dirWorkers' :
                  \/ dirWorkers'[v].pc \notin {"posted", "done"}
                  \/ \E k \in DOMAIN events' : i < k /\ IsEnd(events'[k], v)
    <3>1. i + 1 \in DOMAIN events /\ events'[i] = events[i + 1] /\ 1 < i + 1 /\ i \in Nat
      BY <1>1
    <3>2. PICK v \in DOMAIN dirWorkers :
             \/ dirWorkers[v].pc \notin {"posted", "done"}
             \/ \E k \in DOMAIN events : i + 1 < k /\ IsEnd(events[k], v)
      BY <2>1, <3>1 DEF EndsInv, EndsLast
    <3>3. CASE \E k \in DOMAIN events : i + 1 < k /\ IsEnd(events[k], v)
      <4>1. PICK k \in DOMAIN events : i + 1 < k /\ IsEnd(events[k], v)
        BY <3>3
      <4>2. k \in Nat /\ k > 1 /\ i < k - 1
        BY <1>1, <3>1, <4>1
      <4>3. k - 1 \in DOMAIN events' /\ events'[k - 1] = events[k]
        BY <1>2, <4>2
      <4>4. IsEnd(events'[k - 1], v)
        BY <4>1, <4>3
      <4> QED
        BY <4>2, <4>3, <4>4
    <3>4. CASE dirWorkers[v].pc \notin {"posted", "done"}
      <4>1. ~IsEnd(Head(events), v)
        BY <1>1, <3>4 DEF EndsInv, EndsPosted
      <4>2. dirWorkers'[v] = dirWorkers[v]
        BY <4>1
      <4> QED
        BY <3>4, <4>2
    <3> QED
      BY <3>2, <3>3, <3>4
  <2> QED
    BY <2>1 DEF EndsLast
<1> QED
  BY <1>3, <1>4, <1>5 DEF EndsInv

----------------------------------------------------------------------------
(* What one step of a directory worker is to the others. *)
Reserving == {"append", "lastAppend"}
Announcing == {"progress", "lastProgress"}
Ended == {"posted", "done"}
Elsewhere == DirPcs \ (Reserving \cup Announcing \cup Ended)

Moves(w, worker, from, to) ==
    /\ dirWorkers' = [dirWorkers EXCEPT ![w] = worker]
    /\ dirWorkers[w].pc \in from
    /\ worker.pc \in to
Works(w, worker) ==
    Moves(w, worker, Elsewhere, Elsewhere) /\ UNCHANGED <<results, events>>
Reserves(w, worker) ==
    /\ Moves(w, worker, Elsewhere, Reserving)
    /\ worker.found = dirWorkers[w].found
    /\ results' = Acquire(results, Len(worker.found))
    /\ events' = events
Appends(w, worker) ==
    /\ Moves(w, worker, Reserving, Announcing)
    /\ worker.found = dirWorkers[w].found
    /\ results' = Put(results, worker.found)
    /\ events' = events
Announces(w, worker) ==
    /\ Moves(w, worker, Announcing, Elsewhere)
    /\ Post(Progress(Len(dirWorkers[w].found)))
    /\ results' = results
Finishes(w, worker) ==
    /\ Moves(w, worker, Elsewhere, {"posted"})
    /\ Post(DirFinished(w))
    /\ results' = results

\* A member of a record set is the record of its fields.
LEMMA WorkerAt ==
    ASSUME TypeOK, NEW w \in DOMAIN dirWorkers
    PROVE  /\ dirWorkers \in Seq(DirWorker)
           /\ w \in Nat
           /\ dirWorkers[w] \in DirWorker
           /\ dirWorkers[w].pc \in DirPcs
           /\ dirWorkers[w].left \in Seq(Paths)
           /\ dirWorkers[w].found \in Seq(Paths)
           /\ Len(dirWorkers[w].found) \in Nat
           /\ dirWorkers = [dirWorkers EXCEPT ![w] = dirWorkers[w]]
<1>1. dirWorkers \in Seq(DirWorker)
  BY DEF TypeOK
<1>2. dirWorkers[w] \in DirWorker /\ w \in Nat
  BY <1>1, ElementOfSeq, LenProperties
<1>3. /\ dirWorkers[w].pc \in DirPcs
      /\ dirWorkers[w].left \in Seq(Paths)
      /\ dirWorkers[w].found \in Seq(Paths)
  BY <1>2 DEF DirWorker
<1>4. Len(dirWorkers[w].found) \in Nat
  BY <1>3, LenProperties
<1>5. dirWorkers = [dirWorkers EXCEPT ![w] = dirWorkers[w]]
  BY <1>1
<1> QED
  BY <1>1, <1>2, <1>3, <1>4, <1>5

LEMMA WorkerStep ==
    ASSUME TypeOK, NEW w \in DOMAIN dirWorkers, DirWorkerThread(w)
    PROVE  /\ UNCHANGED <<stopToken, finishedWorkers, processedPaths, scanning, paths>>
           /\ UNCHANGED <<jobVars, mainVars>>
           /\ \E worker \in DirWorker :
                 \/ Works(w, worker)
                 \/ Reserves(w, worker)
                 \/ Appends(w, worker)
                 \/ Announces(w, worker)
                 \/ Finishes(w, worker)
<1>1. /\ UNCHANGED <<stopToken, finishedWorkers, processedPaths, scanning, paths>>
      /\ UNCHANGED <<jobVars, mainVars>>
  BY DEF DirWorkerThread, DirWorkerStep, mainScanVars
<1>2. /\ dirWorkers[w] \in DirWorker
      /\ dirWorkers[w].pc \in DirPcs
      /\ dirWorkers[w].left \in Seq(Paths)
      /\ dirWorkers[w].found \in Seq(Paths)
      /\ dirWorkers = [dirWorkers EXCEPT ![w] = dirWorkers[w]]
  BY WorkerAt
<1> DEFINE New(pc, left, found) == [pc |-> pc, left |-> left, found |-> found]
<1>3. \A pc \in DirPcs : \A left, found \in Seq(Paths) :
         /\ New(pc, left, found) \in DirWorker
         /\ New(pc, left, found).pc = pc
         /\ New(pc, left, found).found = found
         /\ MoveDir(w, pc, left, found) = [dirWorkers EXCEPT ![w] = New(pc, left, found)]
  BY DEF DirWorker, MoveDir
<1>4. /\ {"append", "lastAppend"} \subseteq DirPcs \cap Reserving
      /\ {"progress", "lastProgress"} \subseteq DirPcs \cap Announcing
      /\ {"queued", "pick", "walk", "acquire", "lastAcquire", "finish"} \subseteq DirPcs \cap Elsewhere
      /\ "posted" \in DirPcs
  BY DEF DirPcs, Reserving, Announcing, Ended, Elsewhere
<1>5. <<>> \in Seq(Paths)
  OBVIOUS
<1> HIDE DEF New
<1>6. CASE StartDirWorker(w)
  <2>1. Works(w, New("pick", dirWorkers[w].left, dirWorkers[w].found))
    <3>1. dirWorkers' = MoveDir(w, "pick", dirWorkers[w].left, dirWorkers[w].found)
      BY <1>6 DEF StartDirWorker, Goto
    <3>2. UNCHANGED <<results, events>> /\ dirWorkers[w].pc = "queued"
      BY <1>6 DEF StartDirWorker, AtDir
    <3> QED
      BY <1>2, <1>3, <1>4, <3>1, <3>2 DEF Works, Moves
  <2> QED
    BY <1>1, <1>2, <1>3, <1>4, <2>1
<1>7. CASE PickDirectory(w)
  <2>1. CASE Head(targets.items) \in Ignored \/ Below[Head(targets.items)] = <<>>
    <3>1. Works(w, dirWorkers[w])
      BY <1>2, <1>4, <1>7, <2>1 DEF PickDirectory, AtDir, Works, Moves
    <3> QED
      BY <1>1, <1>2, <3>1
  <2>2. CASE ~(Head(targets.items) \in Ignored \/ Below[Head(targets.items)] = <<>>)
    <3>1. Below[Head(targets.items)] \in Seq(Paths)
      <4>1. targets.items \in Seq(SubDirs) /\ targets.items # <<>>
        BY <1>7 DEF PickDirectory, TypeOK, QueueOf
      <4>2. Head(targets.items) \in SubDirs
        BY <4>1, HeadTail
      <4> QED
        BY <4>2, TreeAssumption
    <3>2. Works(w, New("walk", Below[Head(targets.items)], dirWorkers[w].found))
      BY <1>2, <1>3, <1>4, <1>7, <2>2, <3>1 DEF PickDirectory, AtDir, Works, Moves
    <3> QED
      BY <1>1, <1>2, <1>3, <1>4, <3>1, <3>2
  <2> QED
    BY <2>1, <2>2
<1>8. CASE NoMoreDirectories(w)
  <2>1. Works(w, New("lastAcquire", dirWorkers[w].left, dirWorkers[w].found))
    BY <1>2, <1>3, <1>4, <1>8 DEF NoMoreDirectories, Goto, AtDir, Works, Moves
  <2> QED
    BY <1>1, <1>2, <1>3, <1>4, <2>1
<1>9. CASE WalkEntry(w)
  <2>1. \E pc \in {"finish", "acquire", "pick", "walk"} : \E left, found \in Seq(Paths) :
           dirWorkers' = MoveDir(w, pc, left, found)
    <3> DEFINE entry == Head(dirWorkers[w].left)
               rest == Tail(dirWorkers[w].left)
               found == IF entry \in Ignored THEN dirWorkers[w].found
                        ELSE Append(dirWorkers[w].found, entry)
               full == entry \notin Ignored /\ Len(found) = Threshold
    <3>1. entry \in Paths /\ rest \in Seq(Paths)
      BY <1>2, <1>9, HeadTail DEF WalkEntry, AtDir, TypeOK, LoopsHaveWork
    <3>2. found \in Seq(Paths)
      BY <1>2, <3>1, AppendProperties
    <3>3. dirWorkers' = IF full /\ stopToken THEN MoveDir(w, "finish", <<>>, <<>>)
             ELSE MoveDir(w, IF full THEN "acquire" ELSE Resume(rest), rest, found)
      BY <1>9 DEF WalkEntry
    <3>4. Resume(rest) \in {"pick", "walk"}
      BY DEF Resume
    <3> HIDE DEF entry, rest, found, full
    <3> QED
      BY <1>5, <3>1, <3>2, <3>3, <3>4
  <2>2. PICK pc \in {"finish", "acquire", "pick", "walk"} : \E left, found \in Seq(Paths) :
           dirWorkers' = MoveDir(w, pc, left, found)
    BY <2>1
  <2>3. PICK left \in Seq(Paths), found \in Seq(Paths) : dirWorkers' = MoveDir(w, pc, left, found)
    BY <2>2
  <2>4. Works(w, New(pc, left, found)) /\ pc \in DirPcs
    <3>1. UNCHANGED <<results, events>> /\ dirWorkers[w].pc = "walk"
      BY <1>9 DEF WalkEntry, AtDir
    <3>2. pc \in DirPcs /\ pc \in Elsewhere
      BY <1>4
    <3>3. /\ dirWorkers' = [dirWorkers EXCEPT ![w] = New(pc, left, found)]
          /\ New(pc, left, found).pc = pc
      BY <1>3, <2>3, <3>2
    <3> QED
      BY <1>4, <3>1, <3>2, <3>3 DEF Works, Moves
  <2> QED
    BY <1>1, <1>2, <1>3, <2>4
<1>10. CASE AcquireResults(w)
  <2> DEFINE pc == IF AtDir(w, "acquire") THEN "append" ELSE "lastAppend"
  <2>1. pc \in DirPcs \cap Reserving
    BY <1>4
  <2>2. Reserves(w, New(pc, dirWorkers[w].left, dirWorkers[w].found))
    <3> HIDE DEF pc
    <3>1. dirWorkers' = MoveDir(w, pc, dirWorkers[w].left, dirWorkers[w].found)
      BY <1>10 DEF AcquireResults, Goto, pc
    <3> QED
      BY <1>2, <1>3, <1>4, <1>10, <2>1, <3>1 DEF AcquireResults, Reserves, Moves
  <2> HIDE DEF pc
  <2> QED
    BY <1>1, <1>2, <1>3, <2>1, <2>2
<1>11. CASE AppendResults(w)
  <2> DEFINE pc == IF AtDir(w, "append") THEN "progress" ELSE "lastProgress"
  <2>1. pc \in DirPcs \cap Announcing
    BY <1>4
  <2>2. Appends(w, New(pc, dirWorkers[w].left, dirWorkers[w].found))
    <3> HIDE DEF pc
    <3>1. dirWorkers' = MoveDir(w, pc, dirWorkers[w].left, dirWorkers[w].found)
      BY <1>11 DEF AppendResults, Goto, pc
    <3> QED
      <4>1. /\ dirWorkers[w].pc \in Reserving /\ events' = events
            /\ results' = Put(results, dirWorkers[w].found)
        BY <1>4, <1>11 DEF AppendResults
      <4>2. LET worker == New(pc, dirWorkers[w].left, dirWorkers[w].found)
            IN  /\ dirWorkers' = [dirWorkers EXCEPT ![w] = worker]
                /\ worker.pc = pc
                /\ worker.found = dirWorkers[w].found
        BY <1>2, <1>3, <2>1, <3>1
      <4> QED
        BY <2>1, <4>1, <4>2 DEF Appends, Moves
  <2> HIDE DEF pc
  <2> QED
    BY <1>1, <1>2, <1>3, <2>1, <2>2
<1>12. CASE EmitProgress(w)
  <2>1. \E pc \in {"pick", "walk", "finish"} : \E left, found \in Seq(Paths) :
           dirWorkers' = MoveDir(w, pc, left, found)
    BY <1>2, <1>5, <1>12 DEF EmitProgress, Resume
  <2>2. PICK pc \in {"pick", "walk", "finish"} : \E left, found \in Seq(Paths) :
           dirWorkers' = MoveDir(w, pc, left, found)
    BY <2>1
  <2>3. PICK left \in Seq(Paths), found \in Seq(Paths) : dirWorkers' = MoveDir(w, pc, left, found)
    BY <2>2
  <2>4. Announces(w, New(pc, left, found)) /\ pc \in DirPcs
    <3>1. /\ dirWorkers[w].pc \in Announcing /\ results' = results
          /\ Post(Progress(Len(dirWorkers[w].found)))
      BY <1>4, <1>12 DEF EmitProgress
    <3>2. pc \in DirPcs /\ pc \in Elsewhere
      BY <1>4
    <3>3. /\ dirWorkers' = [dirWorkers EXCEPT ![w] = New(pc, left, found)]
          /\ New(pc, left, found).pc = pc
      BY <1>3, <2>3, <3>2
    <3> QED
      BY <3>1, <3>2, <3>3 DEF Announces, Moves
  <2> QED
    BY <1>1, <1>3, <2>4
<1>13. CASE EmitDirFinished(w)
  <2>1. Finishes(w, New("posted", dirWorkers[w].left, dirWorkers[w].found))
    BY <1>2, <1>3, <1>4, <1>13 DEF EmitDirFinished, Goto, AtDir, Finishes, Moves
  <2> QED
    BY <1>1, <1>2, <1>3, <1>4, <2>1
<1> QED
  BY <1>6, <1>7, <1>8, <1>9, <1>10, <1>11, <1>12, <1>13 DEF DirWorkerThread, DirWorkerStep

\* What one step of a job is to the others.
Becomes(j, job, from, to) ==
    /\ jobs' = [jobs EXCEPT ![j] = job]
    /\ jobs[j].pc \in from
    /\ job.pc \in to
Starts(j, job) ==
    /\ Becomes(j, job, {"queued"}, {"take"})
    /\ job.queue = jobs[j].queue /\ job.size = jobs[j].size
    /\ SetQueueOfJob(j, Release(QueueOfJob(j), jobs[j].size))
    /\ events' = events
Takes(j, job) ==
    /\ Becomes(j, job, {"take"}, {"check", "process"})
    /\ Holds(QueueOfJob(j), jobs[j].size)
    /\ SetQueueOfJob(j, WithoutBatch(QueueOfJob(j), jobs[j].size))
    /\ events' = events
Underflows(j, job) ==
    /\ Becomes(j, job, {"take"}, {"underflow"})
    /\ ~Holds(QueueOfJob(j), jobs[j].size)
    /\ UNCHANGED <<results, fileTargets, events>>
Proceeds(j, job) ==
    /\ Becomes(j, job, {"process", "check"}, {"process", "check", "posted"})
    /\ UNCHANGED <<results, fileTargets>>
    /\ events' = events \/ \E e \in JobEvents : Post(e)

LEMMA JobAt ==
    ASSUME TypeOK, NEW j \in DOMAIN jobs
    PROVE  /\ jobs \in Seq(Job)
           /\ j \in Nat
           /\ jobs[j] \in Job
           /\ jobs[j].pc \in JobPcs
           /\ jobs[j].queue \in {"files", "results"}
           /\ jobs[j].size \in Int
           /\ jobs[j].batch \in Seq(Paths)
<1>1. jobs \in Seq(Job)
  BY DEF TypeOK
<1>2. jobs[j] \in Job /\ j \in Nat
  BY <1>1, ElementOfSeq, LenProperties
<1> QED
  BY <1>1, <1>2 DEF Job

LEMMA StepOfJob ==
    ASSUME TypeOK, NEW j \in DOMAIN jobs, JobStep(j)
    PROVE  /\ UNCHANGED <<targets, mainScanVars, dirWorkers, runningWorkers, counts, mainVars>>
           /\ \E job \in Job :
                 /\ job.size \in {0, jobs[j].size}
                 /\ \/ Starts(j, job)
                    \/ Takes(j, job)
                    \/ Underflows(j, job)
                    \/ Proceeds(j, job)
<1>1. UNCHANGED <<targets, mainScanVars, dirWorkers, runningWorkers, counts, mainVars>>
  BY DEF JobStep
<1>2. /\ j \in Nat
      /\ jobs[j].pc \in JobPcs
      /\ jobs[j].queue \in {"files", "results"}
      /\ jobs[j].size \in Int
      /\ jobs[j].batch \in Seq(Paths)
  BY JobAt
<1> DEFINE Moved(pc, batch) == [pc |-> pc, queue |-> jobs[j].queue, size |-> jobs[j].size,
                                batch |-> batch]
           Over(pc) == [pc |-> pc, queue |-> "files", size |-> 0, batch |-> <<>>]
<1>3. \A pc \in JobPcs : \A batch \in Seq(Paths) :
         /\ Moved(pc, batch) \in Job
         /\ Moved(pc, batch).pc = pc
         /\ Moved(pc, batch).queue = jobs[j].queue
         /\ Moved(pc, batch).size = jobs[j].size
         /\ MoveJob(j, pc, batch) = [jobs EXCEPT ![j] = Moved(pc, batch)]
  BY <1>2 DEF Job, MoveJob
<1>4. <<>> \in Seq(Paths)
  OBVIOUS
<1>5. \A pc \in JobPcs :
         /\ Over(pc) \in Job
         /\ Over(pc).pc = pc
         /\ Over(pc).size = 0
         /\ EndJob(j, pc) = [jobs EXCEPT ![j] = Over(pc)]
  BY <1>4 DEF Job, EndJob
<1>6. {"queued", "take", "process", "check", "posted", "underflow"} \subseteq JobPcs
  BY DEF JobPcs
<1> HIDE DEF Moved, Over
<1>7. CASE StartJob(j)
  <2>1. /\ jobs[j].pc = "queued" /\ jobs' = MoveJob(j, "take", <<>>) /\ events' = events
        /\ SetQueueOfJob(j, Release(QueueOfJob(j), jobs[j].size))
    BY <1>7 DEF StartJob, AtJob
  <2>2. PICK batch \in Seq(Paths) : jobs' = MoveJob(j, "take", batch)
    BY <1>4, <2>1
  <2>3. /\ jobs' = [jobs EXCEPT ![j] = Moved("take", batch)]
        /\ Moved("take", batch) \in Job
        /\ Moved("take", batch).pc = "take"
        /\ Moved("take", batch).queue = jobs[j].queue
        /\ Moved("take", batch).size = jobs[j].size
    BY <1>3, <1>6, <2>2
  <2>4. Starts(j, Moved("take", batch))
    BY <2>1, <2>3 DEF Starts, Becomes
  <2> QED
    BY <1>1, <2>3, <2>4
<1>8. CASE TakeBatch(j)
  <2> DEFINE n == jobs[j].size
             q == QueueOfJob(j)
  <2>1. jobs[j].pc = "take" /\ events' = events
    BY <1>8 DEF TakeBatch, AtJob
  <2>2. CASE Holds(q, n)
    <3>1. Batch(q, n) \in Seq(Paths)
      <4>1. q.items \in Seq(Paths)
        BY DEF QueueOfJob, TypeOK, QueueOf
      <4>2. n \in 0..Len(q.items)
        BY <2>2 DEF Holds
      <4> HIDE DEF q, n
      <4>3. SubSeq(q.items, 1, n) \in Seq(Paths)
        BY <4>1, <4>2, SubSeqProperties
      <4> QED
        BY <4>3 DEF Batch
    <3>2. PICK pc \in {"check", "process"} :
             jobs' = MoveJob(j, pc, Batch(q, n)) /\ SetQueueOfJob(j, WithoutBatch(q, n))
      BY <1>8, <2>2 DEF TakeBatch
    <3>3. /\ jobs' = [jobs EXCEPT ![j] = Moved(pc, Batch(q, n))]
          /\ Moved(pc, Batch(q, n)) \in Job
          /\ Moved(pc, Batch(q, n)).pc = pc
          /\ Moved(pc, Batch(q, n)).size = jobs[j].size
      BY <1>3, <1>6, <3>1, <3>2
    <3>4. Takes(j, Moved(pc, Batch(q, n)))
      BY <2>1, <2>2, <3>2, <3>3 DEF Takes, Becomes
    <3> QED
      BY <1>1, <3>3, <3>4
  <2>3. CASE ~Holds(q, n)
    <3>1. jobs' = MoveJob(j, "underflow", <<>>) /\ UNCHANGED <<fileTargets, results>>
      BY <1>8, <2>3 DEF TakeBatch
    <3>2. PICK batch \in Seq(Paths) : jobs' = MoveJob(j, "underflow", batch)
      BY <1>4, <3>1
    <3>3. /\ jobs' = [jobs EXCEPT ![j] = Moved("underflow", batch)]
          /\ Moved("underflow", batch) \in Job
          /\ Moved("underflow", batch).pc = "underflow"
          /\ Moved("underflow", batch).size = jobs[j].size
      BY <1>3, <1>6, <3>2
    <3>4. Underflows(j, Moved("underflow", batch))
      BY <2>1, <2>3, <3>1, <3>3 DEF Underflows, Becomes
    <3> QED
      BY <1>1, <3>3, <3>4
  <2> QED
    BY <2>2, <2>3
<1>9. CASE ProcessPath(j)
  <2>1. /\ jobs[j].pc = "process" /\ UNCHANGED <<fileTargets, results>>
        /\ jobs' = MoveJob(j, "check", Tail(jobs[j].batch))
    BY <1>9 DEF ProcessPath, AtJob
  <2>2. Tail(jobs[j].batch) \in Seq(Paths) /\ Head(jobs[j].batch) \in Paths
    BY <1>2, <2>1, HeadTail DEF TypeOK, LoopsHaveWork
  <2>3. \E e \in JobEvents : Post(e)
    <3>1. PICK code \in Codes : Post(Result(j, Head(jobs[j].batch), code))
      BY <1>9 DEF ProcessPath
    <3>2. Result(j, Head(jobs[j].batch), code) \in JobEvents
      BY <1>2, <2>2, IndexerAssumption DEF Result, JobEvents
    <3> QED
      BY <3>1, <3>2
  <2>4. /\ jobs' = [jobs EXCEPT ![j] = Moved("check", Tail(jobs[j].batch))]
        /\ Moved("check", Tail(jobs[j].batch)) \in Job
        /\ Moved("check", Tail(jobs[j].batch)).pc = "check"
        /\ Moved("check", Tail(jobs[j].batch)).size = jobs[j].size
    BY <1>3, <1>6, <2>1, <2>2
  <2>5. Proceeds(j, Moved("check", Tail(jobs[j].batch)))
    BY <2>1, <2>3, <2>4 DEF Proceeds, Becomes
  <2> QED
    BY <1>1, <2>4, <2>5
<1>10. CASE CheckToken(j)
  <2>1. jobs[j].pc = "check" /\ UNCHANGED <<fileTargets, results>>
    BY <1>10 DEF CheckToken, AtJob
  <2>2. CASE cancelToken \/ jobs[j].batch = <<>>
    <3>1. Post(FileFinished(j)) /\ jobs' = EndJob(j, "posted")
      BY <1>10, <2>2 DEF CheckToken
    <3>2. FileFinished(j) \in JobEvents
      BY <1>2 DEF FileFinished, JobEvents
    <3>3. /\ jobs' = [jobs EXCEPT ![j] = Over("posted")]
          /\ Over("posted") \in Job
          /\ Over("posted").pc = "posted"
          /\ Over("posted").size = 0
      BY <1>5, <1>6, <3>1
    <3>4. Proceeds(j, Over("posted"))
      BY <2>1, <3>1, <3>2, <3>3 DEF Proceeds, Becomes
    <3> QED
      BY <1>1, <3>3, <3>4
  <2>3. CASE ~(cancelToken \/ jobs[j].batch = <<>>)
    <3>1. jobs' = MoveJob(j, "process", jobs[j].batch) /\ events' = events
      BY <1>10, <2>3 DEF CheckToken
    <3>2. /\ jobs' = [jobs EXCEPT ![j] = Moved("process", jobs[j].batch)]
          /\ Moved("process", jobs[j].batch) \in Job
          /\ Moved("process", jobs[j].batch).pc = "process"
          /\ Moved("process", jobs[j].batch).size = jobs[j].size
      BY <1>2, <1>3, <1>6, <3>1
    <3>3. Proceeds(j, Moved("process", jobs[j].batch))
      BY <2>1, <3>1, <3>2 DEF Proceeds, Becomes
    <3> QED
      BY <1>1, <3>2, <3>3
  <2> QED
    BY <2>2, <2>3
<1> QED
  BY <1>7, <1>8, <1>9, <1>10 DEF JobStep

LEMMA JobStepEnds ==
    ASSUME TypeOK, EndsInv, NEW j \in DOMAIN jobs, JobStep(j)
    PROVE  EndsInv'
<1>1. dirWorkers' = dirWorkers
  BY StepOfJob
<1>2. events' = events \/ \E e \in JobEvents : Post(e)
  BY StepOfJob DEF Starts, Takes, Underflows, Proceeds
<1>3. CASE events' = events
  BY <1>1, <1>3, EndsUntouched
<1>4. CASE \E e \in JobEvents : Post(e)
  <2>1. PICK e \in JobEvents : Post(e)
    BY <1>4
  <2>2. e \in AnyEvent /\ e.type \notin {"progress", "dirFinished"}
    BY DEF AnyEvent, JobEvents
  <2> QED
    BY <1>1, <2>1, <2>2, PostingKeepsEnds
<1> QED
  BY <1>2, <1>3, <1>4

LEMMA DirWorkerEnds ==
    ASSUME TypeOK, EndsInv, NEW w \in DOMAIN dirWorkers, DirWorkerThread(w)
    PROVE  EndsInv'
<1>1. PICK worker \in DirWorker :
         \/ Works(w, worker) \/ Reserves(w, worker) \/ Appends(w, worker)
         \/ Announces(w, worker) \/ Finishes(w, worker)
  BY WorkerStep
<1>2. /\ dirWorkers \in Seq(DirWorker) /\ w \in Nat /\ Len(dirWorkers[w].found) \in Nat
  BY WorkerAt
<1>3. /\ dirWorkers' = [dirWorkers EXCEPT ![w] = worker]
      /\ dirWorkers[w].pc \notin Ended
      /\ Finishes(w, worker) => worker.pc = "posted"
      /\ ~Finishes(w, worker) => worker.pc \notin Ended
  BY <1>1 DEF Works, Reserves, Appends, Announces, Finishes, Moves,
              Elsewhere, Reserving, Announcing, Ended
<1>4. /\ DOMAIN dirWorkers' = DOMAIN dirWorkers
      /\ dirWorkers'[w] = worker
      /\ \A v \in DOMAIN dirWorkers : v # w => dirWorkers'[v] = dirWorkers[v]
  BY <1>3
<1>5. CASE Works(w, worker) \/ Reserves(w, worker) \/ Appends(w, worker)
  <2>1. events' = events /\ worker.pc \notin Ended
    BY <1>5 DEF Works, Reserves, Appends, Moves, Elsewhere, Reserving, Announcing, Ended
  <2> QED
    BY <1>3, <1>4, <2>1, EndsUntouched DEF Ended
<1>6. CASE Announces(w, worker)
  <2> DEFINE e == Progress(Len(dirWorkers[w].found))
  <2>1. e \in AnyEvent /\ e.type = "progress" /\ Post(e)
    BY <1>2, <1>6 DEF Progress, DirEvents, AnyEvent, Announces
  <2>2. worker.pc \notin Ended
    BY <1>6 DEF Announces, Moves, Elsewhere
  <2> HIDE DEF e
  <2> QED
    BY <1>3, <1>4, <2>1, <2>2, PostingKeepsEnds DEF Ended
<1>7. CASE Finishes(w, worker)
  <2> DEFINE e == DirFinished(w)
  <2>1. e \in AnyEvent /\ e.type = "dirFinished" /\ e.worker = w /\ Post(e)
    BY <1>2, <1>7 DEF DirFinished, DirEvents, AnyEvent, Finishes
  <2> HIDE DEF e
  <2> QED
    BY <1>3, <1>4, <1>7, <2>1, PostingKeepsEnds DEF Ended
<1> QED
  BY <1>1, <1>5, <1>6, <1>7

\* The handlers.
LEMMA HandlerEnds ==
    ASSUME TypeOK, EndsInv,
           HandleProgress \/ HandleDirFinished \/ HandleResult \/ HandleFileFinished
    PROVE  EndsInv'
<1>1. events # <<>> /\ events' = Tail(events)
  BY DEF HandleProgress, HandleDirFinished, HandleResult, HandleFileFinished, Handling
<1>2. CASE HandleProgress \/ HandleResult \/ HandleFileFinished
  <2>1. dirWorkers' = dirWorkers
    BY <1>2 DEF HandleProgress, HandleResult, HandleFileFinished, CountProgress, scanVars
  <2> QED
    BY <1>1, <2>1, HandlingKeepsEnds
<1>3. CASE HandleDirFinished
  <2>1. /\ dirWorkers' = MoveDir(Head(events).worker, "done", <<>>, <<>>)
        /\ Head(events).type = "dirFinished"
    BY <1>3 DEF HandleDirFinished, Handling, CountDirFinish
  <2>2. /\ DOMAIN dirWorkers' = DOMAIN dirWorkers
        /\ \A v \in DOMAIN dirWorkers :
              v # Head(events).worker => dirWorkers'[v] = dirWorkers[v]
    BY <2>1 DEF MoveDir
  <2> QED
    BY <1>1, <2>1, <2>2, HandlingKeepsEnds DEF IsEnd
<1> QED
  BY <1>2, <1>3

\* The end of scan(): the workers it starts come behind those there are, still queued.
LEMMA Spawned ==
    ASSUME TypeOK, SpawnOrComplete
    PROVE  /\ ThreadsNum \in Nat
           /\ dirWorkers' \in Seq(DirWorker)
           /\ Len(dirWorkers') = Len(dirWorkers) + ThreadsNum
           /\ \A v \in DOMAIN dirWorkers : v \in DOMAIN dirWorkers' /\ dirWorkers'[v] = dirWorkers[v]
           /\ \A v \in DOMAIN dirWorkers' :
                 v \notin DOMAIN dirWorkers => dirWorkers'[v] = QueuedDirWorker
           /\ scanning' = IF ThreadsNum = 0 THEN scanning ELSE TRUE
           /\ UNCHANGED <<targets, results, stopToken, finishedWorkers, processedPaths, paths>>
<1>1. dirWorkers \in Seq(DirWorker) /\ paths \in Seq(ArgDirs)
  BY DEF TypeOK
<1>2. ThreadsNum \in Nat
  <2>1. Len(paths) \in Nat
    BY <1>1, LenProperties
  <2> QED
    BY <2>1, TreeAssumption DEF ThreadsNum
<1>3. UNCHANGED <<targets, results, stopToken, finishedWorkers, processedPaths, paths>>
  BY DEF SpawnOrComplete, SpawnDirWorkers, scanVars
<1>4. scanning' = IF ThreadsNum = 0 THEN scanning ELSE TRUE
  BY DEF SpawnOrComplete, SpawnDirWorkers, scanVars
<1>5. Len(dirWorkers) \in Nat /\ DOMAIN dirWorkers = 1..Len(dirWorkers)
  BY <1>1, LenProperties
<1>6. CASE ThreadsNum = 0
  <2>1. dirWorkers' = dirWorkers
    BY <1>6 DEF SpawnOrComplete, scanVars
  <2> QED
    BY <1>1, <1>2, <1>3, <1>4, <1>5, <1>6, <2>1
<1>7. CASE ThreadsNum # 0
  <2>1. QueuedDirWorker \in DirWorker
    BY DEF QueuedDirWorker, DirWorker, DirPcs
  <2>2. PICK n \in Nat, t \in Seq(DirWorker) :
                n = ThreadsNum /\ t = [i \in 1..n |-> QueuedDirWorker]
    <3>1. PICK n \in Nat : n = ThreadsNum
      BY <1>2
    <3>2. [i \in 1..n |-> QueuedDirWorker] \in Seq(DirWorker)
      BY <2>1
    <3> QED
      BY <3>1, <3>2
  <2>3. dirWorkers' = dirWorkers \o t
    BY <1>7, <2>2 DEF SpawnOrComplete, SpawnDirWorkers
  <2>4. t \in Seq(DirWorker) /\ Len(t) = n
    BY <2>1, <2>2
  <2>5. /\ dirWorkers \o t \in Seq(DirWorker)
        /\ Len(dirWorkers \o t) = Len(dirWorkers) + n
        /\ \A i \in 1..(Len(dirWorkers) + n) : (dirWorkers \o t)[i] =
              IF i <= Len(dirWorkers) THEN dirWorkers[i] ELSE t[i - Len(dirWorkers)]
    BY <1>1, <2>4, ConcatProperties
  <2>6. DOMAIN dirWorkers' = 1..(Len(dirWorkers) + n)
    BY <2>3, <2>5, LenProperties
  <2>7. \A v \in DOMAIN dirWorkers : v \in DOMAIN dirWorkers' /\ dirWorkers'[v] = dirWorkers[v]
    BY <1>5, <2>3, <2>5, <2>6
  <2>8. ASSUME NEW v \in DOMAIN dirWorkers', v \notin DOMAIN dirWorkers
        PROVE  dirWorkers'[v] = QueuedDirWorker
    <3>1. v - Len(dirWorkers) \in 1..n /\ ~(v <= Len(dirWorkers)) /\ v \in 1..(Len(dirWorkers) + n)
      BY <1>5, <2>6, <2>8
    <3>2. dirWorkers'[v] = t[v - Len(dirWorkers)]
      BY <2>3, <2>5, <3>1
    <3> QED
      BY <2>2, <3>1, <3>2
  <2> QED
    BY <1>2, <1>3, <1>4, <2>2, <2>3, <2>5, <2>7, <2>8
<1> QED
  BY <1>6, <1>7

LEMMA MainEnds ==
    ASSUME TypeOK, EndsInv,
           \/ BeginIndexing \/ StopIndexing \/ NextArgument \/ StartScan \/ OpenDirectory
           \/ NextEntry \/ AnnounceFirstLevel \/ SpawnOrComplete \/ LaunchFileTargets
           \/ LeaveEventLoop
    PROVE  EndsInv'
<1>1. events' = events
  BY DEF BeginIndexing, StopIndexing, NextArgument, StartScan, OpenDirectory, NextEntry,
         AnnounceFirstLevel, SpawnOrComplete, LaunchFileTargets, LeaveEventLoop
<1>2. CASE SpawnOrComplete
  <2>1. /\ DOMAIN dirWorkers \subseteq DOMAIN dirWorkers'
        /\ \A v \in DOMAIN dirWorkers : dirWorkers'[v] = dirWorkers[v]
    BY <1>2, Spawned
  <2> QED
    BY <1>1, <2>1, EndsUntouched
<1>3. CASE ~SpawnOrComplete
  <2>1. dirWorkers' = dirWorkers
    BY <1>3 DEF BeginIndexing, StopIndexing, NextArgument, StartScan, OpenDirectory, NextEntry,
                AnnounceFirstLevel, LaunchFileTargets, LeaveEventLoop, scanVars, BeginScan,
                ListEntry
  <2> QED
    BY <1>1, <2>1, EndsUntouched
<1> QED
  BY <1>2, <1>3

LEMMA NextEnds == TypeOK /\ EndsInv /\ [Next]_vars => EndsInv'
<1> SUFFICES ASSUME TypeOK, EndsInv, [Next]_vars PROVE EndsInv'
  OBVIOUS
<1>1. CASE UNCHANGED vars
  BY <1>1, EndsUntouched DEF vars, scanVars
<1>2. CASE \E w \in DOMAIN dirWorkers : DirWorkerThread(w)
  BY <1>2, DirWorkerEnds
<1>3. CASE \E j \in DOMAIN jobs : JobStep(j)
  BY <1>3, JobStepEnds
<1>4. CASE BeginIndexing \/ StopIndexing \/ MainStep
  BY <1>4, MainEnds, HandlerEnds DEF MainStep
<1> QED
  BY <1>1, <1>2, <1>3, <1>4 DEF Next
----------------------------------------------------------------------------
(* What every step keeps: the elements of each queue that nobody was       *)
(* promised, and its permits together with what they stand for.            *)
SpareResults ==
    Len(results.items) - (Claimed("results") + AnnouncedByEvents + AboutToBeAnnounced)
SpareFiles == Len(fileTargets.items) - Claimed("files")
ResultPermits == (results.avail + Len(results.items) + ReservedResults) - Freed("results")
FilePermits == (fileTargets.avail + Len(fileTargets.items)) - Freed("files")

LEMMA BalanceTypes ==
    ASSUME TypeOK
    PROVE  /\ QueueSize \in Nat
           /\ processedPaths \in Nat
           /\ results \in QueueOf(Paths) /\ fileTargets \in QueueOf(Paths)
           /\ results.items \in Seq(Paths) /\ fileTargets.items \in Seq(Paths)
           /\ Len(results.items) \in Nat /\ Len(fileTargets.items) \in Nat
           /\ results.avail \in Int /\ fileTargets.avail \in Int
           /\ \A q : Claimed(q) \in Int /\ Freed(q) \in Int
           /\ AnnouncedByEvents \in Int
           /\ Sum(Collected(Announcing)) \in Int
           /\ ReservedResults \in Int
           /\ AboutToBeAnnounced =
                Sum(Collected(Announcing)) + IF mainPc = "list" THEN processedPaths ELSE 0
           /\ AboutToBeAnnounced \in Int
<1>1. /\ processedPaths \in Nat
      /\ results \in QueueOf(Paths) /\ fileTargets \in QueueOf(Paths)
  BY DEF TypeOK
<1>2. /\ results.items \in Seq(Paths) /\ fileTargets.items \in Seq(Paths)
      /\ results.avail \in Int /\ fileTargets.avail \in Int
  BY <1>1 DEF QueueOf
<1>3. Len(results.items) \in Nat /\ Len(fileTargets.items) \in Nat
  BY <1>2, LenProperties
<1>4. /\ \A q : Claimed(q) \in Int /\ Freed(q) \in Int
      /\ AnnouncedByEvents \in Int
      /\ Sum(Collected(Announcing)) \in Int
      /\ ReservedResults \in Int
  BY SumTypes DEF Claimed, Freed, ReservedResults
<1>5. AboutToBeAnnounced =
        Sum(Collected(Announcing)) + IF mainPc = "list" THEN processedPaths ELSE 0
  BY DEF AboutToBeAnnounced, Announcing
<1>6. AboutToBeAnnounced \in Int
  BY <1>1, <1>4, <1>5
<1> QED
  BY <1>1, <1>2, <1>3, <1>4, <1>5, <1>6, QueueSizeAssumption

LEMMA WorkerKeepsBalance ==
    ASSUME TypeOK, NEW w \in DOMAIN dirWorkers, DirWorkerThread(w)
    PROVE  /\ SpareResults' = SpareResults
           /\ SpareFiles' = SpareFiles
           /\ ResultPermits' = ResultPermits
           /\ FilePermits' = FilePermits
<1>1. /\ UNCHANGED <<stopToken, finishedWorkers, processedPaths, scanning, paths>>
      /\ UNCHANGED <<jobVars, mainVars>>
  BY WorkerStep
<1>2. UNCHANGED <<jobs, fileTargets, mainPc, processedPaths>>
  BY <1>1 DEF jobVars, mainVars
<1>3. PICK worker \in DirWorker :
         \/ Works(w, worker) \/ Reserves(w, worker) \/ Appends(w, worker)
         \/ Announces(w, worker) \/ Finishes(w, worker)
  BY WorkerStep
<1>4. \A q : Claimed(q)' = Claimed(q) /\ Freed(q)' = Freed(q)
  BY <1>2, SumsUntouched DEF Claimed, Freed
<1>5. SpareFiles' = SpareFiles /\ FilePermits' = FilePermits
  BY <1>2, <1>4 DEF SpareFiles, FilePermits
<1> DEFINE n == Len(dirWorkers[w].found)
           A(x) == Collection(Announcing, x)
           B(x) == Collection(Reserving, x)
<1>6. n \in Nat /\ dirWorkers[w].found \in Seq(Paths)
  BY WorkerAt
<1>7. dirWorkers' = [dirWorkers EXCEPT ![w] = worker]
  BY <1>3 DEF Works, Reserves, Appends, Announces, Finishes, Moves
<1>8. /\ Sum(Collected(Announcing))' =
           Sum(Collected(Announcing)) - A(dirWorkers[w]) + A(worker)
      /\ Sum(Collected(Reserving))' =
           Sum(Collected(Reserving)) - B(dirWorkers[w]) + B(worker)
  BY <1>7, WorkerMoves
<1>9. /\ AboutToBeAnnounced =
           Sum(Collected(Announcing)) + IF mainPc = "list" THEN processedPaths ELSE 0
      /\ AboutToBeAnnounced' =
           Sum(Collected(Announcing))' + IF mainPc = "list" THEN processedPaths ELSE 0
      /\ ReservedResults = Sum(Collected(Reserving))
      /\ ReservedResults' = Sum(Collected(Reserving))'
  BY <1>2 DEF AboutToBeAnnounced, ReservedResults, Announcing, Reserving
<1>10. /\ Claimed("results")' = Claimed("results") /\ Freed("results")' = Freed("results")
  BY <1>4
<1>11. /\ Claimed("results") \in Int /\ Freed("results") \in Int
       /\ AnnouncedByEvents \in Int /\ Sum(Collected(Announcing)) \in Int
       /\ Sum(Collected(Reserving)) \in Int
       /\ Len(results.items) \in Nat /\ results.avail \in Int /\ processedPaths \in Nat
       /\ results.items \in Seq(Paths) /\ results \in QueueOf(Paths)
  BY BalanceTypes, SumTypes
<1> HIDE DEF n, A, B
<1>19. /\ SpareResults = Len(results.items)
            - (Claimed("results") + AnnouncedByEvents + AboutToBeAnnounced)
       /\ SpareResults' = Len(results'.items)
            - (Claimed("results") + AnnouncedByEvents' + AboutToBeAnnounced')
       /\ ResultPermits = (results.avail + Len(results.items) + Sum(Collected(Reserving)))
            - Freed("results")
       /\ ResultPermits' = (results'.avail + Len(results'.items) + Sum(Collected(Reserving))')
            - Freed("results")
  BY <1>9, <1>10 DEF SpareResults, ResultPermits
<1>20. /\ AboutToBeAnnounced \in Int
       /\ AboutToBeAnnounced' =
            AboutToBeAnnounced - Sum(Collected(Announcing)) + Sum(Collected(Announcing))'
  <2>1. PICK k \in Int : k = IF mainPc = "list" THEN processedPaths ELSE 0
    BY <1>11
  <2>2. /\ AboutToBeAnnounced = Sum(Collected(Announcing)) + k
        /\ AboutToBeAnnounced' = Sum(Collected(Announcing))' + k
    BY <1>9, <2>1
  <2>3. A(worker) \in Int /\ A(dirWorkers[w]) \in Int
    <3>1. Len(worker.found) \in Nat
      BY LenProperties DEF DirWorker
    <3> QED
      BY <1>6, <3>1 DEF A, Collection, n
  <2> QED
    BY <1>8, <1>11, <2>2, <2>3
<1>12. ASSUME A(worker) = A(dirWorkers[w]), B(worker) = B(dirWorkers[w]),
              results' = results, AnnouncedByEvents' = AnnouncedByEvents,
              A(worker) \in Int, B(worker) \in Int
       PROVE  SpareResults' = SpareResults /\ ResultPermits' = ResultPermits
  <2>1. /\ Sum(Collected(Announcing))' = Sum(Collected(Announcing))
        /\ Sum(Collected(Reserving))' = Sum(Collected(Reserving))
    BY <1>8, <1>11, <1>12
  <2> QED
    BY <1>9, <1>10, <1>12, <2>1 DEF SpareResults, ResultPermits
<1>13. /\ Elsewhere \cap Announcing = {} /\ Elsewhere \cap Reserving = {}
       /\ Reserving \cap Announcing = {}
       /\ "posted" \notin Announcing /\ "posted" \notin Reserving
  BY DEF Elsewhere, Reserving, Announcing
<1>14. CASE Works(w, worker)
  <2>1. A(worker) = 0 /\ A(dirWorkers[w]) = 0 /\ B(worker) = 0 /\ B(dirWorkers[w]) = 0
    BY <1>13, <1>14 DEF Works, Moves, A, B, Collection
  <2>2. results' = results /\ AnnouncedByEvents' = AnnouncedByEvents
    BY <1>14, SumsUntouched DEF Works
  <2> QED
    BY <1>5, <1>12, <2>1, <2>2
<1>15. CASE Reserves(w, worker)
  <2>1. A(worker) = 0 /\ A(dirWorkers[w]) = 0 /\ B(worker) = n /\ B(dirWorkers[w]) = 0
    BY <1>13, <1>15 DEF Reserves, Moves, A, B, Collection, n
  <2>2. AnnouncedByEvents' = AnnouncedByEvents
    BY <1>15, SumsUntouched DEF Reserves
  <2>3. results'.items = results.items /\ results'.avail = results.avail - n
    BY <1>11, <1>15 DEF Reserves, Acquire, QueueOf, n
  <2>4. Len(results'.items) = Len(results.items)
    BY <2>3
  <2>5. SpareResults' = SpareResults
    BY <1>6, <1>8, <1>11, <1>19, <1>20, <2>1, <2>2, <2>4
  <2>6. ResultPermits' = ResultPermits
    BY <1>6, <1>8, <1>11, <1>19, <2>1, <2>3, <2>4
  <2> QED
    BY <1>5, <2>5, <2>6
<1>16. CASE Appends(w, worker)
  <2>1. A(worker) = n /\ A(dirWorkers[w]) = 0 /\ B(worker) = 0 /\ B(dirWorkers[w]) = n
    BY <1>13, <1>16 DEF Appends, Moves, A, B, Collection, n
  <2>2. AnnouncedByEvents' = AnnouncedByEvents
    BY <1>16, SumsUntouched DEF Appends
  <2>3. results'.items = results.items \o dirWorkers[w].found /\ results'.avail = results.avail
    BY <1>11, <1>16 DEF Appends, Put, QueueOf
  <2>4. Len(results'.items) = Len(results.items) + n
    BY <1>6, <1>11, <2>3, ConcatProperties DEF n
  <2>5. SpareResults' = SpareResults
    BY <1>6, <1>8, <1>11, <1>19, <1>20, <2>1, <2>2, <2>4
  <2>6. ResultPermits' = ResultPermits
    BY <1>6, <1>8, <1>11, <1>19, <2>1, <2>3, <2>4
  <2> QED
    BY <1>5, <2>5, <2>6
<1>17. CASE Announces(w, worker)
  <2>1. A(worker) = 0 /\ A(dirWorkers[w]) = n /\ B(worker) = 0 /\ B(dirWorkers[w]) = 0
    BY <1>13, <1>17 DEF Announces, Moves, A, B, Collection, n
  <2>2. results' = results /\ AnnouncedByEvents' = AnnouncedByEvents + n
    <3>1. Progress(n) \in AnyEvent /\ CountOf(Progress(n)) = n /\ Post(Progress(n))
      BY <1>6, <1>17 DEF AnyEvent, DirEvents, Progress, CountOf, Announces, n
    <3> QED
      BY <1>17, <3>1, EventPosted DEF Announces
  <2> QED
    BY <1>5, <1>6, <1>8, <1>11, <1>19, <1>20, <2>1, <2>2
<1>18. CASE Finishes(w, worker)
  <2>1. A(worker) = 0 /\ A(dirWorkers[w]) = 0 /\ B(worker) = 0 /\ B(dirWorkers[w]) = 0
    BY <1>13, <1>18 DEF Finishes, Moves, A, B, Collection
  <2>2. results' = results /\ AnnouncedByEvents' = AnnouncedByEvents
    <3>1. /\ DirFinished(w) \in AnyEvent /\ CountOf(DirFinished(w)) = 0
          /\ Post(DirFinished(w)) /\ results' = results
      <4>1. w \in Nat
        BY WorkerAt
      <4> QED
        BY <1>18, <4>1 DEF AnyEvent, DirEvents, DirFinished, CountOf, Finishes
    <3>2. AnnouncedByEvents' = AnnouncedByEvents + 0
      BY <3>1, EventPosted
    <3> QED
      BY <1>11, <3>1, <3>2
  <2> QED
    BY <1>5, <1>12, <2>1, <2>2
<1> QED
  BY <1>3, <1>14, <1>15, <1>16, <1>17, <1>18

\* What a step of job j is to queue q: the two halves of dequeue cancel out.
LEMMA QueueBalance ==
    ASSUME TypeOK, NEW j \in DOMAIN jobs, JobStep(j),
           NEW q \in {"files", "results"}, NEW before, NEW after,
           before = IF q = "files" THEN fileTargets ELSE results,
           after = IF q = "files" THEN fileTargets' ELSE results',
           jobs[j].pc = "take" /\ jobs[j].queue = q => Holds(before, jobs[j].size)
    PROVE  /\ Len(after.items) - Claimed(q)' = Len(before.items) - Claimed(q)
           /\ (after.avail + Len(after.items)) - Freed(q)' = (before.avail + Len(before.items)) - Freed(q)
           /\ Len(after.items) \in Int /\ after.avail \in Int
           /\ Claimed(q)' \in Int /\ Freed(q)' \in Int
<1>1. PICK job \in Job :
         /\ job.size \in {0, jobs[j].size}
         /\ Starts(j, job) \/ Takes(j, job) \/ Underflows(j, job) \/ Proceeds(j, job)
  BY StepOfJob
<1> DEFINE n == jobs[j].size
           mine == jobs[j].queue = q
           C(x) == Share({"queued", "take"}, q, x)
           F(x) == Share({"take"}, q, x)
<1>2. n \in Int /\ jobs[j].queue \in {"files", "results"}
  BY JobAt
<1>3. jobs' = [jobs EXCEPT ![j] = job]
  BY <1>1 DEF Starts, Takes, Underflows, Proceeds, Becomes
<1>4. /\ Claimed(q)' = Claimed(q) - C(jobs[j]) + C(job)
      /\ Freed(q)' = Freed(q) - F(jobs[j]) + F(job)
  BY <1>3, JobMoves DEF Claimed, Freed
<1>5. Claimed(q) \in Int /\ Freed(q) \in Int
  BY BalanceTypes
<1>6. /\ before \in QueueOf(Paths) /\ before.items \in Seq(Paths)
      /\ Len(before.items) \in Nat /\ before.avail \in Int
  BY BalanceTypes
<1>7. mine => before = QueueOfJob(j)
  BY DEF QueueOfJob
<1>8. ASSUME NEW next, SetQueueOfJob(j, next)
      PROVE  after = IF mine THEN next ELSE before
  BY <1>2, <1>8 DEF SetQueueOfJob
<1> HIDE DEF n, mine, C, F
<1>9. CASE Starts(j, job)
  <2>1. /\ C(jobs[j]) = C(job) /\ C(job) \in Int
        /\ F(jobs[j]) = 0 /\ F(job) = IF mine THEN n ELSE 0
    BY <1>2, <1>9 DEF Starts, Becomes, C, F, Share, n, mine
  <2>2. after = IF mine THEN Release(QueueOfJob(j), n) ELSE before
    BY <1>8, <1>9 DEF Starts, n
  <2>3. /\ after.items = before.items
        /\ after.avail = before.avail + IF mine THEN n ELSE 0
    <3>1. CASE mine
      BY <1>6, <1>7, <2>2, <3>1 DEF Release, QueueOf
    <3>2. CASE ~mine
      BY <1>6, <2>2, <3>2
    <3> QED
      BY <3>1, <3>2
  <2>4. PICK k \in Int : k = IF mine THEN n ELSE 0
    BY <1>2
  <2>5. Claimed(q)' = Claimed(q) /\ Freed(q)' = Freed(q) + k /\ after.avail = before.avail + k
    BY <1>4, <1>5, <2>1, <2>3, <2>4
  <2>6. Len(after.items) = Len(before.items)
    BY <2>3
  <2> QED
    BY <1>5, <1>6, <2>4, <2>5, <2>6
<1>10. CASE Takes(j, job)
  <2>1. /\ C(jobs[j]) = (IF mine THEN n ELSE 0) /\ C(job) = 0
        /\ F(jobs[j]) = (IF mine THEN n ELSE 0) /\ F(job) = 0
    BY <1>2, <1>10 DEF Takes, Becomes, C, F, Share, n, mine
  <2>2. after = IF mine THEN WithoutBatch(QueueOfJob(j), n) ELSE before
    BY <1>8, <1>10 DEF Takes, n
  <2>3. /\ after.avail = before.avail
        /\ Len(after.items) = Len(before.items) - IF mine THEN n ELSE 0
    <3>1. CASE mine
      <4>1. n \in 0..Len(before.items)
        BY <1>7, <1>10, <3>1 DEF Takes, Holds, n
      <4>2. after.items = SubSeq(before.items, n + 1, Len(before.items)) /\ after.avail = before.avail
        BY <1>6, <1>7, <2>2, <3>1 DEF WithoutBatch, QueueOf
      <4>3. Len(SubSeq(before.items, n + 1, Len(before.items))) = Len(before.items) - n
        <5>1. [x \in Paths |-> 0] \in [Paths -> Int]
          OBVIOUS
        <5> QED
          BY <1>6, <4>1, <5>1, WeighCut
      <4> QED
        BY <3>1, <4>2, <4>3
    <3>2. CASE ~mine
      BY <1>6, <2>2, <3>2
    <3> QED
      BY <3>1, <3>2
  <2>4. PICK k \in Int : k = IF mine THEN n ELSE 0
    BY <1>2
  <2>5. /\ Claimed(q)' = Claimed(q) - k /\ Freed(q)' = Freed(q) - k
        /\ Len(after.items) = Len(before.items) - k
    BY <1>4, <1>5, <2>1, <2>3, <2>4
  <2>6. after.avail = before.avail
    BY <2>3
  <2>7. PICK m \in Int : m = Len(before.items)
    BY <1>6
  <2>8. PICK c \in Int : c = Claimed(q)
    BY <1>5
  <2>9. PICK f \in Int : f = Freed(q)
    BY <1>5
  <2>10. Len(after.items) = m - k /\ Claimed(q)' = c - k /\ Freed(q)' = f - k
    BY <2>5, <2>7, <2>8, <2>9
  <2>13. k \in Int /\ before.avail \in Int
    BY <1>6, <2>4
  <2>11. (m - k) - (c - k) = m - c /\ (before.avail + (m - k)) - (f - k) = (before.avail + m) - f
    BY <2>13
  <2>12. Len(after.items) \in Int /\ Claimed(q)' \in Int /\ Freed(q)' \in Int
    BY <2>10, <2>13
  <2> QED
    BY <2>6, <2>7, <2>8, <2>9, <2>10, <2>11, <2>12, <2>13
<1>11. CASE Underflows(j, job)
  <2>1. ~mine
    BY <1>7, <1>11 DEF Underflows, Becomes, mine
  <2>2. C(jobs[j]) = 0 /\ C(job) = 0 /\ F(jobs[j]) = 0 /\ F(job) = 0
    BY <1>11, <2>1 DEF Underflows, Becomes, C, F, Share, mine
  <2>3. after = before
    BY <1>11 DEF Underflows
  <2>4. Claimed(q)' = Claimed(q) /\ Freed(q)' = Freed(q)
    BY <1>4, <1>5, <2>2
  <2> QED
    BY <1>5, <1>6, <2>3, <2>4
<1>12. CASE Proceeds(j, job)
  <2>1. C(jobs[j]) = 0 /\ C(job) = 0 /\ F(jobs[j]) = 0 /\ F(job) = 0
    BY <1>12 DEF Proceeds, Becomes, C, F, Share
  <2>2. after = before
    BY <1>12 DEF Proceeds
  <2>3. Claimed(q)' = Claimed(q) /\ Freed(q)' = Freed(q)
    BY <1>4, <1>5, <2>1
  <2> QED
    BY <1>5, <1>6, <2>2, <2>3
<1> QED
  BY <1>1, <1>9, <1>10, <1>11, <1>12

LEMMA JobKeepsBalance ==
    ASSUME TypeOK, NEW j \in DOMAIN jobs, JobStep(j)
    PROVE  /\ (jobs[j].pc = "take" /\ jobs[j].queue = "files" => Holds(fileTargets, jobs[j].size))
                => SpareFiles' = SpareFiles /\ FilePermits' = FilePermits
           /\ (jobs[j].pc = "take" /\ jobs[j].queue = "results" => Holds(results, jobs[j].size))
                => SpareResults' = SpareResults /\ ResultPermits' = ResultPermits
<1>1. UNCHANGED <<dirWorkers, mainPc, processedPaths>>
  BY StepOfJob DEF mainVars, mainScanVars
<1>2. AboutToBeAnnounced' = AboutToBeAnnounced /\ ReservedResults' = ReservedResults
  BY <1>1, SumsUntouched DEF AboutToBeAnnounced, ReservedResults
<1>3. AnnouncedByEvents' = AnnouncedByEvents
  <2>1. events' = events \/ \E e \in JobEvents : Post(e)
    BY StepOfJob DEF Starts, Takes, Underflows, Proceeds
  <2>2. CASE events' = events
    BY <2>2, SumsUntouched
  <2>3. CASE \E e \in JobEvents : Post(e)
    <3>1. PICK e \in JobEvents : Post(e)
      BY <2>3
    <3>2. e \in AnyEvent /\ CountOf(e) = 0
      BY DEF AnyEvent, JobEvents, CountOf
    <3>3. AnnouncedByEvents' = AnnouncedByEvents + 0
      BY <3>1, <3>2, EventPosted
    <3> QED
      BY <3>3, BalanceTypes
  <2> QED
    BY <2>1, <2>2, <2>3
<1>4. ASSUME jobs[j].pc = "take" /\ jobs[j].queue = "files" => Holds(fileTargets, jobs[j].size)
      PROVE  SpareFiles' = SpareFiles /\ FilePermits' = FilePermits
  <2>1. PICK before, after : before = fileTargets /\ after = fileTargets'
    OBVIOUS
  <2>2. /\ Len(after.items) - Claimed("files")' = Len(before.items) - Claimed("files")
        /\ (after.avail + Len(after.items)) - Freed("files")'
             = (before.avail + Len(before.items)) - Freed("files")
    BY <1>4, <2>1, QueueBalance
  <2> QED
    BY <2>1, <2>2 DEF SpareFiles, FilePermits
<1>5. ASSUME jobs[j].pc = "take" /\ jobs[j].queue = "results" => Holds(results, jobs[j].size)
      PROVE  SpareResults' = SpareResults /\ ResultPermits' = ResultPermits
  <2>1. PICK before, after : before = results /\ after = results'
    OBVIOUS
  <2>2. /\ Len(after.items) - Claimed("results")' = Len(before.items) - Claimed("results")
        /\ (after.avail + Len(after.items)) - Freed("results")'
             = (before.avail + Len(before.items)) - Freed("results")
        /\ Len(after.items) \in Int /\ after.avail \in Int
        /\ Claimed("results")' \in Int /\ Freed("results")' \in Int
    BY <1>5, <2>1, QueueBalance
  <2>3. /\ Claimed("results") \in Int /\ Freed("results") \in Int
        /\ AnnouncedByEvents \in Int /\ AboutToBeAnnounced \in Int /\ ReservedResults \in Int
        /\ Len(before.items) \in Int /\ before.avail \in Int
    BY <2>1, BalanceTypes
  <2>4. /\ SpareResults = Len(before.items)
             - (Claimed("results") + AnnouncedByEvents + AboutToBeAnnounced)
        /\ SpareResults' = Len(after.items)
             - (Claimed("results")' + AnnouncedByEvents + AboutToBeAnnounced)
        /\ ResultPermits = (before.avail + Len(before.items) + ReservedResults) - Freed("results")
        /\ ResultPermits' = (after.avail + Len(after.items) + ReservedResults) - Freed("results")'
    BY <1>2, <1>3, <2>1 DEF SpareResults, ResultPermits
  <2>5. SpareResults' = SpareResults
    <3>1. PICK m \in Int : m = Len(after.items)
      BY <2>2
    <3>2. PICK n \in Int : n = Len(before.items)
      BY <2>3
    <3>3. PICK c \in Int : c = Claimed("results")'
      BY <2>2
    <3>4. PICK d \in Int : d = Claimed("results")
      BY <2>3
    <3>5. m - c = n - d
      BY <2>2, <3>1, <3>2, <3>3, <3>4
    <3>6. /\ SpareResults' = m - (c + AnnouncedByEvents + AboutToBeAnnounced)
          /\ SpareResults = n - (d + AnnouncedByEvents + AboutToBeAnnounced)
      BY <2>4, <3>1, <3>2, <3>3, <3>4
    <3> QED
      BY <2>3, <3>5, <3>6
  <2>6. ResultPermits' = ResultPermits
    <3>1. PICK m \in Int : m = after.avail + Len(after.items)
      BY <2>2
    <3>2. PICK n \in Int : n = before.avail + Len(before.items)
      BY <2>3
    <3>3. PICK c \in Int : c = Freed("results")'
      BY <2>2
    <3>4. PICK d \in Int : d = Freed("results")
      BY <2>3
    <3>5. (after.avail + Len(after.items)) - Freed("results")'
            = (before.avail + Len(before.items)) - Freed("results")
      BY <2>2
    <3>6. m - c = n - d
      <4>1. m - c = (after.avail + Len(after.items)) - Freed("results")'
        BY <3>1, <3>3
      <4>2. n - d = (before.avail + Len(before.items)) - Freed("results")
        BY <3>2, <3>4
      <4> QED
        BY <3>5, <4>1, <4>2
    <3>7. /\ ResultPermits' = (after.avail + Len(after.items) + ReservedResults) - Freed("results")'
          /\ ResultPermits = (before.avail + Len(before.items) + ReservedResults) - Freed("results")
      BY <2>4
    <3>8. ResultPermits' = (m + ReservedResults) - c /\ ResultPermits = (n + ReservedResults) - d
      BY <3>1, <3>2, <3>3, <3>4, <3>7
    <3> QED
      BY <2>3, <3>6, <3>8
  <2> QED
    BY <2>5, <2>6
<1> QED
  BY <1>4, <1>5

----------------------------------------------------------------------------
(* The queues. *)

\* The main thread alone fills a queue before its first job is launched; jobs of
\* fileTargets are launched only when it is back in its loop.
Nothing == jobs = <<>> /\ events = <<>> /\ dirWorkers = <<>>
Unscanned ==
    /\ dirWorkers = <<>>
    /\ finishedWorkers = 0
    /\ ~scanning
    /\ ~stopToken
StagesInv ==
    /\ runs <= 1 /\ (runs = 0 \/ mainPc = "arguments") =>
         Nothing /\ Unscanned /\ results = EmptyQueue /\ paths = <<>>
    /\ runs <= 1 /\ mainPc = "list" =>
         Nothing /\ Unscanned /\ paths # <<>> /\ processedPaths = Len(results.items)
    /\ runs <= 1 /\ mainPc = "spawn" => Unscanned
    /\ mainPc \notin {"loop", "exited"} =>
         \A j \in DOMAIN jobs : jobs[j].pc \in {"queued", "take"} => jobs[j].queue = "results"

\* Promises are kept, and no job is told to take less than nothing.
PromisesInv ==
    /\ runs <= 1 => IF stopToken THEN SpareResults >= 0 ELSE SpareResults = 0
    /\ mainPc \in {"loop", "exited"} => SpareFiles = 0
    /\ \A j \in DOMAIN jobs : jobs[j].size >= 0
PermitsInv ==
    /\ runs <= 1 => ResultPermits = IF paths = <<>> THEN QueueSize ELSE 2 * QueueSize
    /\ FilePermits = QueueSize

QueuesInv == StagesInv /\ PromisesInv /\ PermitsInv

\* No sum is negative, and one job is promised no more than all are.
LEMMA PromisesAdd ==
    ASSUME TypeOK, \A j \in DOMAIN jobs : jobs[j].size >= 0
    PROVE  /\ \A q : Claimed(q) >= 0
           /\ \A q : \A j \in DOMAIN jobs :
                 jobs[j].pc \in {"queued", "take"} /\ jobs[j].queue = q => jobs[j].size <= Claimed(q)
           /\ AnnouncedByEvents >= 0
           /\ AboutToBeAnnounced >= 0
<1>1. jobs \in Seq(Job) /\ dirWorkers \in Seq(DirWorker) /\ events \in Seq(AnyEvent)
  BY DEF TypeOK, AnyEvent
<1>2. ASSUME NEW q
      PROVE  /\ Claimed(q) >= 0
             /\ \A j \in DOMAIN jobs :
                  jobs[j].pc \in {"queued", "take"} /\ jobs[j].queue = q => jobs[j].size <= Claimed(q)
  <2> DEFINE g == Shares({"queued", "take"}, q)
  <2>1. g \in [Job -> Int]
    BY WeightTypes
  <2>2. ASSUME NEW j \in DOMAIN jobs
        PROVE  /\ g[jobs[j]] >= 0
               /\ jobs[j].pc \in {"queued", "take"} /\ jobs[j].queue = q => g[jobs[j]] = jobs[j].size
    <3>1. jobs[j] \in Job /\ jobs[j].size >= 0
      BY JobAt
    <3> QED
      BY <3>1 DEF Shares, Share
  <2>3. Claimed(q) = Weigh(g, jobs)
    BY <1>1, SharesWeigh DEF Claimed, Sizes
  <2> HIDE DEF g
  <2>4. /\ Weigh(g, jobs) \in Nat
        /\ \A j \in DOMAIN jobs : g[jobs[j]] <= Weigh(g, jobs)
    BY <1>1, <2>1, <2>2, WeighNaturals
  <2>5. Claimed(q) >= 0
    BY <2>3, <2>4
  <2>6. ASSUME NEW j \in DOMAIN jobs, jobs[j].pc \in {"queued", "take"}, jobs[j].queue = q
        PROVE  jobs[j].size <= Claimed(q)
    <3>1. g[jobs[j]] = jobs[j].size
      BY <2>2, <2>6
    <3> QED
      BY <2>3, <2>4, <3>1
  <2> QED
    BY <2>5, <2>6
<1>3. AnnouncedByEvents >= 0
  <2>1. \A i \in DOMAIN events : events[i] \in AnyEvent
    BY <1>1, ElementOfSeq, LenProperties
  <2>2. ASSUME NEW e \in AnyEvent PROVE Counts[e] >= 0
    <3>1. CASE e.type = "progress"
      <4>1. e \in [type : {"progress"}, count : Nat]
        BY <3>1 DEF AnyEvent, DirEvents, JobEvents
      <4>2. e.count \in Nat
        BY <4>1
      <4> QED
        BY <3>1, <4>2 DEF Counts, CountOf
    <3>2. CASE e.type # "progress"
      BY <3>2 DEF Counts, CountOf
    <3> QED
      BY <3>1, <3>2
  <2>3. Weigh(Counts, events) \in Nat
    BY <1>1, <2>1, <2>2, WeightTypes, WeighNaturals
  <2>4. AnnouncedByEvents = Weigh(Counts, events)
    BY <1>1, CountsWeigh DEF AnnouncedByEvents, Announced
  <2> QED
    BY <2>3, <2>4
<1>4. AboutToBeAnnounced >= 0
  <2> DEFINE g == Collections(Announcing)
  <2>1. g \in [DirWorker -> Int]
    BY WeightTypes
  <2>2. ASSUME NEW w \in DOMAIN dirWorkers PROVE g[dirWorkers[w]] >= 0
    <3>1. dirWorkers[w] \in DirWorker /\ Len(dirWorkers[w].found) \in Nat
      BY WorkerAt
    <3> QED
      BY <3>1 DEF Collections, Collection
  <2>3. Sum(Collected(Announcing)) = Weigh(g, dirWorkers)
    BY <1>1, CollectionsWeigh DEF Collected
  <2> HIDE DEF g
  <2>4. Weigh(g, dirWorkers) \in Nat
    BY <1>1, <2>1, <2>2, WeighNaturals
  <2>5. PICK k \in Nat : k = IF mainPc = "list" THEN processedPaths ELSE 0
    BY BalanceTypes
  <2>6. AboutToBeAnnounced = Sum(Collected(Announcing)) + k
    BY <2>5, BalanceTypes
  <2> QED
    BY <2>3, <2>4, <2>5, <2>6
<1> QED
  BY <1>2, <1>3, <1>4

\* While no job waits for elements of a queue, nothing of it is promised or freed.
LEMMA NoneWaiting ==
    ASSUME TypeOK, NEW q,
           \A j \in DOMAIN jobs : ~(jobs[j].pc \in {"queued", "take"} /\ jobs[j].queue = q)
    PROVE  Claimed(q) = 0 /\ Freed(q) = 0
<1>1. jobs \in Seq(Job)
  BY DEF TypeOK
<1>2. ASSUME NEW pcs \in {{"queued", "take"}, {"take"}}
      PROVE  Sum(Sizes(pcs, q)) = 0
  <2> DEFINE g == Shares(pcs, q)
  <2>1. g \in [Job -> Int]
    BY WeightTypes
  <2>2. ASSUME NEW j \in DOMAIN jobs PROVE g[jobs[j]] = 0
    <3>1. jobs[j] \in Job
      BY JobAt
    <3>2. ~(jobs[j].pc \in pcs /\ jobs[j].queue = q)
      OBVIOUS
    <3> QED
      BY <3>1, <3>2 DEF Shares, Share
  <2>3. Sum(Sizes(pcs, q)) = Weigh(g, jobs)
    BY <1>1, SharesWeigh DEF Sizes
  <2> HIDE DEF g
  <2>4. Weigh(g, jobs) = 0
    BY <1>1, <2>1, <2>2, WeighNaturals
  <2> QED
    BY <2>3, <2>4
<1> QED
  BY <1>2 DEF Claimed, Freed

\* A job that takes its batch finds it.
LEMMA BatchIsThere ==
    ASSUME TypeOK, QueuesInv, NEW j \in DOMAIN jobs, jobs[j].pc = "take"
    PROVE  /\ jobs[j].queue = "files" => Holds(fileTargets, jobs[j].size)
           /\ jobs[j].queue = "results" /\ runs <= 1 => Holds(results, jobs[j].size)
<1>1. jobs[j].size \in Int /\ jobs[j].size >= 0
  BY JobAt DEF QueuesInv, PromisesInv
<1>2. /\ \A q : jobs[j].queue = q => jobs[j].size <= Claimed(q)
      /\ AnnouncedByEvents >= 0 /\ AboutToBeAnnounced >= 0
  BY PromisesAdd DEF QueuesInv, PromisesInv
<1>3. ASSUME jobs[j].queue = "files" PROVE Holds(fileTargets, jobs[j].size)
  <2>1. mainPc \in {"loop", "exited"}
    BY <1>3 DEF QueuesInv, StagesInv
  <2>2. SpareFiles = 0
    BY <2>1 DEF QueuesInv, PromisesInv
  <2>3. Claimed("files") = Len(fileTargets.items) /\ Len(fileTargets.items) \in Nat
    BY <2>2, BalanceTypes DEF SpareFiles
  <2>4. jobs[j].size <= Len(fileTargets.items)
    BY <1>2, <1>3, <2>3
  <2> QED
    BY <1>1, <2>3, <2>4 DEF Holds
<1>4. ASSUME jobs[j].queue = "results", runs <= 1 PROVE Holds(results, jobs[j].size)
  <2>1. SpareResults >= 0
    BY <1>4 DEF QueuesInv, PromisesInv
  <2>2. /\ Claimed("results") \in Int /\ AnnouncedByEvents \in Int /\ AboutToBeAnnounced \in Int
        /\ Len(results.items) \in Nat
    BY BalanceTypes
  <2>3. Claimed("results") <= Len(results.items)
    BY <1>2, <2>1, <2>2 DEF SpareResults
  <2>4. jobs[j].size <= Claimed("results")
    BY <1>2, <1>4
  <2>5. jobs[j].size <= Len(results.items)
    BY <1>1, <2>2, <2>3, <2>4
  <2> QED
    BY <1>1, <2>2, <2>5 DEF Holds
<1> QED
  BY <1>3, <1>4

LEMMA LaunchBalance ==
    ASSUME TypeOK, NEW queue \in {"files", "results"}, NEW n \in Int, LaunchWorker(queue, n)
    PROVE  /\ Claimed(queue)' = Claimed(queue) + n
           /\ \A q \in {"files", "results"} : q # queue => Claimed(q)' = Claimed(q)
           /\ \A q : Freed(q)' = Freed(q)
           /\ n >= 0 /\ (\A j \in DOMAIN jobs : jobs[j].size >= 0)
                => \A j \in DOMAIN jobs' : jobs'[j].size >= 0
           /\ \A j \in DOMAIN jobs' : \/ j \in DOMAIN jobs /\ jobs'[j] = jobs[j]
                                      \/ jobs'[j] = NewJob(queue, n)
<1>1. \A pcs, q : Sum(Sizes(pcs, q))' = Sum(Sizes(pcs, q)) + Share(pcs, q, NewJob(queue, n))
  BY JobLaunched
<1>2. /\ Share({"queued", "take"}, queue, NewJob(queue, n)) = n
      /\ \A q : q # queue => Share({"queued", "take"}, q, NewJob(queue, n)) = 0
      /\ \A q : Share({"take"}, q, NewJob(queue, n)) = 0
  BY DEF Share, NewJob
<1>3. \A q : Claimed(q) \in Int /\ Freed(q) \in Int
  BY BalanceTypes
<1>4. /\ Claimed(queue)' = Claimed(queue) + n
      /\ \A q \in {"files", "results"} : q # queue => Claimed(q)' = Claimed(q)
      /\ \A q : Freed(q)' = Freed(q)
  BY <1>1, <1>2, <1>3 DEF Claimed, Freed
<1>5. \A j \in DOMAIN jobs' : \/ j \in DOMAIN jobs /\ jobs'[j] = jobs[j]
                              \/ jobs'[j] = NewJob(queue, n)
  <2>1. jobs \in Seq(Job) /\ jobs' = Append(jobs, NewJob(queue, n))
    BY DEF TypeOK, LaunchWorker
  <2>2. NewJob(queue, n) \in Job
    <3>1. <<>> \in Seq(Paths)
      OBVIOUS
    <3> QED
      BY <3>1 DEF NewJob, Job, JobPcs
  <2>3. /\ jobs' \in Seq(Job)
        /\ Len(jobs') = Len(jobs) + 1
        /\ \A j \in 1..Len(jobs) : jobs'[j] = jobs[j]
        /\ jobs'[Len(jobs) + 1] = NewJob(queue, n)
    BY <2>1, <2>2, AppendProperties
  <2>4. DOMAIN jobs = 1..Len(jobs) /\ Len(jobs) \in Nat /\ DOMAIN jobs' = 1..(Len(jobs) + 1)
    BY <2>1, <2>3, LenProperties
  <2>5. ASSUME NEW j \in DOMAIN jobs'
        PROVE  (j \in DOMAIN jobs /\ jobs'[j] = jobs[j]) \/ jobs'[j] = NewJob(queue, n)
    <3>1. j \in 1..Len(jobs) \/ j = Len(jobs) + 1
      BY <2>4
    <3> QED
      BY <2>3, <2>4, <3>1
  <2> QED
    BY <2>5
<1>6. ASSUME n >= 0, \A j \in DOMAIN jobs : jobs[j].size >= 0, NEW j \in DOMAIN jobs'
      PROVE  jobs'[j].size >= 0
  <2>1. NewJob(queue, n).size = n
    BY DEF NewJob
  <2> QED
    BY <1>5, <1>6, <2>1
<1> QED
  BY <1>4, <1>5, <1>6

LEMMA WorkerQueues ==
    ASSUME TypeOK, QueuesInv, NEW w \in DOMAIN dirWorkers, DirWorkerThread(w)
    PROVE  QueuesInv'
<1>1. /\ UNCHANGED <<stopToken, finishedWorkers, processedPaths, scanning, paths>>
      /\ UNCHANGED <<jobVars, mainVars>>
  BY WorkerStep
<1>2. UNCHANGED <<jobs, mainPc, runs, paths, stopToken>>
  BY <1>1 DEF jobVars, mainVars
<1>3. dirWorkers # <<>>
  OBVIOUS
<1>4. StagesInv'
  BY <1>2, <1>3 DEF QueuesInv, StagesInv, Nothing, Unscanned
<1>5. /\ SpareResults' = SpareResults /\ SpareFiles' = SpareFiles
      /\ ResultPermits' = ResultPermits /\ FilePermits' = FilePermits
  BY WorkerKeepsBalance
<1>6. PromisesInv'
  BY <1>2, <1>5 DEF QueuesInv, PromisesInv
<1>7. PermitsInv'
  BY <1>2, <1>5 DEF QueuesInv, PermitsInv
<1> QED
  BY <1>4, <1>6, <1>7 DEF QueuesInv

LEMMA JobQueues ==
    ASSUME TypeOK, QueuesInv, NEW j \in DOMAIN jobs, JobStep(j)
    PROVE  QueuesInv'
<1>1. UNCHANGED <<targets, mainScanVars, dirWorkers, runningWorkers, counts, mainVars>>
  BY StepOfJob
<1>2. UNCHANGED <<mainPc, runs, paths, stopToken, scanning, finishedWorkers, dirWorkers>>
  BY <1>1 DEF mainVars, mainScanVars
<1>3. jobs # <<>>
  OBVIOUS
<1>4. PICK job \in Job :
         /\ job.size \in {0, jobs[j].size}
         /\ Starts(j, job) \/ Takes(j, job) \/ Underflows(j, job) \/ Proceeds(j, job)
  BY StepOfJob
<1>5. /\ jobs' = [jobs EXCEPT ![j] = job]
      /\ job.pc \in {"queued", "take"} =>
           jobs[j].pc \in {"queued", "take"} /\ job.queue = jobs[j].queue
  BY <1>4 DEF Starts, Takes, Underflows, Proceeds, Becomes
<1>6. DOMAIN jobs' = DOMAIN jobs /\ jobs'[j] = job
      /\ \A k \in DOMAIN jobs : k # j => jobs'[k] = jobs[k]
  BY <1>5
<1>7. StagesInv'
  <2>1. ~(runs <= 1 /\ (runs = 0 \/ mainPc = "arguments")) /\ ~(runs <= 1 /\ mainPc = "list")
    BY <1>3 DEF QueuesInv, StagesInv, Nothing
  <2>2. (runs <= 1 /\ mainPc = "spawn" => Unscanned)'
    BY <1>2 DEF QueuesInv, StagesInv, Unscanned
  <2>3. (mainPc \notin {"loop", "exited"} =>
           \A k \in DOMAIN jobs : jobs[k].pc \in {"queued", "take"} => jobs[k].queue = "results")'
    BY <1>2, <1>5, <1>6 DEF QueuesInv, StagesInv
  <2> QED
    BY <1>2, <2>1, <2>2, <2>3 DEF StagesInv
<1>8. /\ SpareFiles' = SpareFiles /\ FilePermits' = FilePermits
      /\ runs <= 1 => SpareResults' = SpareResults /\ ResultPermits' = ResultPermits
  BY BatchIsThere, JobKeepsBalance
<1>9. \A k \in DOMAIN jobs' : jobs'[k].size >= 0
  <2>1. jobs[j].size >= 0
    BY DEF QueuesInv, PromisesInv
  <2>2. job.size >= 0
    BY <1>4, <2>1
  <2> QED
    BY <1>6, <2>2 DEF QueuesInv, PromisesInv
<1>10. PromisesInv'
  BY <1>2, <1>8, <1>9 DEF QueuesInv, PromisesInv
<1>11. PermitsInv'
  BY <1>2, <1>8 DEF QueuesInv, PermitsInv
<1> QED
  BY <1>7, <1>10, <1>11 DEF QueuesInv

\* The handlers: a progress signal is turned into a job, or dropped after a cancellation.
LEMMA HandlerQueues ==
    ASSUME TypeOK, JobsInv, EndsInv, QueuesInv,
           HandleProgress \/ HandleDirFinished \/ HandleResult \/ HandleFileFinished
    PROVE  QueuesInv'
<1>1. /\ events # <<>> /\ events' = Tail(events) /\ mainPc = "loop"
      /\ UNCHANGED <<fileTargets, mainPc, runs>>
  BY DEF HandleProgress, HandleDirFinished, HandleResult, HandleFileFinished, Handling
<1>2. UNCHANGED <<results, paths>>
  BY DEF HandleProgress, HandleDirFinished, HandleResult, HandleFileFinished, CountProgress,
         CountDirFinish, scanVars
<1>3. StagesInv'
  BY <1>1 DEF QueuesInv, StagesInv, Nothing
<1>4. Head(events) \in AnyEvent /\ AnnouncedByEvents = CountOf(Head(events)) + AnnouncedByEvents'
  BY <1>1, EventTaken
<1>5. CountOf(Head(events)) \in Nat
  <2>1. CASE Head(events).type = "progress"
    <3>1. Head(events) \in [type : {"progress"}, count : Nat]
      BY <1>4, <2>1 DEF AnyEvent, DirEvents, JobEvents
    <3>2. Head(events).count \in Nat
      BY <3>1
    <3> QED
      BY <2>1, <3>2 DEF CountOf
  <2>2. CASE Head(events).type # "progress"
    BY <2>2 DEF CountOf
  <2> QED
    BY <2>1, <2>2
<1>6. /\ Sum(Collected(Announcing))' = Sum(Collected(Announcing))
      /\ ReservedResults' = ReservedResults
  <2>1. CASE HandleDirFinished
    <3> DEFINE w == Head(events).worker
               over == [pc |-> "done", left |-> <<>>, found |-> <<>>]
    <3>1. dirWorkers' = [dirWorkers EXCEPT ![w] = over] /\ Head(events).type = "dirFinished"
      BY <2>1 DEF HandleDirFinished, Handling, CountDirFinish, MoveDir
    <3>2. w \in DOMAIN dirWorkers /\ dirWorkers[w].pc = "posted"
      BY <1>1, <3>1, TailEvents DEF EndsInv, EndsPosted
    <3>3. over \in DirWorker
      <4>1. <<>> \in Seq(Paths)
        OBVIOUS
      <4> QED
        BY <4>1 DEF DirWorker, DirPcs
    <3>4. \A pcs \in {Announcing, Reserving} :
             Collection(pcs, dirWorkers[w]) = 0 /\ Collection(pcs, over) = 0
      BY <3>2 DEF Collection, Announcing, Reserving
    <3> HIDE DEF w, over
    <3>5. \A pcs : Sum(Collected(pcs))' =
             Sum(Collected(pcs)) - Collection(pcs, dirWorkers[w]) + Collection(pcs, over)
      BY <3>1, <3>2, <3>3, WorkerMoves
    <3>6. \A pcs : Sum(Collected(pcs)) \in Int
      BY SumTypes
    <3>7. \A pcs \in {Announcing, Reserving} : Sum(Collected(pcs))' = Sum(Collected(pcs))
      BY <3>4, <3>5, <3>6
    <3> QED
      BY <3>7 DEF ReservedResults, Reserving
  <2>2. CASE HandleProgress \/ HandleResult \/ HandleFileFinished
    <3>1. dirWorkers' = dirWorkers
      BY <2>2 DEF HandleProgress, HandleResult, HandleFileFinished, CountProgress, scanVars
    <3> QED
      BY <3>1, SumsUntouched DEF ReservedResults
  <2> QED
    BY <2>1, <2>2
<1>7. /\ AboutToBeAnnounced = Sum(Collected(Announcing)) + 0
      /\ AboutToBeAnnounced' = Sum(Collected(Announcing))' + 0
  BY <1>1 DEF AboutToBeAnnounced, Announcing
<1>8. AboutToBeAnnounced' = AboutToBeAnnounced
  BY <1>6, <1>7
<1>9. PICK c \in Nat : c = CountOf(Head(events))
  BY <1>5
<1>10. /\ Claimed("files") \in Int /\ Claimed("results") \in Int /\ AnnouncedByEvents \in Int
       /\ AboutToBeAnnounced \in Int /\ Len(results.items) \in Int
  BY BalanceTypes
<1>11. AnnouncedByEvents' = AnnouncedByEvents - c
  <2>1. AnnouncedByEvents' \in Int
    <3>1. PICK es \in Seq(AnyEvent) : es = events'
      BY <1>1, HeadTail DEF TypeOK, AnyEvent
    <3>2. Weigh(Counts, es) \in Int
      BY CountsWeigh
    <3>3. Weigh(Counts, es) =
            Sum([i \in DOMAIN es |-> IF es[i].type = "progress" THEN es[i].count ELSE 0])
      BY CountsWeigh
    <3> QED
      BY <3>1, <3>2, <3>3 DEF AnnouncedByEvents, Announced
  <2> QED
    BY <1>4, <1>9, <1>10, <2>1
<1>12. SpareResults' = Len(results.items) - (Claimed("results")' + AnnouncedByEvents' + AboutToBeAnnounced)
  BY <1>2, <1>8 DEF SpareResults
<1>13. CASE HandleProgress /\ ~stopToken
  <2>1. LaunchWorker("results", c) /\ stopToken' = stopToken
    BY <1>9, <1>13 DEF HandleProgress, Handling, CountOf, CountProgress
  <2>2. /\ Claimed("results")' = Claimed("results") + c
        /\ Claimed("files")' = Claimed("files")
        /\ Freed("results")' = Freed("results") /\ Freed("files")' = Freed("files")
        /\ \A j \in DOMAIN jobs' : jobs'[j].size >= 0
    BY <2>1, LaunchBalance DEF QueuesInv, PromisesInv
  <2>3. SpareResults' = SpareResults
    BY <1>10, <1>11, <1>12, <2>2 DEF SpareResults
  <2>4. SpareFiles' = SpareFiles /\ FilePermits' = FilePermits
    BY <1>1, <2>2 DEF SpareFiles, FilePermits
  <2>5. ResultPermits' = ResultPermits
    BY <1>2, <1>6, <2>2 DEF ResultPermits
  <2>6. PromisesInv'
    BY <1>1, <2>1, <2>2, <2>3, <2>4 DEF QueuesInv, PromisesInv
  <2>7. PermitsInv'
    BY <1>1, <1>2, <2>4, <2>5 DEF QueuesInv, PermitsInv
  <2> QED
    BY <1>3, <2>6, <2>7 DEF QueuesInv
<1>14. CASE ~(HandleProgress /\ ~stopToken)
  <2>1. /\ \A q \in {"files", "results"} : Claimed(q)' = Claimed(q) /\ Freed(q)' = Freed(q)
        /\ \A j \in DOMAIN jobs' : jobs'[j].size >= 0
    <3>1. CASE HandleFileFinished
      <4> DEFINE j == Head(events).job
                 over == [pc |-> "done", queue |-> "files", size |-> 0, batch |-> <<>>]
      <4>1. jobs' = [jobs EXCEPT ![j] = over] /\ Head(events).type = "fileFinished"
        BY <3>1 DEF HandleFileFinished, EndJob, Handling
      <4>2. j \in DOMAIN jobs /\ jobs[j].pc = "posted"
        BY <1>1, <4>1, TailEvents DEF JobsInv, JobEventsInv
      <4>3. over \in Job
        <5>1. <<>> \in Seq(Paths)
          OBVIOUS
        <5> QED
          BY <5>1 DEF Job, JobPcs
      <4>4. \A q : /\ Share({"queued", "take"}, q, jobs[j]) = 0 /\ Share({"take"}, q, jobs[j]) = 0
                   /\ Share({"queued", "take"}, q, over) = 0 /\ Share({"take"}, q, over) = 0
        BY <4>2 DEF Share
      <4>5. over.size = 0
        OBVIOUS
      <4> HIDE DEF j, over
      <4>6. \A pcs, q : Sum(Sizes(pcs, q))' =
               Sum(Sizes(pcs, q)) - Share(pcs, q, jobs[j]) + Share(pcs, q, over)
        BY <4>1, <4>2, <4>3, JobMoves
      <4>7. \A pcs, q : Sum(Sizes(pcs, q)) \in Int
        BY SumTypes
      <4>8. \A q : Claimed(q)' = Claimed(q) /\ Freed(q)' = Freed(q)
        BY <4>4, <4>6, <4>7 DEF Claimed, Freed
      <4>9. \A k \in DOMAIN jobs : jobs[k].size >= 0
        BY DEF QueuesInv, PromisesInv
      <4>10. \A k \in DOMAIN jobs' : jobs'[k].size >= 0
        BY <4>1, <4>5, <4>9
      <4> QED
        BY <4>8, <4>10
    <3>2. CASE ~HandleFileFinished
      <4>1. jobs' = jobs
        BY <1>14, <3>2 DEF HandleProgress, HandleDirFinished, HandleResult
      <4> QED
        BY <4>1, SumsUntouched DEF Claimed, Freed, QueuesInv, PromisesInv
    <3> QED
      BY <3>1, <3>2
  <2>2. SpareResults' = SpareResults + c
    BY <1>10, <1>11, <1>12, <2>1 DEF SpareResults
  <2>3. SpareFiles' = SpareFiles /\ FilePermits' = FilePermits /\ ResultPermits' = ResultPermits
    BY <1>1, <1>2, <1>6, <2>1 DEF SpareFiles, FilePermits, ResultPermits
  <2>4. SpareResults \in Int
    BY <1>10 DEF SpareResults
  <2>5. runs <= 1 => IF stopToken' THEN SpareResults' >= 0 ELSE SpareResults' = 0
    <3>1. CASE HandleProgress
      <4>1. stopToken /\ stopToken' = stopToken
        BY <1>14, <3>1 DEF HandleProgress, CountProgress
      <4> QED
        BY <2>2, <2>4, <4>1 DEF QueuesInv, PromisesInv
    <3>2. CASE ~HandleProgress
      <4>1. c = 0
        BY <1>9, <3>2 DEF HandleDirFinished, HandleResult, HandleFileFinished, Handling, CountOf
      <4>2. SpareResults' = SpareResults
        BY <2>2, <2>4, <4>1
      <4>3. stopToken' = stopToken \/ stopToken' = TRUE
        BY <3>2 DEF HandleDirFinished, HandleResult, HandleFileFinished, CountDirFinish,
                    RequestCancellation, DoNotCancel, scanVars
      <4>4. runs <= 1 => SpareResults >= 0 /\ (~stopToken => SpareResults = 0)
        BY DEF QueuesInv, PromisesInv
      <4> QED
        BY <4>2, <4>3, <4>4
    <3> QED
      BY <3>1, <3>2
  <2>6. PromisesInv'
    BY <1>1, <2>1, <2>3, <2>5 DEF QueuesInv, PromisesInv
  <2>7. PermitsInv'
    BY <1>1, <1>2, <2>3 DEF QueuesInv, PermitsInv
  <2> QED
    BY <1>3, <2>6, <2>7 DEF QueuesInv
<1> QED
  BY <1>13, <1>14

\* Steps of the main thread that move nothing between queues, jobs, workers and events.
LEMMA BalanceUntouched ==
    ASSUME UNCHANGED <<jobs, dirWorkers, events, results, processedPaths>>,
           mainPc = "list" <=> mainPc' = "list"
    PROVE  /\ SpareResults' = SpareResults
           /\ ResultPermits' = ResultPermits
           /\ fileTargets' = fileTargets => SpareFiles' = SpareFiles /\ FilePermits' = FilePermits
<1>1. /\ \A q : Claimed(q)' = Claimed(q) /\ Freed(q)' = Freed(q)
      /\ AnnouncedByEvents' = AnnouncedByEvents
      /\ Sum(Collected({"progress", "lastProgress"}))' = Sum(Collected({"progress", "lastProgress"}))
      /\ ReservedResults' = ReservedResults
  BY SumsUntouched DEF Claimed, Freed, ReservedResults
<1>2. (IF mainPc = "list" THEN processedPaths ELSE 0)' = IF mainPc = "list" THEN processedPaths ELSE 0
  OBVIOUS
<1>3. AboutToBeAnnounced' = AboutToBeAnnounced
  BY <1>1, <1>2 DEF AboutToBeAnnounced
<1> QED
  BY <1>1, <1>3 DEF SpareResults, ResultPermits, SpareFiles, FilePermits

LEMMA BeginQueues ==
    ASSUME TypeOK, JobsInv, QueuesInv, BeginIndexing
    PROVE  QueuesInv'
<1>1. /\ UNCHANGED <<jobs, dirWorkers, events, results, processedPaths, fileTargets>>
      /\ UNCHANGED <<stopToken, scanning, finishedWorkers, paths>>
      /\ mainPc = "loop" /\ mainPc' = "arguments" /\ runs' = runs + 1
  BY DEF BeginIndexing, scanVars
<1>2. /\ SpareResults' = SpareResults /\ ResultPermits' = ResultPermits
      /\ SpareFiles' = SpareFiles /\ FilePermits' = FilePermits
  BY <1>1, BalanceUntouched
<1>3. runs \in Nat
  BY DEF TypeOK
<1>4. runs' <= 1 => runs = 0
  BY <1>1, <1>3
<1>5. \A j \in DOMAIN jobs : jobs[j].pc = "done"
  BY NoneLiveAtBegin DEF LiveJobs
<1>6. runs = 0 => Nothing /\ Unscanned /\ results = EmptyQueue /\ paths = <<>>
  BY DEF QueuesInv, StagesInv
<1>7. StagesInv'
  BY <1>1, <1>4, <1>5, <1>6 DEF StagesInv, Nothing, Unscanned
<1>8. PromisesInv'
  BY <1>1, <1>2, <1>4 DEF QueuesInv, PromisesInv
<1>9. PermitsInv'
  BY <1>1, <1>2, <1>4 DEF QueuesInv, PermitsInv
<1> QED
  BY <1>7, <1>8, <1>9 DEF QueuesInv

LEMMA QuietQueues ==
    ASSUME TypeOK, JobsInv, QueuesInv, StopIndexing \/ OpenDirectory \/ LeaveEventLoop
    PROVE  QueuesInv'
<1>1. /\ UNCHANGED <<jobs, dirWorkers, events, results, processedPaths, fileTargets>>
      /\ UNCHANGED <<scanning, finishedWorkers, paths, runs>>
  BY DEF StopIndexing, OpenDirectory, LeaveEventLoop, scanVars, jobVars, clickVars
<1>2. /\ mainPc' = mainPc \/ (mainPc = "loop" /\ mainPc' = "exited" /\ runs > 0)
      /\ stopToken' = stopToken \/ (StopIndexing /\ stopToken' = TRUE /\ mainPc' = "loop")
  BY DEF StopIndexing, OpenDirectory, LeaveEventLoop, scanVars, RequestCancellation
<1>3. /\ SpareResults' = SpareResults /\ ResultPermits' = ResultPermits
      /\ SpareFiles' = SpareFiles /\ FilePermits' = FilePermits
  <2>1. mainPc = "list" <=> mainPc' = "list"
    BY <1>2
  <2> QED
    BY <1>1, <2>1, BalanceUntouched
<1>4. StopIndexing => runs # 0
  <2>1. ASSUME StopIndexing, runs = 0 PROVE FALSE
    <3>1. jobs = <<>> /\ ~scanning
      BY <2>1 DEF QueuesInv, StagesInv, Nothing, Unscanned, TypeOK
    <3>2. LiveJobs = {}
      BY <3>1 DEF LiveJobs
    <3>3. runningWorkers = 0
      BY <3>2, FS_EmptySet DEF JobsInv, RunningWorkersExact
    <3> QED
      BY <2>1, <3>1, <3>3 DEF StopIndexing, IsRunning
  <2> QED
    BY <2>1
<1>5. StagesInv'
  <2>1. CASE stopToken' = stopToken
    BY <1>1, <1>2, <2>1 DEF QueuesInv, StagesInv, Nothing, Unscanned, TypeOK
  <2>2. CASE stopToken' # stopToken
    BY <1>1, <1>2, <1>4, <2>2 DEF StagesInv
  <2> QED
    BY <2>1, <2>2
<1>6. SpareResults \in Int
  BY BalanceTypes DEF SpareResults
<1>7. PromisesInv'
  <2>1. runs <= 1 => SpareResults >= 0 /\ (~stopToken => SpareResults = 0)
    BY <1>6 DEF QueuesInv, PromisesInv
  <2>2. (runs <= 1 => IF stopToken THEN SpareResults >= 0 ELSE SpareResults = 0)'
    BY <1>1, <1>2, <1>3, <2>1
  <2> QED
    BY <1>1, <1>2, <1>3, <2>2 DEF QueuesInv, PromisesInv
<1>8. PermitsInv'
  BY <1>1, <1>3 DEF QueuesInv, PermitsInv
<1> QED
  BY <1>5, <1>7, <1>8 DEF QueuesInv

LEMMA NextArgumentQueues ==
    ASSUME TypeOK, QueuesInv, NextArgument
    PROVE  QueuesInv'
<1>1. /\ UNCHANGED <<jobs, dirWorkers, events, results, processedPaths, mainPc, runs>>
      /\ UNCHANGED <<stopToken, scanning, finishedWorkers, paths>>
      /\ mainPc = "arguments"
      /\ fileTargets' = fileTargets \/ \E p : fileTargets' = EnqueueOne(fileTargets, p)
  BY DEF NextArgument, scanVars, clickVars
<1>2. SpareResults' = SpareResults /\ ResultPermits' = ResultPermits
  BY <1>1, BalanceUntouched
<1>3. FilePermits' = FilePermits
  <2>1. Freed("files")' = Freed("files")
    BY <1>1, SumsUntouched DEF Freed
  <2>2. CASE fileTargets' = fileTargets
    BY <2>1, <2>2 DEF FilePermits
  <2>3. CASE \E p : fileTargets' = EnqueueOne(fileTargets, p)
    <3>1. PICK p : fileTargets' = EnqueueOne(fileTargets, p)
      BY <2>3
    <3>2. fileTargets.items \in Seq(Paths \cup {p}) /\ Len(fileTargets.items) \in Nat
          /\ fileTargets.avail \in Int /\ Freed("files") \in Int
      BY BalanceTypes
    <3>3. Len(Append(fileTargets.items, p)) = Len(fileTargets.items) + 1
      BY <3>2, AppendProperties
    <3>4. fileTargets'.avail = fileTargets.avail - 1 /\ Len(fileTargets'.items) = Len(fileTargets.items) + 1
      BY <3>1, <3>3 DEF EnqueueOne
    <3> QED
      BY <2>1, <3>2, <3>4 DEF FilePermits
  <2> QED
    BY <1>1, <2>2, <2>3
<1>4. StagesInv'
  BY <1>1 DEF QueuesInv, StagesInv, Nothing, Unscanned
<1>5. PromisesInv'
  BY <1>1, <1>2 DEF QueuesInv, PromisesInv
<1>6. PermitsInv'
  BY <1>1, <1>2, <1>3 DEF QueuesInv, PermitsInv
<1> QED
  BY <1>4, <1>5, <1>6 DEF QueuesInv

LEMMA StartScanQueues ==
    ASSUME TypeOK, JobsInv, QueuesInv, StartScan
    PROVE  QueuesInv'
<1>1. /\ UNCHANGED <<jobs, dirWorkers, events, fileTargets, runs>>
      /\ mainPc = "arguments" /\ todo = <<>>
  BY DEF StartScan, jobVars, clickVars, scanVars, BeginScan
<1>2. \A q : Claimed(q)' = Claimed(q) /\ Freed(q)' = Freed(q)
  BY <1>1, SumsUntouched DEF Claimed, Freed
<1>3. FilePermits' = FilePermits
  BY <1>1, <1>2 DEF FilePermits
<1>4. CASE dirs = <<>>
  <2>1. UNCHANGED scanVars /\ mainPc' = "launch"
    BY <1>4 DEF StartScan
  <2>2. UNCHANGED <<results, processedPaths, stopToken, paths>>
    BY <2>1 DEF scanVars
  <2>3. SpareResults' = SpareResults /\ ResultPermits' = ResultPermits
    BY <1>1, <2>1, <2>2, BalanceUntouched
  <2>4. StagesInv'
    BY <1>1, <2>1 DEF QueuesInv, StagesInv, TypeOK, Nothing, Unscanned, scanVars
  <2>5. PromisesInv'
    BY <1>1, <2>1, <2>2, <2>3 DEF QueuesInv, PromisesInv
  <2>6. PermitsInv'
    BY <1>1, <1>3, <2>2, <2>3 DEF QueuesInv, PermitsInv
  <2> QED
    BY <2>4, <2>5, <2>6 DEF QueuesInv
<1>5. CASE dirs # <<>>
  <2>1. /\ mainPc' = "list" /\ BeginScan(dirs)
        /\ paths' = dirs /\ stopToken' = FALSE /\ finishedWorkers' = 0 /\ processedPaths' = 0
        /\ results' = Clear(results) /\ scanning' = scanning
    BY <1>5 DEF StartScan, BeginScan
  <2>2. results'.items = <<>> /\ results'.avail = results.avail + QueueSize
    BY <2>1 DEF Clear
  <2>3. runs <= 1 => /\ Nothing /\ Unscanned /\ results = EmptyQueue
    BY <1>1 DEF QueuesInv, StagesInv
  <2>4. StagesInv'
    <3>1. (runs <= 1 /\ (runs = 0 \/ mainPc = "arguments") =>
             Nothing /\ Unscanned /\ results = EmptyQueue /\ paths = <<>>)'
      <4>1. runs # 0
        BY <1>1 DEF JobsInv, NothingBeforeRun
      <4> QED
        BY <1>1, <2>1, <4>1
    <3>2. (runs <= 1 /\ mainPc = "list" =>
             Nothing /\ Unscanned /\ paths # <<>> /\ processedPaths = Len(results.items))'
      <4>1. Len(<<>>) = 0
        OBVIOUS
      <4> QED
        BY <1>1, <1>5, <2>1, <2>2, <2>3, <4>1 DEF Nothing, Unscanned
    <3>3. (mainPc \notin {"loop", "exited"} =>
             \A j \in DOMAIN jobs : jobs[j].pc \in {"queued", "take"} => jobs[j].queue = "results")'
      BY <1>1 DEF QueuesInv, StagesInv
    <3> QED
      BY <2>1, <3>1, <3>2, <3>3 DEF StagesInv
  <2>5. runs <= 1 => SpareResults' = 0 /\ ResultPermits' = 2 * QueueSize
    <3>1. SUFFICES ASSUME runs <= 1 PROVE SpareResults' = 0 /\ ResultPermits' = 2 * QueueSize
      OBVIOUS
    <3>2. jobs = <<>> /\ events = <<>> /\ dirWorkers = <<>> /\ results = EmptyQueue
      BY <2>3, <3>1 DEF Nothing
    <3>3. /\ Claimed("results") = 0 /\ Freed("results") = 0
          /\ AnnouncedByEvents = 0 /\ ReservedResults = 0
          /\ Sum(Collected({"progress", "lastProgress"})) = 0
      BY <3>2, SumTypes DEF Claimed, Freed, ReservedResults
    <3>4. /\ AnnouncedByEvents' = 0 /\ ReservedResults' = 0
          /\ Sum(Collected({"progress", "lastProgress"}))' = 0
      BY <1>1, <3>3, SumsUntouched DEF ReservedResults
    <3>5. AboutToBeAnnounced' = 0
      BY <2>1, <3>4 DEF AboutToBeAnnounced
    <3>6. Len(results'.items) = 0 /\ results'.avail = QueueSize + QueueSize
      BY <2>2, <3>2 DEF EmptyQueue
    <3>7. SpareResults' = 0
      BY <1>2, <3>3, <3>4, <3>5, <3>6 DEF SpareResults
    <3>8. ResultPermits' = 2 * QueueSize
      BY <1>2, <3>3, <3>4, <3>6, QueueSizeAssumption DEF ResultPermits
    <3> QED
      BY <3>7, <3>8
  <2>6. PromisesInv'
    BY <1>1, <2>1, <2>5 DEF QueuesInv, PromisesInv
  <2>7. PermitsInv'
    BY <1>1, <1>3, <1>5, <2>1, <2>5 DEF QueuesInv, PermitsInv
  <2> QED
    BY <2>4, <2>6, <2>7 DEF QueuesInv
<1> QED
  BY <1>4, <1>5

LEMMA NextEntryQueues ==
    ASSUME TypeOK, JobsInv, QueuesInv, NextEntry
    PROVE  QueuesInv'
<1>1. /\ UNCHANGED <<jobs, dirWorkers, events, fileTargets, runs, mainPc>>
      /\ UNCHANGED <<stopToken, scanning, finishedWorkers, paths>>
      /\ mainPc = "list"
      /\ ListEntry(Head(entries))
  BY DEF NextEntry, jobVars, clickVars, ListEntry
<1>2. /\ \A q : Claimed(q)' = Claimed(q) /\ Freed(q)' = Freed(q)
      /\ AnnouncedByEvents' = AnnouncedByEvents /\ ReservedResults' = ReservedResults
      /\ Sum(Collected({"progress", "lastProgress"}))' = Sum(Collected({"progress", "lastProgress"}))
  BY <1>1, SumsUntouched DEF Claimed, Freed, ReservedResults
<1>3. FilePermits' = FilePermits
  BY <1>1, <1>2 DEF FilePermits
<1>4. \/ UNCHANGED <<results, processedPaths>>
      \/ /\ results' = EnqueueOne(results, Head(entries))
         /\ processedPaths' = processedPaths + 1
  BY <1>1 DEF ListEntry
<1>5. /\ SpareResults' = SpareResults /\ ResultPermits' = ResultPermits
      /\ processedPaths' - Len(results'.items) = processedPaths - Len(results.items)
      /\ processedPaths' \in Int /\ Len(results'.items) \in Int
  <2>1. CASE UNCHANGED <<results, processedPaths>>
    BY <1>1, <2>1, BalanceUntouched, BalanceTypes
  <2>2. CASE results' = EnqueueOne(results, Head(entries)) /\ processedPaths' = processedPaths + 1
    <3>1. PICK p : p = Head(entries)
      OBVIOUS
    <3>2. results.items \in Seq(Paths \cup {p}) /\ Len(results.items) \in Nat /\ results.avail \in Int
      BY BalanceTypes
    <3>3. Len(Append(results.items, p)) = Len(results.items) + 1
      BY <3>2, AppendProperties
    <3>4. results'.avail = results.avail - 1 /\ Len(results'.items) = Len(results.items) + 1
      BY <2>2, <3>1, <3>3 DEF EnqueueOne
    <3>5. /\ AboutToBeAnnounced = Sum(Collected({"progress", "lastProgress"})) + processedPaths
          /\ AboutToBeAnnounced' = Sum(Collected({"progress", "lastProgress"})) + processedPaths'
      BY <1>1, <1>2 DEF AboutToBeAnnounced
    <3>6. /\ Sum(Collected({"progress", "lastProgress"})) \in Int /\ processedPaths \in Nat
          /\ Claimed("results") \in Int /\ AnnouncedByEvents \in Int
          /\ ReservedResults \in Int /\ Freed("results") \in Int
      BY BalanceTypes, SumTypes
    <3>7. AboutToBeAnnounced' = AboutToBeAnnounced + 1 /\ AboutToBeAnnounced \in Int
      BY <2>2, <3>5, <3>6
    <3>10. PICK m \in Int : m = Len(results.items)
      BY <3>2
    <3>11. PICK c \in Int : c = Claimed("results") + AnnouncedByEvents
      BY <3>6
    <3>12. PICK f \in Int : f = ReservedResults - Freed("results")
      BY <3>6
    <3>8. SpareResults' = SpareResults
      <4>1. SpareResults' = (m + 1) - (c + AboutToBeAnnounced')
        BY <1>2, <3>4, <3>10, <3>11 DEF SpareResults
      <4>2. SpareResults = m - (c + AboutToBeAnnounced)
        BY <3>10, <3>11 DEF SpareResults
      <4> QED
        BY <3>7, <4>1, <4>2
    <3>9. ResultPermits' = ResultPermits
      <4>1. ResultPermits' = ((results.avail - 1) + (m + 1)) + f
        <5>1. ResultPermits' = (results'.avail + Len(results'.items) + ReservedResults) - Freed("results")
          BY <1>2 DEF ResultPermits
        <5> QED
          BY <3>2, <3>4, <3>6, <3>10, <3>12, <5>1
      <4>2. ResultPermits = (results.avail + m) + f
        BY <3>2, <3>6, <3>10, <3>12 DEF ResultPermits
      <4> QED
        BY <3>2, <4>1, <4>2
    <3>13. PICK k \in Int : k = processedPaths
      BY <3>6
    <3>14. Len(results'.items) = m + 1 /\ processedPaths' = k + 1
      BY <2>2, <3>4, <3>10, <3>13
    <3>15. processedPaths' - Len(results'.items) = processedPaths - Len(results.items)
      BY <3>10, <3>13, <3>14
    <3> QED
      BY <3>8, <3>9, <3>14, <3>15
  <2> QED
    BY <1>4, <2>1, <2>2
<1>6. StagesInv'
  <2>1. runs # 0
    BY <1>1 DEF JobsInv, NothingBeforeRun
  <2>2. runs <= 1 => /\ Nothing /\ Unscanned /\ paths # <<>> /\ processedPaths = Len(results.items)
    BY <1>1 DEF QueuesInv, StagesInv
  <2>3. runs <= 1 => processedPaths' = Len(results'.items)
    BY <1>5, <2>2, BalanceTypes
  <2>4. \A j \in DOMAIN jobs : jobs[j].pc \in {"queued", "take"} => jobs[j].queue = "results"
    BY <1>1 DEF QueuesInv, StagesInv
  <2> QED
    BY <1>1, <2>1, <2>2, <2>3, <2>4 DEF StagesInv, Nothing, Unscanned
<1>7. PromisesInv'
  BY <1>1, <1>5 DEF QueuesInv, PromisesInv
<1>8. PermitsInv'
  BY <1>1, <1>3, <1>5 DEF QueuesInv, PermitsInv
<1> QED
  BY <1>6, <1>7, <1>8 DEF QueuesInv

LEMMA AnnounceQueues ==
    ASSUME TypeOK, JobsInv, QueuesInv, AnnounceFirstLevel
    PROVE  QueuesInv'
<1>1. /\ UNCHANGED <<dirWorkers, events, fileTargets, runs, results>>
      /\ UNCHANGED <<stopToken, scanning, finishedWorkers, paths, processedPaths>>
      /\ mainPc = "list" /\ mainPc' = "spawn"
      /\ LaunchWorker("results", processedPaths)
  BY DEF AnnounceFirstLevel, clickVars, scanVars
<1>2. processedPaths \in Nat
  BY BalanceTypes
<1>3. /\ Claimed("results")' = Claimed("results") + processedPaths
      /\ Claimed("files")' = Claimed("files")
      /\ \A q : Freed(q)' = Freed(q)
      /\ \A j \in DOMAIN jobs' : jobs'[j].size >= 0
      /\ \A j \in DOMAIN jobs' : \/ j \in DOMAIN jobs /\ jobs'[j] = jobs[j]
                                 \/ jobs'[j] = NewJob("results", processedPaths)
  BY <1>1, <1>2, LaunchBalance DEF QueuesInv, PromisesInv
<1>4. /\ AnnouncedByEvents' = AnnouncedByEvents /\ ReservedResults' = ReservedResults
      /\ Sum(Collected({"progress", "lastProgress"}))' = Sum(Collected({"progress", "lastProgress"}))
  BY <1>1, SumsUntouched DEF ReservedResults
<1>5. /\ AboutToBeAnnounced = Sum(Collected({"progress", "lastProgress"})) + processedPaths
      /\ AboutToBeAnnounced' = Sum(Collected({"progress", "lastProgress"})) + 0
  BY <1>1, <1>4 DEF AboutToBeAnnounced
<1>6. /\ Sum(Collected({"progress", "lastProgress"})) \in Int /\ Claimed("results") \in Int
      /\ AnnouncedByEvents \in Int /\ Len(results.items) \in Int
  BY BalanceTypes, SumTypes
<1>7. AboutToBeAnnounced \in Int /\ AboutToBeAnnounced' = AboutToBeAnnounced - processedPaths
  BY <1>2, <1>5, <1>6
<1>8. SpareResults' = SpareResults
  BY <1>1, <1>2, <1>3, <1>4, <1>6, <1>7 DEF SpareResults
<1>9. ResultPermits' = ResultPermits /\ FilePermits' = FilePermits
  BY <1>1, <1>3, <1>4 DEF ResultPermits, FilePermits
<1>10. StagesInv'
  <2>1. runs # 0
    BY <1>1 DEF JobsInv, NothingBeforeRun
  <2>2. runs <= 1 => Unscanned
    BY <1>1 DEF QueuesInv, StagesInv
  <2>3. \A j \in DOMAIN jobs' : jobs'[j].pc \in {"queued", "take"} => jobs'[j].queue = "results"
    BY <1>1, <1>3 DEF QueuesInv, StagesInv, NewJob
  <2> QED
    BY <1>1, <2>1, <2>2, <2>3 DEF StagesInv, Unscanned
<1>11. PromisesInv'
  BY <1>1, <1>3, <1>8 DEF QueuesInv, PromisesInv
<1>12. PermitsInv'
  BY <1>1, <1>9 DEF QueuesInv, PermitsInv
<1> QED
  BY <1>10, <1>11, <1>12 DEF QueuesInv

\* Workers that have just been started have collected nothing.
LEMMA NothingCollected ==
    ASSUME dirWorkers' \in Seq(DirWorker), \A w \in DOMAIN dirWorkers' : dirWorkers'[w].pc = "queued"
    PROVE  /\ Sum(Collected(Announcing))' = 0
           /\ Sum(Collected(Reserving))' = 0
<1>1. PICK ws \in Seq(DirWorker) : ws = dirWorkers'
  OBVIOUS
<1>2. ASSUME NEW pcs \in {Announcing, Reserving}
      PROVE  Sum([w \in DOMAIN ws |-> IF ws[w].pc \in pcs THEN Len(ws[w].found) ELSE 0]) = 0
  <2> DEFINE g == Collections(pcs)
  <2>1. g \in [DirWorker -> Int]
    BY WeightTypes
  <2>2. ASSUME NEW w \in DOMAIN ws PROVE g[ws[w]] = 0
    <3>1. ws[w] \in DirWorker /\ ws[w].pc = "queued"
      BY <1>1, ElementOfSeq, LenProperties
    <3>2. ws[w].pc \notin pcs
      BY <3>1 DEF Announcing, Reserving
    <3> QED
      BY <3>1, <3>2 DEF Collections, Collection
  <2>3. Weigh(g, ws) = Sum([w \in DOMAIN ws |-> IF ws[w].pc \in pcs THEN Len(ws[w].found) ELSE 0])
    BY CollectionsWeigh
  <2> HIDE DEF g
  <2>4. Weigh(g, ws) = 0
    BY <2>1, <2>2, WeighNaturals
  <2> QED
    BY <2>3, <2>4
<1> QED
  BY <1>1, <1>2 DEF Collected

LEMMA SpawnQueues ==
    ASSUME TypeOK, JobsInv, QueuesInv, SpawnOrComplete
    PROVE  QueuesInv'
<1>1. /\ UNCHANGED <<jobs, events, fileTargets, runs>>
      /\ UNCHANGED <<results, stopToken, paths, processedPaths>>
      /\ mainPc = "spawn" /\ mainPc' = "launch"
  BY Spawned DEF SpawnOrComplete, jobVars, clickVars
<1>2. /\ \A q : Claimed(q)' = Claimed(q) /\ Freed(q)' = Freed(q)
      /\ AnnouncedByEvents' = AnnouncedByEvents
  BY <1>1, SumsUntouched DEF Claimed, Freed
<1>3. FilePermits' = FilePermits
  BY <1>1, <1>2 DEF FilePermits
<1>4. runs <= 1 => SpareResults' = SpareResults /\ ResultPermits' = ResultPermits
  <2>1. SUFFICES ASSUME runs <= 1 PROVE SpareResults' = SpareResults /\ ResultPermits' = ResultPermits
    OBVIOUS
  <2>2. dirWorkers = <<>>
    BY <1>1, <2>1 DEF QueuesInv, StagesInv, Unscanned
  <2>3. Sum(Collected(Announcing)) = 0 /\ Sum(Collected(Reserving)) = 0
    BY <2>2, SumTypes
  <2>4. dirWorkers' \in Seq(DirWorker) /\ \A w \in DOMAIN dirWorkers' : dirWorkers'[w].pc = "queued"
    BY <2>2, Spawned DEF QueuedDirWorker
  <2>5. Sum(Collected(Announcing))' = 0 /\ Sum(Collected(Reserving))' = 0
    BY <2>4, NothingCollected
  <2>6. AboutToBeAnnounced' = AboutToBeAnnounced
    BY <1>1, <2>3, <2>5 DEF AboutToBeAnnounced, Announcing
  <2>7. ReservedResults' = ReservedResults
    BY <2>3, <2>5 DEF ReservedResults, Reserving
  <2> QED
    BY <1>1, <1>2, <2>6, <2>7 DEF SpareResults, ResultPermits
<1>5. StagesInv'
  <2>1. runs # 0
    BY <1>1 DEF JobsInv, NothingBeforeRun
  <2> QED
    BY <1>1, <2>1 DEF QueuesInv, StagesInv
<1>6. PromisesInv'
  BY <1>1, <1>4 DEF QueuesInv, PromisesInv
<1>7. PermitsInv'
  BY <1>1, <1>3, <1>4 DEF QueuesInv, PermitsInv
<1> QED
  BY <1>5, <1>6, <1>7 DEF QueuesInv

\* beginIndexing's last job is told to take what remaining() says: at this point, that is
\* exactly what is in the queue.
LEMMA LaunchQueues ==
    ASSUME TypeOK, JobsInv, QueuesInv, LaunchFileTargets
    PROVE  QueuesInv'
<1>1. /\ UNCHANGED <<dirWorkers, events, fileTargets, runs, results>>
      /\ UNCHANGED <<stopToken, paths, processedPaths>>
      /\ mainPc = "launch" /\ mainPc' = "loop"
      /\ LaunchWorker("files", Remaining(fileTargets))
  BY DEF LaunchFileTargets, clickVars, scanVars
<1>2. Claimed("files") = 0 /\ Freed("files") = 0
  <2>1. \A j \in DOMAIN jobs : jobs[j].pc \in {"queued", "take"} => jobs[j].queue # "files"
    BY <1>1 DEF QueuesInv, StagesInv
  <2> QED
    BY <2>1, NoneWaiting
<1>3. Remaining(fileTargets) = Len(fileTargets.items) /\ Len(fileTargets.items) \in Nat
  <2>1. (fileTargets.avail + Len(fileTargets.items)) - 0 = QueueSize
    BY <1>2 DEF QueuesInv, PermitsInv, FilePermits
  <2> QED
    BY <2>1, BalanceTypes DEF Remaining
<1>4. /\ Claimed("files")' = Claimed("files") + Len(fileTargets.items)
      /\ Claimed("results")' = Claimed("results")
      /\ \A q : Freed(q)' = Freed(q)
      /\ \A j \in DOMAIN jobs' : jobs'[j].size >= 0
  <2>1. PICK n \in Nat : n = Len(fileTargets.items)
    BY <1>3
  <2>2. LaunchWorker("files", n)
    BY <1>1, <1>3, <2>1
  <2> QED
    BY <2>1, <2>2, LaunchBalance DEF QueuesInv, PromisesInv
<1>5. /\ AnnouncedByEvents' = AnnouncedByEvents /\ ReservedResults' = ReservedResults
      /\ AboutToBeAnnounced' = AboutToBeAnnounced
  BY <1>1, SumsUntouched DEF ReservedResults, AboutToBeAnnounced
<1>6. SpareResults' = SpareResults /\ ResultPermits' = ResultPermits
  BY <1>1, <1>4, <1>5 DEF SpareResults, ResultPermits
<1>7. FilePermits' = FilePermits
  BY <1>1, <1>4 DEF FilePermits
<1>8. SpareFiles' = 0
  BY <1>1, <1>2, <1>3, <1>4 DEF SpareFiles
<1>9. StagesInv'
  <2>1. runs # 0
    BY <1>1 DEF JobsInv, NothingBeforeRun
  <2> QED
    BY <1>1, <2>1 DEF StagesInv
<1>10. PromisesInv'
  BY <1>1, <1>4, <1>6, <1>8 DEF QueuesInv, PromisesInv
<1>11. PermitsInv'
  BY <1>1, <1>6, <1>7 DEF QueuesInv, PermitsInv
<1> QED
  BY <1>9, <1>10, <1>11 DEF QueuesInv

LEMMA InitQueues == Init => EndsInv /\ QueuesInv
<1> SUFFICES ASSUME Init PROVE EndsInv /\ QueuesInv
  OBVIOUS
<1>1. /\ jobs = <<>> /\ events = <<>> /\ dirWorkers = <<>> /\ mainPc = "loop" /\ runs = 0
      /\ results = EmptyQueue /\ fileTargets = EmptyQueue /\ paths = <<>>
      /\ finishedWorkers = 0 /\ ~scanning /\ ~stopToken
  BY DEF Init, DirScannerInit
<1>2. TypeOK
  BY InitTypeOK
<1>3. DOMAIN events = {} /\ DOMAIN jobs = {}
  BY <1>1
<1>4. EndsInv
  BY <1>3 DEF EndsInv, EndsPosted, EndsOnce, EndsLast
<1>5. StagesInv
  BY <1>1 DEF StagesInv, Nothing, Unscanned
<1>6. /\ \A q : Claimed(q) = 0 /\ Freed(q) = 0
      /\ AnnouncedByEvents = 0 /\ ReservedResults = 0
      /\ Sum(Collected({"progress", "lastProgress"})) = 0
  BY <1>1, <1>2, SumTypes DEF Claimed, Freed, ReservedResults
<1>7. AboutToBeAnnounced = 0
  BY <1>1, <1>6 DEF AboutToBeAnnounced
<1>8. EmptyQueue.items = <<>> /\ EmptyQueue.avail = QueueSize /\ Len(EmptyQueue.items) = 0
  BY DEF EmptyQueue
<1>9. SpareResults = 0 /\ SpareFiles = 0
  BY <1>1, <1>6, <1>7, <1>8 DEF SpareResults, SpareFiles
<1>10. ResultPermits = QueueSize /\ FilePermits = QueueSize
  BY <1>1, <1>6, <1>8, QueueSizeAssumption DEF ResultPermits, FilePermits
<1>11. PromisesInv
  BY <1>1, <1>3, <1>9 DEF PromisesInv
<1>12. PermitsInv
  BY <1>1, <1>10 DEF PermitsInv
<1> QED
  BY <1>4, <1>5, <1>11, <1>12 DEF QueuesInv

LEMMA NextQueues == TypeOK /\ JobsInv /\ EndsInv /\ QueuesInv /\ [Next]_vars => QueuesInv'
<1> SUFFICES ASSUME TypeOK, JobsInv, EndsInv, QueuesInv, [Next]_vars PROVE QueuesInv'
  OBVIOUS
<1>1. CASE UNCHANGED vars
  <2>1. /\ UNCHANGED <<jobs, dirWorkers, events, results, processedPaths, fileTargets>>
        /\ UNCHANGED <<stopToken, scanning, finishedWorkers, paths, mainPc, runs>>
    BY <1>1 DEF vars, scanVars, jobVars, mainVars
  <2>2. /\ SpareResults' = SpareResults /\ ResultPermits' = ResultPermits
        /\ SpareFiles' = SpareFiles /\ FilePermits' = FilePermits
    BY <2>1, BalanceUntouched
  <2> QED
    BY <2>1, <2>2 DEF QueuesInv, StagesInv, Nothing, Unscanned, PromisesInv, PermitsInv
<1>2. CASE \E w \in DOMAIN dirWorkers : DirWorkerThread(w)
  BY <1>2, WorkerQueues
<1>3. CASE \E j \in DOMAIN jobs : JobStep(j)
  BY <1>3, JobQueues
<1>4. CASE BeginIndexing \/ StopIndexing \/ MainStep
  BY <1>4, BeginQueues, QuietQueues, NextArgumentQueues, StartScanQueues, NextEntryQueues,
     AnnounceQueues, SpawnQueues, LaunchQueues, HandlerQueues DEF MainStep
<1> QED
  BY <1>1, <1>2, <1>3, <1>4 DEF Next

LEMMA QueuesInvariant == Spec => [](TypeOK /\ JobsInv /\ EndsInv /\ QueuesInv)
<1>1. Init => TypeOK /\ JobsInv /\ EndsInv /\ QueuesInv
  BY InitTypeOK, InitJobsInv, InitQueues
<1>2. TypeOK /\ JobsInv /\ EndsInv /\ QueuesInv /\ [Next]_vars
        => (TypeOK /\ JobsInv /\ EndsInv /\ QueuesInv)'
  BY NextTypeOK, NextJobsInv, NextEnds, NextQueues
<1> QED
  BY <1>1, <1>2, PTL DEF Spec

\* Every batch that a job or a signal stands for is in the queue, and unless the scan was
\* stopped nothing else is: what dirscanworker.cpp:54-55 enqueues and announces is what
\* indexer.cpp:63,108 promises and filescanworker.cpp:16 takes.  The first conjunct is about
\* the first run: clear() keeps later ones from it.
THEOREM BatchesCorrect == Spec => []BatchesAreBacked
<1>1. TypeOK /\ QueuesInv => BatchesAreBacked
  <2> SUFFICES ASSUME TypeOK, QueuesInv PROVE BatchesAreBacked
    OBVIOUS
  <2>1. /\ Claimed("files") \in Int /\ Claimed("results") \in Int /\ AnnouncedByEvents \in Int
        /\ AboutToBeAnnounced \in Int /\ Len(results.items) \in Int /\ Len(fileTargets.items) \in Int
    BY BalanceTypes
  <2>2. PICK n \in Int : n = Claimed("results") + AnnouncedByEvents + AboutToBeAnnounced
    BY <2>1
  <2>3. SpareResults = Len(results.items) - n
    BY <2>2 DEF SpareResults
  <2>4. runs <= 1 => IF stopToken THEN n <= Len(results.items) ELSE n = Len(results.items)
    BY <2>1, <2>3 DEF QueuesInv, PromisesInv
  <2>5. mainPc = "loop" => Claimed("files") = Len(fileTargets.items)
    BY <2>1 DEF QueuesInv, PromisesInv, SpareFiles
  <2> QED
    BY <2>2, <2>4, <2>5 DEF BatchesAreBacked
<1> QED
  BY <1>1, QueuesInvariant, PTL

\* The permits of the semaphore and the elements of the list always add up, whatever
\* threads are between the two halves of enqueue or dequeue (concurrentqueue.h:24-26,38-40).
THEOREM PermitsCorrect == Spec => []PermitsConserved
<1>1. TypeOK /\ QueuesInv => PermitsConserved
  <2> SUFFICES ASSUME TypeOK, QueuesInv PROVE PermitsConserved
    OBVIOUS
  <2>1. /\ \A q : Freed(q) \in Int
        /\ ReservedResults \in Int
        /\ Len(results.items) \in Int /\ Len(fileTargets.items) \in Int
        /\ results.avail \in Int /\ fileTargets.avail \in Int
    BY BalanceTypes
  <2>2. results.avail + Len(results.items) + ReservedResults - Freed("results") = ResultPermits
    BY <2>1 DEF ResultPermits
  <2>3. fileTargets.avail + Len(fileTargets.items) - Freed("files") = FilePermits
    BY <2>1 DEF FilePermits
  <2> QED
    BY <2>2, <2>3 DEF PermitsConserved, QueuesInv, PermitsInv
<1> QED
  BY <1>1, QueuesInvariant, PTL

\* A job that takes its batch without looking (concurrentqueue.h:28-31) finds it in the
\* queue: for the argument files in every run, for the scanned ones in the first.
NeverUnderflows ==
    \A j \in DOMAIN jobs : jobs[j].pc = "take" =>
        /\ jobs[j].queue = "files" => Holds(fileTargets, jobs[j].size)
        /\ jobs[j].queue = "results" /\ runs <= 1 => Holds(results, jobs[j].size)
THEOREM TakingIsSafe == Spec => []NeverUnderflows
<1>1. TypeOK /\ QueuesInv => NeverUnderflows
  BY BatchIsThere DEF NeverUnderflows
<1> QED
  BY <1>1, QueuesInvariant, PTL

----------------------------------------------------------------------------
(* The end of the first run. *)

DoneWorkers == {w \in DOMAIN dirWorkers : dirWorkers[w].pc = "done"}

\* The scanner counts the workers whose finished signal was handled, and runs until it
\* has handled them all.
ScanCount ==
    /\ mainPc \in {"launch", "loop", "exited"} => Len(dirWorkers) = ThreadsNum
    /\ finishedWorkers = Cardinality(DoneWorkers)
ScanRuns ==
    ~stopToken /\ mainPc \in {"launch", "loop", "exited"} =>
       (scanning <=> finishedWorkers # ThreadsNum)
ScanInv == runs <= 1 => (stopToken => cancelled) /\ ScanCount /\ ScanRuns

\* When the first run finishes by itself nothing is left of it.
RestInv ==
    /\ mainPc \notin {"loop", "exited"} => phase = "indexing"
    /\ runs = 1 /\ phase = "idle" /\ ~cancelled =>
         LiveJobs = {} /\ \A w \in DOMAIN dirWorkers : dirWorkers[w].pc = "done"
    /\ ~Gui => runs <= 1
    /\ mainPc = "exited" => phase = "idle" /\ runs >= 1 /\ ~Gui

FinishInv == ScanInv /\ RestInv

LEMMA DoneFinite ==
    ASSUME TypeOK
    PROVE  /\ IsFiniteSet(DoneWorkers)
           /\ Cardinality(DoneWorkers) \in Nat
           /\ Cardinality(DoneWorkers) <= Len(dirWorkers)
           /\ Cardinality(DoneWorkers) = Len(dirWorkers) <=>
                \A w \in DOMAIN dirWorkers : dirWorkers[w].pc = "done"
<1>1. DOMAIN dirWorkers = 1..Len(dirWorkers) /\ Len(dirWorkers) \in Nat
  <2>1. dirWorkers \in Seq(DirWorker)
    BY DEF TypeOK
  <2> QED
    BY <2>1, LenProperties
<1> DEFINE All == 1..Len(dirWorkers)
<1>2. All = DOMAIN dirWorkers
  BY <1>1
<1>3. IsFiniteSet(All) /\ Cardinality(All) = Len(dirWorkers)
  <2>1. PICK n \in Nat : n = Len(dirWorkers)
    BY <1>1
  <2>2. IsFiniteSet(1..n) /\ Cardinality(1..n) = n
    BY FS_Interval
  <2> QED
    BY <2>1, <2>2
<1> HIDE DEF All
<1>4. DoneWorkers \in SUBSET All
  BY <1>2 DEF DoneWorkers
<1>5. /\ IsFiniteSet(DoneWorkers)
      /\ Cardinality(DoneWorkers) <= Len(dirWorkers)
      /\ Cardinality(DoneWorkers) = Len(dirWorkers) => All = DoneWorkers
  BY <1>3, <1>4, FS_Subset
<1>6. Cardinality(DoneWorkers) \in Nat
  BY <1>5, FS_CardinalityType
<1>7. All = DoneWorkers <=> \A w \in DOMAIN dirWorkers : dirWorkers[w].pc = "done"
  BY <1>2 DEF DoneWorkers
<1> QED
  BY <1>3, <1>5, <1>6, <1>7

\* Steps that leave alone whatever FinishInv is about, but may cancel.
LEMMA FinishUntouched ==
    ASSUME FinishInv,
           UNCHANGED <<paths, finishedWorkers, scanning, dirWorkers, jobs, runs, phase>>,
           UNCHANGED <<stopToken, cancelled>> \/ (stopToken' /\ cancelled'),
           mainPc' = mainPc
    PROVE  FinishInv'
<1>1. UNCHANGED <<DoneWorkers, ThreadsNum, LiveJobs>>
  BY DEF DoneWorkers, ThreadsNum, LiveJobs
<1>2. ScanInv'
  BY <1>1 DEF FinishInv, ScanInv, ScanCount, ScanRuns
<1>3. RestInv'
  BY <1>1 DEF FinishInv, RestInv
<1> QED
  BY <1>2, <1>3 DEF FinishInv

LEMMA WorkerFinish ==
    ASSUME TypeOK, FinishInv, NEW w \in DOMAIN dirWorkers, DirWorkerThread(w)
    PROVE  FinishInv'
<1>1. /\ UNCHANGED <<stopToken, finishedWorkers, processedPaths, scanning, paths>>
      /\ UNCHANGED <<jobVars, mainVars>>
  BY WorkerStep
<1>2. UNCHANGED <<jobs, mainPc, runs, paths, stopToken, cancelled, phase>>
  BY <1>1 DEF jobVars, mainVars
<1>3. PICK worker \in DirWorker :
         \/ Works(w, worker) \/ Reserves(w, worker) \/ Appends(w, worker)
         \/ Announces(w, worker) \/ Finishes(w, worker)
  BY WorkerStep
<1>4. /\ dirWorkers' = [dirWorkers EXCEPT ![w] = worker]
      /\ dirWorkers[w].pc # "done" /\ worker.pc # "done"
  BY <1>3 DEF Works, Reserves, Appends, Announces, Finishes, Moves,
              Elsewhere, Reserving, Announcing, Ended
<1>5. DoneWorkers' = DoneWorkers
  BY <1>4 DEF DoneWorkers
<1>6. Len(dirWorkers') = Len(dirWorkers)
  <2>1. dirWorkers \in Seq(DirWorker)
    BY WorkerAt
  <2>2. dirWorkers' \in Seq(DirWorker) /\ DOMAIN dirWorkers' = DOMAIN dirWorkers
    BY <1>4, <2>1, SeqUpdate
  <2>3. /\ DOMAIN dirWorkers = 1..Len(dirWorkers) /\ Len(dirWorkers) \in Nat
        /\ DOMAIN dirWorkers' = 1..Len(dirWorkers') /\ Len(dirWorkers') \in Nat
    BY <2>1, <2>2, LenProperties
  <2> QED
    BY <2>2, <2>3
<1>7. ThreadsNum' = ThreadsNum /\ LiveJobs' = LiveJobs
  BY <1>1, <1>2 DEF ThreadsNum, LiveJobs
<1>8. ScanInv'
  BY <1>1, <1>2, <1>5, <1>6, <1>7 DEF FinishInv, ScanInv, ScanCount, ScanRuns
<1>9. RestInv'
  BY <1>2, <1>4, <1>7 DEF FinishInv, RestInv
<1> QED
  BY <1>8, <1>9 DEF FinishInv

LEMMA JobFinish ==
    ASSUME TypeOK, FinishInv, NEW j \in DOMAIN jobs, JobStep(j)
    PROVE  FinishInv'
<1>1. UNCHANGED <<targets, mainScanVars, dirWorkers, runningWorkers, counts, mainVars>>
  BY StepOfJob
<1>2. UNCHANGED <<mainPc, runs, paths, stopToken, scanning, finishedWorkers, dirWorkers,
                  cancelled, phase>>
  BY <1>1 DEF mainVars, mainScanVars
<1>3. PICK job \in Job : Starts(j, job) \/ Takes(j, job) \/ Underflows(j, job) \/ Proceeds(j, job)
  BY StepOfJob
<1>4. jobs[j].pc # "done"
  BY <1>3 DEF Starts, Takes, Underflows, Proceeds, Becomes
<1>5. LiveJobs # {}
  BY <1>4 DEF LiveJobs
<1>6. ThreadsNum' = ThreadsNum /\ DoneWorkers' = DoneWorkers
  BY <1>2 DEF ThreadsNum, DoneWorkers
<1>7. ScanInv'
  BY <1>2, <1>6 DEF FinishInv, ScanInv, ScanCount, ScanRuns
<1>8. RestInv'
  BY <1>2, <1>5 DEF FinishInv, RestInv
<1> QED
  BY <1>7, <1>8 DEF FinishInv

\* A scan that was not stopped is over when its last worker is, and the run when its last
\* job is too.
LEMMA DirFinishedFinish ==
    ASSUME TypeOK, JobsInv, EndsInv, FinishInv, HandleDirFinished
    PROVE  FinishInv'
<1> DEFINE w == Head(events).worker
           over == [pc |-> "done", left |-> <<>>, found |-> <<>>]
<1>1. /\ events # <<>> /\ events' = Tail(events) /\ Head(events).type = "dirFinished"
      /\ mainPc = "loop"
      /\ UNCHANGED <<stopToken, paths, jobs, cancelled, mainPc, runs>>
      /\ finishedWorkers' = finishedWorkers + 1
      /\ scanning' = IF ScanIsComplete THEN FALSE ELSE scanning
      /\ dirWorkers' = [dirWorkers EXCEPT ![w] = over]
      /\ IF ScanIsComplete /\ runningWorkers = 0 THEN EmitFinished ELSE DoNotFinish
  BY DEF HandleDirFinished, Handling, CountDirFinish, MoveDir
<1>2. w \in DOMAIN dirWorkers /\ dirWorkers[w].pc = "posted"
  BY <1>1, TailEvents DEF EndsInv, EndsPosted
<1>3. over.pc = "done"
  OBVIOUS
<1>4. TypeOK'
  BY HandlerTypeOK
<1> HIDE DEF w, over
<1>5. /\ DOMAIN dirWorkers' = DOMAIN dirWorkers /\ dirWorkers'[w] = over
      /\ \A v \in DOMAIN dirWorkers : v # w => dirWorkers'[v] = dirWorkers[v]
  BY <1>1, <1>2
<1>6. DoneWorkers' = DoneWorkers \cup {w} /\ w \notin DoneWorkers
  BY <1>2, <1>3, <1>5 DEF DoneWorkers
<1>7. Cardinality(DoneWorkers') = Cardinality(DoneWorkers) + 1
  BY <1>6, DoneFinite, FS_AddElement
<1>8. Len(dirWorkers') = Len(dirWorkers) /\ Len(dirWorkers) \in Nat
  <2>1. dirWorkers \in Seq(DirWorker) /\ dirWorkers' \in Seq(DirWorker)
    BY <1>4 DEF TypeOK
  <2>2. /\ DOMAIN dirWorkers = 1..Len(dirWorkers) /\ Len(dirWorkers) \in Nat
        /\ DOMAIN dirWorkers' = 1..Len(dirWorkers') /\ Len(dirWorkers') \in Nat
    BY <2>1, LenProperties
  <2> QED
    BY <1>5, <2>2
<1>9. ThreadsNum' = ThreadsNum /\ LiveJobs' = LiveJobs
  BY <1>1 DEF ThreadsNum, LiveJobs
<1>10. /\ Cardinality(DoneWorkers') <= Len(dirWorkers')
       /\ Cardinality(DoneWorkers') = Len(dirWorkers') =>
            \A v \in DOMAIN dirWorkers' : dirWorkers'[v].pc = "done"
  <2>1. PICK ws \in Seq(DirWorker) : ws = dirWorkers'
    BY <1>4 DEF TypeOK
  <2>2. DOMAIN ws = 1..Len(ws) /\ Len(ws) \in Nat
    BY <2>1, LenProperties
  <2>3. PICK D : D = {v \in DOMAIN ws : ws[v].pc = "done"}
    OBVIOUS
  <2>4. PICK all : all = 1..Len(ws)
    OBVIOUS
  <2>5. IsFiniteSet(all) /\ Cardinality(all) = Len(ws) /\ D \in SUBSET all
    BY <2>2, <2>3, <2>4, FS_Interval
  <2>6. Cardinality(D) <= Len(ws) /\ (Cardinality(D) = Len(ws) => all = D)
    BY <2>5, FS_Subset
  <2>7. DoneWorkers' = D
    BY <2>1, <2>3 DEF DoneWorkers
  <2>8. Cardinality(D) = Len(ws) => \A v \in DOMAIN ws : ws[v].pc = "done"
    BY <2>2, <2>3, <2>4, <2>6
  <2> QED
    BY <2>1, <2>6, <2>7, <2>8
<1>11. finishedWorkers \in Nat /\ Cardinality(DoneWorkers) \in Nat
  BY DoneFinite DEF TypeOK
<1>12. ASSUME runs <= 1
       PROVE  /\ (stopToken => cancelled)' /\ ScanCount'
              /\ finishedWorkers' = Cardinality(DoneWorkers') /\ Len(dirWorkers') = ThreadsNum
  <2>1. /\ stopToken => cancelled
        /\ Len(dirWorkers) = ThreadsNum
        /\ finishedWorkers = Cardinality(DoneWorkers)
    BY <1>1, <1>12 DEF FinishInv, ScanInv, ScanCount
  <2>2. finishedWorkers' = Cardinality(DoneWorkers')
    BY <1>1, <1>7, <2>1
  <2> QED
    BY <1>1, <1>8, <1>9, <2>1, <2>2 DEF ScanCount
<1>13. ASSUME runs <= 1 PROVE ScanRuns'
  <2>1. SUFFICES ASSUME ~stopToken PROVE scanning' <=> finishedWorkers' # ThreadsNum
    BY <1>1, <1>9 DEF ScanRuns
  <2>2. CASE finishedWorkers + 1 = ThreadsNum
    BY <1>1, <2>2 DEF ScanIsComplete
  <2>3. CASE finishedWorkers + 1 # ThreadsNum
    <3>1. scanning' = scanning
      BY <1>1, <2>1, <2>3 DEF ScanIsComplete
    <3>2. scanning <=> finishedWorkers # ThreadsNum
      BY <1>1, <1>13, <2>1 DEF FinishInv, ScanInv, ScanRuns
    <3>3. finishedWorkers + 1 <= ThreadsNum
      BY <1>1, <1>8, <1>10, <1>12, <1>13
    <3>4. finishedWorkers # ThreadsNum
      BY <1>8, <1>11, <1>12, <1>13, <3>3
    <3> QED
      BY <1>1, <2>3, <3>1, <3>2, <3>4
  <2> QED
    BY <2>2, <2>3
<1>14. ScanInv'
  BY <1>1, <1>12, <1>13 DEF ScanInv
<1>15. ASSUME runs = 1, phase' = "idle", ~cancelled
       PROVE  LiveJobs = {} /\ \A v \in DOMAIN dirWorkers' : dirWorkers'[v].pc = "done"
  <2>1. CASE phase = "idle"
    BY <1>2, <1>15, <2>1 DEF FinishInv, RestInv
  <2>2. CASE phase # "idle"
    <3>1. ScanIsComplete /\ runningWorkers = 0
      BY <1>1, <1>15, <2>2 DEF DoNotFinish
    <3>2. LiveJobs = {}
      BY <3>1, LiveJobsFinite DEF JobsInv, RunningWorkersExact
    <3>3. ~stopToken
      BY <1>1, <1>12, <1>15
    <3>4. finishedWorkers' = ThreadsNum
      BY <1>1, <3>1, <3>3 DEF ScanIsComplete
    <3>5. Cardinality(DoneWorkers') = Len(dirWorkers')
      BY <1>12, <1>15, <3>4
    <3> QED
      BY <1>10, <3>2, <3>5
  <2> QED
    BY <2>1, <2>2
<1>16. RestInv'
  <2>1. (mainPc \notin {"loop", "exited"} => phase = "indexing")' /\ (mainPc = "exited" => phase = "idle" /\ runs >= 1 /\ ~Gui)'
    BY <1>1
  <2>2. (~Gui => runs <= 1)'
    BY <1>1 DEF FinishInv, RestInv
  <2> QED
    BY <1>1, <1>9, <1>15, <2>1, <2>2 DEF RestInv
<1> QED
  BY <1>14, <1>16 DEF FinishInv

\* Handling a progress signal: some worker is not done, so the run is not over.
LEMMA ProgressFinish ==
    ASSUME TypeOK, EndsInv, FinishInv, HandleProgress
    PROVE  FinishInv'
<1>1. /\ events # <<>> /\ Head(events).type = "progress" /\ mainPc = "loop"
      /\ UNCHANGED <<paths, finishedWorkers, scanning, dirWorkers, stopToken>>
      /\ UNCHANGED <<cancelled, phase, runs, mainPc>>
  BY DEF HandleProgress, Handling, CountProgress
<1>2. 1 \in DOMAIN events /\ events[1] = Head(events)
  <2>1. events \in Seq(AnyEvent)
    BY DEF TypeOK, AnyEvent
  <2> QED
    BY <1>1, <2>1, HeadTail
<1>3. \E w \in DOMAIN dirWorkers : dirWorkers[w].pc # "done"
  <2>1. PICK w \in DOMAIN dirWorkers :
           \/ dirWorkers[w].pc \notin {"posted", "done"}
           \/ \E k \in DOMAIN events : 1 < k /\ IsEnd(events[k], w)
    BY <1>1, <1>2 DEF EndsInv, EndsLast
  <2>2. CASE \E k \in DOMAIN events : 1 < k /\ IsEnd(events[k], w)
    <3>1. PICK k \in DOMAIN events : IsEnd(events[k], w)
      BY <2>2
    <3>2. dirWorkers[w].pc = "posted"
      BY <3>1 DEF EndsInv, EndsPosted, IsEnd
    <3> QED
      BY <3>2
  <2> QED
    BY <2>1, <2>2
<1>4. ThreadsNum' = ThreadsNum /\ DoneWorkers' = DoneWorkers
  BY <1>1 DEF ThreadsNum, DoneWorkers
<1>5. ScanInv'
  BY <1>1, <1>4 DEF FinishInv, ScanInv, ScanCount, ScanRuns
<1>6. ~(runs = 1 /\ phase = "idle" /\ ~cancelled)
  BY <1>3 DEF FinishInv, RestInv
<1>7. RestInv'
  BY <1>1, <1>6 DEF FinishInv, RestInv
<1> QED
  BY <1>5, <1>7 DEF FinishInv

LEMMA ResultFinish ==
    ASSUME TypeOK, FinishInv, HandleResult
    PROVE  FinishInv'
<1>1. /\ UNCHANGED <<paths, finishedWorkers, scanning, dirWorkers, jobs, runs, mainPc>>
      /\ mainPc = "loop"
      /\ \/ UNCHANGED <<stopToken, cancelled, phase>>
         \/ stopToken' /\ cancelled'
  BY DEF HandleResult, Handling, RequestCancellation, DoNotCancel, DoNotFinish
<1>2. UNCHANGED <<DoneWorkers, ThreadsNum, LiveJobs>>
  BY <1>1 DEF DoneWorkers, ThreadsNum, LiveJobs
<1>3. ScanInv'
  BY <1>1, <1>2 DEF FinishInv, ScanInv, ScanCount, ScanRuns
<1>4. RestInv'
  BY <1>1, <1>2 DEF FinishInv, RestInv
<1> QED
  BY <1>3, <1>4 DEF FinishInv

\* The last job to end finishes the run if the scan has ended: the scan was not stopped,
\* so all its workers have.
LEMMA JobFinishedFinish ==
    ASSUME TypeOK, JobsInv, FinishInv, HandleFileFinished
    PROVE  FinishInv'
<1>1. /\ UNCHANGED <<stopToken, finishedWorkers, scanning, paths, dirWorkers, cancelled, mainPc, runs>>
      /\ jobs' = EndJob(Head(events).job, "done")
      /\ runningWorkers' = runningWorkers - 1
      /\ IF runningWorkers - 1 = 0 /\ ~scanning THEN EmitFinished ELSE DoNotFinish
      /\ mainPc = "loop"
  BY DEF HandleFileFinished, Handling, scanVars
<1>2. TypeOK' /\ RunningWorkersExact'
  <2>1. TypeOK' /\ JobsInv'
    BY HandlerTypeOK, HandlerJobsInv
  <2> QED
    BY <2>1 DEF JobsInv
<1>3. ThreadsNum' = ThreadsNum /\ DoneWorkers' = DoneWorkers
  BY <1>1 DEF ThreadsNum, DoneWorkers
<1>4. ScanInv'
  BY <1>1, <1>3 DEF FinishInv, ScanInv, ScanCount, ScanRuns
<1>5. LiveJobs' \subseteq LiveJobs
  <2>1. PICK j : j = Head(events).job
    OBVIOUS
  <2>2. jobs' = [jobs EXCEPT ![j] = [pc |-> "done", queue |-> "files", size |-> 0, batch |-> <<>>]]
    BY <1>1, <2>1 DEF EndJob
  <2>3. DOMAIN jobs' = DOMAIN jobs
    BY <2>2
  <2>4. \A k \in DOMAIN jobs : k # j => jobs'[k] = jobs[k]
    BY <2>2
  <2>5. j \in DOMAIN jobs => jobs'[j].pc = "done"
    BY <2>2
  <2> QED
    BY <2>3, <2>4, <2>5 DEF LiveJobs
<1>6. ASSUME runs = 1, phase' = "idle", ~cancelled
      PROVE  LiveJobs' = {} /\ \A v \in DOMAIN dirWorkers : dirWorkers[v].pc = "done"
  <2>1. CASE phase = "idle"
    BY <1>5, <1>6, <2>1 DEF FinishInv, RestInv
  <2>2. CASE phase # "idle"
    <3>1. runningWorkers' = 0 /\ ~scanning
      BY <1>1, <1>6, <2>2 DEF DoNotFinish
    <3>2. LiveJobs' = {}
      <4>1. Cardinality(LiveJobs') = 0
        BY <1>2, <3>1 DEF RunningWorkersExact
      <4>2. IsFiniteSet(LiveJobs')
        BY <1>5, LiveJobsFinite, FS_Subset
      <4> QED
        BY <4>1, <4>2, FS_EmptySet
    <3>3. finishedWorkers = ThreadsNum
      BY <1>1, <1>6, <3>1 DEF FinishInv, ScanInv, ScanRuns
    <3>4. Cardinality(DoneWorkers) = Len(dirWorkers)
      BY <1>1, <1>6, <3>3 DEF FinishInv, ScanInv, ScanCount
    <3>5. \A v \in DOMAIN dirWorkers : dirWorkers[v].pc = "done"
      BY <3>4, DoneFinite
    <3> QED
      BY <3>2, <3>5
  <2> QED
    BY <2>1, <2>2
<1>7. RestInv'
  BY <1>1, <1>6 DEF FinishInv, RestInv
<1> QED
  BY <1>4, <1>7 DEF FinishInv

\* In its first run, no worker has finished before scan() is over.
LEMMA NoneFinished ==
    ASSUME dirWorkers = <<>>
    PROVE  DoneWorkers = {} /\ Cardinality(DoneWorkers) = 0 /\ Len(dirWorkers) = 0
<1>1. DOMAIN dirWorkers = {} /\ Len(dirWorkers) = 0
  OBVIOUS
<1>2. DoneWorkers = {}
  BY <1>1 DEF DoneWorkers
<1> QED
  BY <1>1, <1>2, FS_EmptySet

LEMMA BeginFinish ==
    ASSUME TypeOK, QueuesInv, FinishInv, BeginIndexing
    PROVE  FinishInv'
<1>1. /\ UNCHANGED <<stopToken, finishedWorkers, scanning, paths, dirWorkers>>
      /\ mainPc' = "arguments" /\ phase' = "indexing" /\ runs' = runs + 1
      /\ ~Gui => runs = 0
  BY DEF BeginIndexing, scanVars, StartButton, AddCommand
<1>2. runs \in Nat
  BY DEF TypeOK
<1>3. ASSUME runs' <= 1 PROVE ~stopToken /\ finishedWorkers = Cardinality(DoneWorkers)
  <2>1. runs = 0
    BY <1>1, <1>2, <1>3
  <2>2. ~stopToken /\ finishedWorkers = 0 /\ dirWorkers = <<>>
    BY <2>1 DEF QueuesInv, StagesInv, Unscanned
  <2> QED
    BY <2>2, NoneFinished
<1>4. DoneWorkers' = DoneWorkers
  BY <1>1 DEF DoneWorkers
<1>5. ScanInv'
  BY <1>1, <1>3, <1>4 DEF ScanInv, ScanCount, ScanRuns
<1>6. RestInv'
  BY <1>1, <1>2 DEF RestInv
<1> QED
  BY <1>5, <1>6 DEF FinishInv

\* The steps of beginIndexing that come before its scan is over.
LEMMA ScanningFinish ==
    ASSUME QueuesInv, FinishInv, mainPc \notin {"loop", "exited"},
           mainPc' \notin {"launch", "loop", "exited"},
           UNCHANGED <<dirWorkers, cancelled, phase, runs>>,
           \/ UNCHANGED <<stopToken, finishedWorkers>>
           \/ ~stopToken' /\ finishedWorkers' = 0 /\ (runs <= 1 => dirWorkers = <<>>)
    PROVE  FinishInv'
<1>1. DoneWorkers' = DoneWorkers
  BY DEF DoneWorkers
<1>2. ScanInv'
  <2>1. CASE UNCHANGED <<stopToken, finishedWorkers>>
    BY <1>1, <2>1 DEF FinishInv, ScanInv, ScanCount, ScanRuns
  <2>2. CASE ~stopToken' /\ finishedWorkers' = 0 /\ (runs <= 1 => dirWorkers = <<>>)
    BY <1>1, <2>2, NoneFinished DEF ScanInv, ScanCount, ScanRuns
  <2> QED
    BY <2>1, <2>2
<1>3. RestInv'
  BY DEF FinishInv, RestInv
<1> QED
  BY <1>2, <1>3 DEF FinishInv

LEMMA StartScanFinish ==
    ASSUME TypeOK, QueuesInv, FinishInv, StartScan
    PROVE  FinishInv'
<1>1. mainPc = "arguments" /\ UNCHANGED <<dirWorkers, jobs, cancelled, phase, runs>>
  BY DEF StartScan, BeginScan, scanVars, jobVars, clickVars
<1>2. runs <= 1 => Unscanned /\ paths = <<>>
  BY <1>1 DEF QueuesInv, StagesInv
<1>3. CASE dirs # <<>>
  <2>1. mainPc' = "list" /\ stopToken' = FALSE /\ finishedWorkers' = 0
    BY <1>3 DEF StartScan, BeginScan
  <2> QED
    BY <1>1, <1>2, <2>1, ScanningFinish DEF Unscanned
<1>4. CASE dirs = <<>>
  <2>1. mainPc' = "launch" /\ UNCHANGED <<stopToken, finishedWorkers, scanning, paths>>
    BY <1>4 DEF StartScan, scanVars
  <2>2. DoneWorkers' = DoneWorkers /\ ThreadsNum' = ThreadsNum
    BY <1>1, <2>1 DEF DoneWorkers, ThreadsNum
  <2>3. runs <= 1 => ThreadsNum = 0
    <3>1. paths = <<>> => Len(paths) = 0
      OBVIOUS
    <3> QED
      BY <1>2, <3>1, TreeAssumption DEF ThreadsNum
  <2>4. runs <= 1 => /\ ~stopToken /\ ~scanning /\ finishedWorkers = 0
                     /\ Len(dirWorkers) = 0 /\ Cardinality(DoneWorkers) = 0
    BY <1>2, NoneFinished DEF Unscanned
  <2>5. ScanInv'
    BY <1>1, <2>1, <2>2, <2>3, <2>4 DEF ScanInv, ScanCount, ScanRuns
  <2>6. RestInv'
    BY <1>1, <2>1 DEF FinishInv, RestInv
  <2> QED
    BY <2>5, <2>6 DEF FinishInv
<1> QED
  BY <1>3, <1>4

LEMMA SpawnFinish ==
    ASSUME TypeOK, QueuesInv, FinishInv, SpawnOrComplete
    PROVE  FinishInv'
<1>1. /\ mainPc = "spawn" /\ mainPc' = "launch"
      /\ UNCHANGED <<jobs, cancelled, phase, runs>>
  BY DEF SpawnOrComplete, jobVars, clickVars
<1>2. UNCHANGED <<stopToken, finishedWorkers, paths>>
  BY Spawned
<1>3. ThreadsNum' = ThreadsNum
  BY <1>2 DEF ThreadsNum
<1>4. ASSUME runs <= 1
      PROVE  /\ ~stopToken /\ finishedWorkers = 0
             /\ Len(dirWorkers') = ThreadsNum
             /\ Cardinality(DoneWorkers') = 0
             /\ scanning' <=> ThreadsNum # 0
  <2>1. ~stopToken /\ finishedWorkers = 0 /\ ~scanning /\ dirWorkers = <<>>
    BY <1>1, <1>4 DEF QueuesInv, StagesInv, Unscanned
  <2>2. Len(dirWorkers') = ThreadsNum
    BY <2>1, NoneFinished, Spawned
  <2>3. \A v \in DOMAIN dirWorkers' : dirWorkers'[v].pc = "queued"
    BY <2>1, Spawned DEF QueuedDirWorker
  <2>4. DoneWorkers' = {}
    BY <2>3 DEF DoneWorkers
  <2>5. scanning' <=> ThreadsNum # 0
    BY <2>1, Spawned
  <2> QED
    BY <2>1, <2>2, <2>4, <2>5, FS_EmptySet
<1>5. ScanInv'
  BY <1>1, <1>2, <1>3, <1>4 DEF ScanInv, ScanCount, ScanRuns
<1>6. RestInv'
  BY <1>1 DEF FinishInv, RestInv
<1> QED
  BY <1>5, <1>6 DEF FinishInv

LEMMA LaunchFinish ==
    ASSUME FinishInv, LaunchFileTargets
    PROVE  FinishInv'
<1>1. /\ mainPc = "launch" /\ mainPc' = "loop"
      /\ UNCHANGED <<stopToken, finishedWorkers, scanning, paths, dirWorkers, cancelled, phase, runs>>
  BY DEF LaunchFileTargets, scanVars, clickVars
<1>2. DoneWorkers' = DoneWorkers /\ ThreadsNum' = ThreadsNum
  BY <1>1 DEF DoneWorkers, ThreadsNum
<1>3. ScanInv'
  BY <1>1, <1>2 DEF FinishInv, ScanInv, ScanCount, ScanRuns
<1>4. RestInv'
  BY <1>1 DEF FinishInv, RestInv
<1> QED
  BY <1>3, <1>4 DEF FinishInv

LEMMA LeaveFinish ==
    ASSUME TypeOK, FinishInv, LeaveEventLoop
    PROVE  FinishInv'
<1>1. /\ mainPc = "loop" /\ mainPc' = "exited" /\ ~Gui /\ runs > 0 /\ phase = "idle"
      /\ UNCHANGED <<stopToken, finishedWorkers, scanning, paths, dirWorkers, cancelled, phase, runs, jobs>>
  BY DEF LeaveEventLoop, scanVars, clickVars, jobVars
<1>2. DoneWorkers' = DoneWorkers /\ ThreadsNum' = ThreadsNum /\ LiveJobs' = LiveJobs
  BY <1>1 DEF DoneWorkers, ThreadsNum, LiveJobs
<1>3. runs \in Nat
  BY DEF TypeOK
<1>4. ScanInv'
  BY <1>1, <1>2 DEF FinishInv, ScanInv, ScanCount, ScanRuns
<1>5. RestInv'
  BY <1>1, <1>2, <1>3 DEF FinishInv, RestInv
<1> QED
  BY <1>4, <1>5 DEF FinishInv

LEMMA InitFinish == Init => FinishInv
<1> SUFFICES ASSUME Init PROVE FinishInv
  OBVIOUS
<1>1. /\ jobs = <<>> /\ dirWorkers = <<>> /\ mainPc = "loop" /\ runs = 0 /\ paths = <<>>
      /\ finishedWorkers = 0 /\ ~scanning /\ ~stopToken
  BY DEF Init, DirScannerInit
<1>2. Len(paths) = 0
  BY <1>1
<1>3. ThreadsNum = 0
  BY <1>2, TreeAssumption DEF ThreadsNum
<1>4. ScanInv
  BY <1>1, <1>3, NoneFinished DEF ScanInv, ScanCount, ScanRuns
<1>5. RestInv
  BY <1>1 DEF RestInv
<1> QED
  BY <1>4, <1>5 DEF FinishInv

LEMMA NextFinish ==
    TypeOK /\ JobsInv /\ EndsInv /\ QueuesInv /\ FinishInv /\ [Next]_vars => FinishInv'
<1> SUFFICES ASSUME TypeOK, JobsInv, EndsInv, QueuesInv, FinishInv, [Next]_vars
             PROVE  FinishInv'
  OBVIOUS
<1>1. CASE UNCHANGED vars \/ StopIndexing
  <2>1. /\ UNCHANGED <<paths, finishedWorkers, scanning, dirWorkers, jobs, runs, phase, mainPc>>
        /\ UNCHANGED <<stopToken, cancelled>> \/ (stopToken' /\ cancelled')
    BY <1>1 DEF vars, scanVars, jobVars, mainVars, StopIndexing, RequestCancellation
  <2> QED
    BY <2>1, FinishUntouched
<1>2. CASE \E w \in DOMAIN dirWorkers : DirWorkerThread(w)
  BY <1>2, WorkerFinish
<1>3. CASE \E j \in DOMAIN jobs : JobStep(j)
  BY <1>3, JobFinish
<1>4. CASE NextArgument \/ OpenDirectory \/ NextEntry \/ AnnounceFirstLevel
  <2>1. /\ UNCHANGED <<dirWorkers, cancelled, phase, runs, stopToken, finishedWorkers>>
        /\ mainPc \in {"arguments", "list"} /\ mainPc' \in {"arguments", "list", "spawn"}
    BY <1>4 DEF NextArgument, OpenDirectory, NextEntry, AnnounceFirstLevel, ListEntry, scanVars,
                clickVars
  <2> QED
    BY <2>1, ScanningFinish
<1>5. CASE HandleProgress \/ HandleDirFinished \/ HandleResult \/ HandleFileFinished
  BY <1>5, ProgressFinish, DirFinishedFinish, ResultFinish, JobFinishedFinish
<1>6. CASE BeginIndexing \/ StartScan \/ SpawnOrComplete \/ LaunchFileTargets \/ LeaveEventLoop
  BY <1>6, BeginFinish, StartScanFinish, SpawnFinish, LaunchFinish, LeaveFinish
<1> QED
  BY <1>1, <1>2, <1>3, <1>4, <1>5, <1>6 DEF Next, MainStep

LEMMA FinishInvariant == Spec => [](TypeOK /\ JobsInv /\ EndsInv /\ QueuesInv /\ FinishInv)
<1>1. Init => FinishInv
  BY InitFinish
<1>2. TypeOK /\ JobsInv /\ EndsInv /\ QueuesInv /\ FinishInv /\ [Next]_vars => FinishInv'
  BY NextFinish
<1> QED
  BY <1>1, <1>2, QueuesInvariant, PTL DEF Spec

\* looqs add leaves its event loop with no job queued or running, unless an error cancelled
\* the run: main destroys the SqliteDbService they work with (cli/main.cpp:116).
THEOREM ExitLeavesNoJobCorrect == Spec => []ExitLeavesNoJob
<1>1. TypeOK /\ FinishInv => ExitLeavesNoJob
  <2> SUFFICES ASSUME TypeOK, FinishInv, mainPc = "exited", ~cancelled PROVE LiveJobs = {}
    BY DEF ExitLeavesNoJob
  <2>1. ~Gui /\ phase = "idle" /\ runs >= 1 /\ runs <= 1 /\ runs \in Nat
    BY DEF FinishInv, RestInv, TypeOK
  <2>2. runs = 1
    BY <2>1
  <2> QED
    BY <2>1, <2>2 DEF FinishInv, RestInv
<1> QED
  BY <1>1, FinishInvariant, PTL
=============================================================================
