---------------------------- MODULE IndexerProofs ----------------------------
(***************************************************************************)
(* Proofs about Indexer for every tree, queue size, pool size and number   *)
(* of runs, whatever the user and the files do.                            *)
(***************************************************************************)
EXTENDS Indexer, SequenceTheorems, FiniteSetTheorems, TLAPS

----------------------------------------------------------------------------
(* Sequences and queues. *)

\* Overwriting one place of a sequence, inside its domain or not, keeps its type.
LEMMA SeqUpdate ==
    ASSUME NEW S, NEW s \in Seq(S), NEW i, NEW e \in S
    PROVE  /\ [s EXCEPT ![i] = e] \in Seq(S)
           /\ DOMAIN [s EXCEPT ![i] = e] = DOMAIN s
<1>1. CASE i \in 1..Len(s)
  BY <1>1, ExceptSeq, LenProperties
<1>2. CASE i \notin 1..Len(s)
  <2>1. [s EXCEPT ![i] = e] = s
    BY <1>2, LenProperties
  <2> QED BY <2>1
<1> QED BY <1>1, <1>2

\* Every operation of the queue keeps the type of its elements.
LEMMA QueueTypes ==
    ASSUME NEW T, NEW q \in QueueOf(T), NEW n \in Int, NEW x, NEW s \in Seq(T)
    PROVE  /\ Acquire(q, n) \in QueueOf(T)
           /\ Release(q, n) \in QueueOf(T)
           /\ Put(q, s) \in QueueOf(T)
           /\ x \in T => EnqueueOne(q, x) \in QueueOf(T)
           /\ Clear(q) \in QueueOf(T)
           /\ q.items # <<>> => WithoutFirst(q) \in QueueOf(T) /\ Head(q.items) \in T
           /\ Holds(q, n) => WithoutBatch(q, n) \in QueueOf(T) /\ Batch(q, n) \in Seq(T)
           /\ Remaining(q) \in Int
<1> USE DEF QueueOf
<1>1. q.items \in Seq(T) /\ q.avail \in Int
  OBVIOUS
<1>2. Clear(q) \in QueueOf(T) /\ Remaining(q) \in Int
  <2>1. QueueSize \in Int /\ <<>> \in Seq(T)
    BY QueueSizeAssumption, EmptySeq
  <2> QED BY <1>1, <2>1 DEF Clear, Remaining
<1>7. Acquire(q, n) \in QueueOf(T) /\ Release(q, n) \in QueueOf(T)
  BY <1>1 DEF Acquire, Release
<1>3. Put(q, s) \in QueueOf(T)
  BY <1>1, ConcatProperties DEF Put
<1>4. x \in T => EnqueueOne(q, x) \in QueueOf(T)
  BY <1>1, AppendProperties DEF EnqueueOne
<1>5. q.items # <<>> => WithoutFirst(q) \in QueueOf(T) /\ Head(q.items) \in T
  <2>1. q.items # <<>> => Tail(q.items) \in Seq(T) /\ Head(q.items) \in T
    BY <1>1, HeadTailProperties
  <2> QED BY <1>1, <2>1 DEF WithoutFirst
<1>6. ASSUME Holds(q, n)
      PROVE  WithoutBatch(q, n) \in QueueOf(T) /\ Batch(q, n) \in Seq(T)
  <2>1. n \in 0..Len(q.items) /\ Len(q.items) \in Nat
    BY <1>1, <1>6, LenProperties DEF Holds
  <2>2. \A i \in 1..n : q.items[i] \in T
    BY <1>1, <2>1, ElementOfSeq
  <2>3. \A i \in (n + 1)..Len(q.items) : q.items[i] \in T
    BY <1>1, <2>1, ElementOfSeq
  <2>4. SubSeq(q.items, 1, n) \in Seq(T)
    BY <2>1, <2>2, SubSeqProperties
  <2>5. SubSeq(q.items, n + 1, Len(q.items)) \in Seq(T)
    BY <2>1, <2>3, SubSeqProperties
  <2> QED BY <1>1, <2>4, <2>5 DEF WithoutBatch, Batch
<1> QED BY <1>2, <1>3, <1>4, <1>5, <1>6, <1>7

\* Taking the first element off a sequence.
LEMMA HeadTail ==
    ASSUME NEW S, NEW s \in Seq(S), s # <<>>
    PROVE  Head(s) \in S /\ Tail(s) \in Seq(S)
BY HeadTailProperties

----------------------------------------------------------------------------
(* Type correctness. *)

LEMMA InitTypeOK == Init => TypeOK
<1> SUFFICES ASSUME Init PROVE TypeOK
  OBVIOUS
<1>1. EmptyQueue \in QueueOf(SubDirs) /\ EmptyQueue \in QueueOf(Paths)
  <2>1. QueueSize \in Int /\ <<>> \in Seq(SubDirs) /\ <<>> \in Seq(Paths)
    BY QueueSizeAssumption, EmptySeq
  <2> QED BY <2>1 DEF EmptyQueue, QueueOf
<1>2. /\ <<>> \in Seq(ArgDirs) /\ <<>> \in Seq(Paths) /\ <<>> \in Seq(Job)
      /\ <<>> \in Seq(DirWorker) /\ <<>> \in Seq(DirEvents \cup JobEvents)
  BY EmptySeq
<1>3. cancelToken \in BOOLEAN
  BY IndexerAssumption DEF Init
<1>4. LoopsHaveWork
  <2>1. DOMAIN dirWorkers = {} /\ DOMAIN jobs = {}
    BY LenProperties, EmptySeq DEF Init, DirScannerInit
  <2>2. mainPc # "list"
    BY DEF Init
  <2> QED BY <2>1, <2>2 DEF LoopsHaveWork
<1>5. counts \in Counters
  BY DEF Init, Counters
<1>6. /\ mainPc \in {"loop", "arguments", "list", "spawn", "launch", "exited"}
      /\ phase \in {"idle", "indexing"}
      /\ finishedWorkers \in Nat /\ processedPaths \in Nat /\ runningWorkers \in Int /\ runs \in Nat
  BY DEF Init, DirScannerInit
<1>8. /\ reported \subseteq Paths
      /\ stopToken \in BOOLEAN /\ scanning \in BOOLEAN /\ enabled \in BOOLEAN /\ cancelled \in BOOLEAN
  BY DEF Init, DirScannerInit
<1>7. /\ targets \in QueueOf(SubDirs) /\ results \in QueueOf(Paths) /\ fileTargets \in QueueOf(Paths)
      /\ paths \in Seq(ArgDirs) /\ dirs \in Seq(ArgDirs) /\ todo \in Seq(Paths) /\ entries \in Seq(Paths)
      /\ dirWorkers \in Seq(DirWorker) /\ jobs \in Seq(Job) /\ events \in Seq(DirEvents \cup JobEvents)
  BY <1>1, <1>2 DEF Init, DirScannerInit
<1> QED
  BY <1>3, <1>4, <1>5, <1>6, <1>7, <1>8 DEF TypeOK

\* A step of a directory worker.
LEMMA DirWorkerTypeOK ==
    ASSUME TypeOK, NEW w \in DOMAIN dirWorkers, DirWorkerThread(w)
    PROVE  TypeOK'
<1> USE DEF DirWorkerThread, DirWorkerStep, TypeOK, LoopsHaveWork, jobVars, mainVars, mainScanVars
<1>1. dirWorkers \in Seq(DirWorker) /\ dirWorkers[w] \in DirWorker
  BY ElementOfSeq, LenProperties
<1>2. /\ dirWorkers[w].left \in Seq(Paths)
      /\ dirWorkers[w].found \in Seq(Paths)
      /\ dirWorkers[w].pc \in DirPcs
      /\ Len(dirWorkers[w].found) \in Nat
  BY <1>1, LenProperties DEF DirWorker
<1>3. ASSUME NEW pc \in DirPcs, NEW left \in Seq(Paths), NEW found \in Seq(Paths),
             dirWorkers' = MoveDir(w, pc, left, found), pc = "walk" => left # <<>>
      PROVE  /\ dirWorkers' \in Seq(DirWorker)
             /\ \A v \in DOMAIN dirWorkers' :
                   dirWorkers'[v].pc = "walk" => dirWorkers'[v].left # <<>>
  <2>1. [pc |-> pc, left |-> left, found |-> found] \in DirWorker
    BY DEF DirWorker
  <2>2. dirWorkers' \in Seq(DirWorker) /\ DOMAIN dirWorkers' = DOMAIN dirWorkers
    BY <1>1, <1>3, <2>1, SeqUpdate DEF MoveDir
  <2> QED BY <1>3, <2>2 DEF MoveDir
<1>4. CASE StartDirWorker(w)
  <2>1. dirWorkers' \in Seq(DirWorker) /\ \A v \in DOMAIN dirWorkers' :
           dirWorkers'[v].pc = "walk" => dirWorkers'[v].left # <<>>
    BY <1>2, <1>3, <1>4 DEF StartDirWorker, Goto, DirPcs
  <2> QED BY <1>4, <2>1 DEF StartDirWorker
<1>5. CASE PickDirectory(w)
  <2>1. targets' \in QueueOf(SubDirs) /\ Head(targets.items) \in SubDirs
    BY <1>5, QueueTypes, HeadTail DEF PickDirectory, QueueOf, WithoutFirst
  <2>2. Below[Head(targets.items)] \in Seq(Paths)
    BY <2>1, TreeAssumption
  <2>3. dirWorkers' \in Seq(DirWorker) /\ \A v \in DOMAIN dirWorkers' :
           dirWorkers'[v].pc = "walk" => dirWorkers'[v].left # <<>>
    BY <1>1, <1>2, <1>3, <1>5, <2>2 DEF PickDirectory, DirPcs
  <2> QED BY <1>5, <2>1, <2>3 DEF PickDirectory
<1>6. CASE NoMoreDirectories(w)
  <2>1. dirWorkers' \in Seq(DirWorker) /\ \A v \in DOMAIN dirWorkers' :
           dirWorkers'[v].pc = "walk" => dirWorkers'[v].left # <<>>
    BY <1>2, <1>3, <1>6 DEF NoMoreDirectories, Goto, DirPcs
  <2> QED BY <1>6, <2>1 DEF NoMoreDirectories
<1>7. CASE WalkEntry(w)
  <2> DEFINE entry == Head(dirWorkers[w].left)
             rest == Tail(dirWorkers[w].left)
             found == IF entry \in Ignored THEN dirWorkers[w].found
                      ELSE Append(dirWorkers[w].found, entry)
             full == entry \notin Ignored /\ Len(found) = Threshold
  <2>1. entry \in Paths /\ rest \in Seq(Paths)
    BY <1>2, <1>7, HeadTail DEF WalkEntry, AtDir
  <2>2. found \in Seq(Paths)
    BY <1>2, <2>1, AppendProperties
  <2>3. CASE full /\ stopToken
    <3>1. dirWorkers' = MoveDir(w, "finish", <<>>, <<>>)
      BY <1>7, <2>3 DEF WalkEntry
    <3>2. dirWorkers' \in Seq(DirWorker) /\ \A v \in DOMAIN dirWorkers' :
             dirWorkers'[v].pc = "walk" => dirWorkers'[v].left # <<>>
      BY <1>3, <3>1, EmptySeq DEF DirPcs
    <3> QED BY <1>7, <3>2 DEF WalkEntry
  <2>4. CASE ~(full /\ stopToken)
    <3>1. dirWorkers' = MoveDir(w, IF full THEN "acquire" ELSE Resume(rest), rest, found)
      BY <1>7, <2>4 DEF WalkEntry
    <3> DEFINE pc == IF full THEN "acquire" ELSE Resume(rest)
    <3>2. pc \in DirPcs /\ (pc = "walk" => rest # <<>>)
      BY DEF Resume, DirPcs
    <3> HIDE DEF pc, rest, found
    <3>3. dirWorkers' \in Seq(DirWorker) /\ \A v \in DOMAIN dirWorkers' :
             dirWorkers'[v].pc = "walk" => dirWorkers'[v].left # <<>>
      BY <1>3, <2>1, <2>2, <3>1, <3>2 DEF pc
    <3> QED BY <1>7, <3>3 DEF WalkEntry
  <2> HIDE DEF full, TypeOK
  <2> QED BY <2>3, <2>4
<1>8. CASE AcquireResults(w)
  <2>1. results' \in QueueOf(Paths)
    <3>1. Len(dirWorkers[w].found) \in Int
      BY <1>2
    <3> QED BY <1>8, <3>1, QueueTypes, EmptySeq DEF AcquireResults
  <2>2. dirWorkers' \in Seq(DirWorker) /\ \A v \in DOMAIN dirWorkers' :
           dirWorkers'[v].pc = "walk" => dirWorkers'[v].left # <<>>
    BY <1>2, <1>3, <1>8 DEF AcquireResults, Goto, DirPcs
  <2> QED BY <1>8, <2>1, <2>2 DEF AcquireResults
<1>9. CASE AppendResults(w)
  <2>1. results' \in QueueOf(Paths)
    BY <1>2, <1>9, ConcatProperties DEF AppendResults, QueueOf, Put
  <2>2. dirWorkers' \in Seq(DirWorker) /\ \A v \in DOMAIN dirWorkers' :
           dirWorkers'[v].pc = "walk" => dirWorkers'[v].left # <<>>
    BY <1>2, <1>3, <1>9 DEF AppendResults, Goto, DirPcs
  <2> QED BY <1>9, <2>1, <2>2 DEF AppendResults
<1>10. CASE EmitProgress(w)
  <2>1. Progress(Len(dirWorkers[w].found)) \in DirEvents
    BY <1>2 DEF Progress, DirEvents
  <2>2. events' \in Seq(DirEvents \cup JobEvents)
    BY <1>10, <2>1, AppendProperties DEF EmitProgress, Post
  <2>3. dirWorkers' \in Seq(DirWorker) /\ \A v \in DOMAIN dirWorkers' :
           dirWorkers'[v].pc = "walk" => dirWorkers'[v].left # <<>>
    BY <1>2, <1>3, <1>10, EmptySeq DEF EmitProgress, Resume, DirPcs
  <2> QED BY <1>10, <2>2, <2>3 DEF EmitProgress
<1>11. CASE EmitDirFinished(w)
  <2>1. DirFinished(w) \in DirEvents
    BY <1>1, LenProperties DEF DirFinished, DirEvents
  <2>2. events' \in Seq(DirEvents \cup JobEvents)
    BY <1>11, <2>1, AppendProperties DEF EmitDirFinished, Post
  <2>3. dirWorkers' \in Seq(DirWorker) /\ \A v \in DOMAIN dirWorkers' :
           dirWorkers'[v].pc = "walk" => dirWorkers'[v].left # <<>>
    BY <1>2, <1>3, <1>11 DEF EmitDirFinished, Goto, DirPcs
  <2> QED BY <1>11, <2>2, <2>3 DEF EmitDirFinished
<1> QED
  BY <1>4, <1>5, <1>6, <1>7, <1>8, <1>9, <1>10, <1>11

\* Moving one job: only that job changes, and its place in run() is the new one.
LEMMA MoveJobTypes ==
    ASSUME TypeOK, NEW j, NEW pc \in JobPcs, NEW batch \in Seq(Paths),
           j \in DOMAIN jobs,
           \/ jobs' = MoveJob(j, pc, batch) /\ (pc = "process" => batch # <<>>)
           \/ jobs' = EndJob(j, pc) /\ pc # "process"
    PROVE  /\ jobs' \in Seq(Job)
           /\ DOMAIN jobs' = DOMAIN jobs
           /\ jobs'[j].pc = pc
           /\ \A k \in DOMAIN jobs : k # j => jobs'[k] = jobs[k]
           /\ \A k \in DOMAIN jobs' : jobs'[k].pc = "process" => jobs'[k].batch # <<>>
<1>1. jobs \in Seq(Job) /\ jobs[j] \in Job
  BY ElementOfSeq, LenProperties DEF TypeOK
<1>2. PICK e \in Job : /\ jobs' = [jobs EXCEPT ![j] = e]
                       /\ e.pc = pc
                       /\ pc = "process" => e.batch # <<>>
  <2>1. CASE jobs' = MoveJob(j, pc, batch) /\ (pc = "process" => batch # <<>>)
    <3> DEFINE e == [pc |-> pc, queue |-> jobs[j].queue, size |-> jobs[j].size, batch |-> batch]
    <3>1. e \in Job
      BY <1>1 DEF Job
    <3> QED BY <2>1, <3>1 DEF MoveJob
  <2>2. CASE jobs' = EndJob(j, pc) /\ pc # "process"
    <3> DEFINE e == [pc |-> pc, queue |-> "files", size |-> 0, batch |-> <<>>]
    <3>1. e \in Job
      BY EmptySeq DEF Job
    <3> QED BY <2>2, <3>1 DEF EndJob
  <2> QED BY <2>1, <2>2
<1>3. jobs' \in Seq(Job) /\ DOMAIN jobs' = DOMAIN jobs
  BY <1>1, <1>2, SeqUpdate
<1>4. jobs'[j] = e /\ \A k \in DOMAIN jobs : k # j => jobs'[k] = jobs[k]
  BY <1>2
<1>5. \A k \in DOMAIN jobs : jobs[k].pc = "process" => jobs[k].batch # <<>>
  BY DEF TypeOK, LoopsHaveWork
<1> QED BY <1>2, <1>3, <1>4, <1>5

\* A step of a pool thread that runs an indexing job.
LEMMA JobTypeOK ==
    ASSUME TypeOK, NEW j \in DOMAIN jobs, JobStep(j)
    PROVE  TypeOK'
<1> USE DEF JobStep, mainVars, mainScanVars
<1>1. jobs \in Seq(Job) /\ jobs[j] \in Job
  BY ElementOfSeq, LenProperties DEF TypeOK
<1>2. jobs[j].size \in Int /\ jobs[j].batch \in Seq(Paths) /\ jobs[j].pc \in JobPcs
  BY <1>1 DEF Job
<1>3. results \in QueueOf(Paths) /\ fileTargets \in QueueOf(Paths) /\ QueueOfJob(j) \in QueueOf(Paths)
  BY DEF TypeOK, QueueOfJob
<1>4. ASSUME NEW q \in QueueOf(Paths), SetQueueOfJob(j, q)
      PROVE  results' \in QueueOf(Paths) /\ fileTargets' \in QueueOf(Paths)
  BY <1>3, <1>4 DEF SetQueueOfJob
<1>5. SUFFICES /\ results' \in QueueOf(Paths) /\ fileTargets' \in QueueOf(Paths)
               /\ events' \in Seq(DirEvents \cup JobEvents)
               /\ jobs' \in Seq(Job)
               /\ \A k \in DOMAIN jobs' : jobs'[k].pc = "process" => jobs'[k].batch # <<>>
               /\ cancelToken' = cancelToken
  BY DEF TypeOK, LoopsHaveWork
<1>6. events \in Seq(DirEvents \cup JobEvents)
  BY DEF TypeOK
<1>7. CASE StartJob(j)
  <2>1. results' \in QueueOf(Paths) /\ fileTargets' \in QueueOf(Paths)
    BY <1>2, <1>3, <1>4, <1>7, QueueTypes, EmptySeq DEF StartJob
  <2>2. /\ jobs' \in Seq(Job)
        /\ \A k \in DOMAIN jobs' : jobs'[k].pc = "process" => jobs'[k].batch # <<>>
    BY <1>7, MoveJobTypes, EmptySeq DEF StartJob, JobPcs
  <2> QED BY <1>6, <1>7, <2>1, <2>2 DEF StartJob
<1>8. CASE TakeBatch(j)
  <2> DEFINE q == QueueOfJob(j)
             n == jobs[j].size
             pc == IF n = 0 THEN "check" ELSE "process"
  <2>1. CASE Holds(q, n)
    <3>1. WithoutBatch(q, n) \in QueueOf(Paths) /\ Batch(q, n) \in Seq(Paths)
      BY <1>2, <1>3, <2>1, QueueTypes, EmptySeq
    <3>2. pc = "process" => Batch(q, n) # <<>>
      <4>1. q.items \in Seq(Paths) /\ Len(q.items) \in Nat
        BY <1>3, LenProperties DEF QueueOf
      <4>2. n \in 0..Len(q.items)
        BY <2>1 DEF Holds
      <4>3. \A i \in 1..n : q.items[i] \in Paths
        BY <4>1, <4>2, ElementOfSeq
      <4>4. Len(Batch(q, n)) = IF 1 <= n THEN n - 1 + 1 ELSE 0
        BY <4>2, <4>3, SubSeqProperties, <1>2 DEF Batch
      <4> QED BY <4>2, <4>4, EmptySeq
    <3>3. jobs' = MoveJob(j, pc, Batch(q, n))
      BY <1>8, <2>1 DEF TakeBatch
    <3>4. /\ jobs' \in Seq(Job)
          /\ \A k \in DOMAIN jobs' : jobs'[k].pc = "process" => jobs'[k].batch # <<>>
      BY <3>1, <3>2, <3>3, MoveJobTypes DEF JobPcs
    <3>5. results' \in QueueOf(Paths) /\ fileTargets' \in QueueOf(Paths)
      BY <1>4, <1>8, <2>1, <3>1 DEF TakeBatch
    <3> QED BY <1>6, <1>8, <3>4, <3>5 DEF TakeBatch
  <2>2. CASE ~Holds(q, n)
    <3>1. jobs' = MoveJob(j, "underflow", <<>>)
      BY <1>8, <2>2 DEF TakeBatch
    <3>2. /\ jobs' \in Seq(Job)
          /\ \A k \in DOMAIN jobs' : jobs'[k].pc = "process" => jobs'[k].batch # <<>>
      BY <3>1, MoveJobTypes, EmptySeq DEF JobPcs
    <3> QED BY <1>3, <1>6, <1>8, <2>2, <3>2 DEF TakeBatch
  <2> QED BY <2>1, <2>2
<1>9. CASE ProcessPath(j)
  <2>1. jobs[j].batch # <<>>
    BY <1>9 DEF ProcessPath, AtJob, TypeOK, LoopsHaveWork
  <2>2. Head(jobs[j].batch) \in Paths /\ Tail(jobs[j].batch) \in Seq(Paths)
    BY <1>2, <2>1, HeadTail
  <2>3. j \in Nat
    BY <1>1, LenProperties
  <2>4. \A code \in Codes : Result(j, Head(jobs[j].batch), code) \in JobEvents
    BY <2>2, <2>3, IndexerAssumption DEF Result, JobEvents
  <2>5. events' \in Seq(DirEvents \cup JobEvents)
    BY <1>6, <1>9, <2>4, AppendProperties DEF ProcessPath, Post
  <2>6. /\ jobs' \in Seq(Job)
        /\ \A k \in DOMAIN jobs' : jobs'[k].pc = "process" => jobs'[k].batch # <<>>
    BY <1>9, <2>2, MoveJobTypes DEF ProcessPath, JobPcs
  <2> QED BY <1>3, <1>9, <2>5, <2>6 DEF ProcessPath
<1>10. CASE CheckToken(j)
  <2>1. CASE cancelToken \/ jobs[j].batch = <<>>
    <3>1. FileFinished(j) \in JobEvents
      BY <1>1, LenProperties DEF FileFinished, JobEvents
    <3>2. events' \in Seq(DirEvents \cup JobEvents)
      BY <1>6, <1>10, <2>1, <3>1, AppendProperties DEF CheckToken, Post
    <3>3. /\ jobs' \in Seq(Job)
          /\ \A k \in DOMAIN jobs' : jobs'[k].pc = "process" => jobs'[k].batch # <<>>
      BY <1>2, <1>10, <2>1, MoveJobTypes DEF CheckToken, JobPcs
    <3> QED BY <1>3, <1>10, <3>2, <3>3 DEF CheckToken
  <2>2. CASE ~(cancelToken \/ jobs[j].batch = <<>>)
    <3>1. /\ jobs' \in Seq(Job)
          /\ \A k \in DOMAIN jobs' : jobs'[k].pc = "process" => jobs'[k].batch # <<>>
      BY <1>2, <1>10, <2>2, MoveJobTypes DEF CheckToken, JobPcs
    <3> QED BY <1>3, <1>6, <1>10, <2>2, <3>1 DEF CheckToken
  <2> QED BY <2>1, <2>2
<1> QED
  BY <1>7, <1>8, <1>9, <1>10

\* launchWorker appends one job.
LEMMA LaunchTypes ==
    ASSUME TypeOK, NEW queue \in {"files", "results"}, NEW size \in Int,
           LaunchWorker(queue, size)
    PROVE  /\ jobs' \in Seq(Job)
           /\ DOMAIN jobs' = DOMAIN jobs \cup {Len(jobs) + 1}
           /\ Len(jobs) + 1 \notin DOMAIN jobs
           /\ jobs'[Len(jobs) + 1].pc = "queued"
           /\ \A k \in DOMAIN jobs : jobs'[k] = jobs[k]
           /\ \A k \in DOMAIN jobs' : jobs'[k].pc = "process" => jobs'[k].batch # <<>>
           /\ runningWorkers' = runningWorkers + 1
           /\ runningWorkers' \in Int
<1>1. jobs \in Seq(Job) /\ runningWorkers \in Int
  BY DEF TypeOK
<1>2. NewJob(queue, size) \in Job /\ NewJob(queue, size).pc = "queued"
  BY EmptySeq DEF NewJob, Job, JobPcs
<1>3. jobs' = Append(jobs, NewJob(queue, size)) /\ runningWorkers' = runningWorkers + 1
  BY DEF LaunchWorker
<1>4. /\ jobs' \in Seq(Job)
      /\ Len(jobs') = Len(jobs) + 1
      /\ jobs'[Len(jobs) + 1] = NewJob(queue, size)
      /\ \A k \in 1..Len(jobs) : jobs'[k] = jobs[k]
  BY <1>1, <1>2, <1>3, AppendProperties
<1>5. DOMAIN jobs = 1..Len(jobs) /\ DOMAIN jobs' = 1..Len(jobs') /\ Len(jobs) \in Nat
  BY <1>1, <1>4, LenProperties
<1>6. \A k \in DOMAIN jobs : jobs[k].pc = "process" => jobs[k].batch # <<>>
  BY DEF TypeOK, LoopsHaveWork
<1>7. DOMAIN jobs' = DOMAIN jobs \cup {Len(jobs) + 1} /\ Len(jobs) + 1 \notin DOMAIN jobs
  BY <1>4, <1>5
<1>8. \A k \in DOMAIN jobs' : jobs'[k].pc = "process" => jobs'[k].batch # <<>>
  BY <1>2, <1>4, <1>5, <1>6, <1>7
<1> QED BY <1>1, <1>2, <1>3, <1>4, <1>5, <1>7, <1>8

\* The user's clicks and the steps of beginIndexing.
LEMMA BeginTypeOK ==
    ASSUME TypeOK,
           \/ BeginIndexing \/ StopIndexing \/ NextArgument \/ StartScan \/ OpenDirectory
           \/ NextEntry \/ AnnounceFirstLevel \/ SpawnOrComplete \/ LaunchFileTargets
           \/ LeaveEventLoop
    PROVE  TypeOK'
<1> USE DEF TypeOK, LoopsHaveWork, scanVars, jobVars, clickVars
<1>1. CASE BeginIndexing
  <2>1. counts' \in Counters /\ runs' \in Nat /\ runningWorkers' \in Int
    BY <1>1 DEF BeginIndexing, Counters
  <2>2. todo' \in Seq(Paths) /\ phase' \in {"idle", "indexing"} /\ mainPc' = "arguments"
    BY <1>1, TreeAssumption DEF BeginIndexing
  <2>3. cancelled' \in BOOLEAN /\ reported' \subseteq Paths
    BY <1>1 DEF BeginIndexing
  <2> QED BY <1>1, <2>1, <2>2, <2>3 DEF BeginIndexing
<1>2. CASE StopIndexing
  BY <1>2 DEF StopIndexing, RequestCancellation
<1>3. CASE NextArgument
  <2>1. todo # <<>> /\ mainPc = "arguments" /\ todo' = Tail(todo) /\ mainPc' = mainPc
    BY <1>3 DEF NextArgument
  <2>5. todo \in Seq(Paths) /\ dirs \in Seq(ArgDirs) /\ fileTargets \in QueueOf(Paths)
    OBVIOUS
  <2>2. Head(todo) \in Paths /\ Tail(todo) \in Seq(Paths)
    BY <2>1, HeadTail
  <2>3. dirs' \in Seq(ArgDirs) /\ fileTargets' \in QueueOf(Paths)
    <3>1. CASE Head(todo) \in Ignored
      BY <1>3, <3>1 DEF NextArgument
    <3>2. CASE Head(todo) \notin Ignored /\ Head(todo) \in DOMAIN Children
      <4>1. Head(todo) \in ArgDirs
        BY <2>2, <3>2 DEF ArgDirs
      <4>2. dirs' = Append(dirs, Head(todo)) /\ fileTargets' = fileTargets
        BY <1>3, <3>2 DEF NextArgument
      <4>3. Append(dirs, Head(todo)) \in Seq(ArgDirs)
        BY <2>5, <4>1, AppendProperties
      <4> QED BY <2>5, <4>2, <4>3
    <3>3. CASE Head(todo) \notin Ignored /\ Head(todo) \notin DOMAIN Children
      <4>1. dirs' = dirs /\ fileTargets' = EnqueueOne(fileTargets, Head(todo))
        BY <1>3, <3>3 DEF NextArgument
      <4>2. EnqueueOne(fileTargets, Head(todo)) \in QueueOf(Paths)
        BY <2>2, <2>5, QueueTypes, EmptySeq
      <4> QED BY <2>5, <4>1, <4>2
    <3> QED BY <3>1, <3>2, <3>3
  <2> QED BY <1>3, <2>1, <2>2, <2>3 DEF NextArgument
<1>4. CASE StartScan
  <2>1. CASE dirs = <<>>
    BY <1>4, <2>1, EmptySeq DEF StartScan
  <2>2. CASE dirs # <<>>
    <3>1. targets' \in QueueOf(SubDirs) /\ results' \in QueueOf(Paths)
      BY <1>4, <2>2, QueueTypes, EmptySeq DEF StartScan, BeginScan
    <3>2. dirs \in Seq(Paths)
      <4>1. dirs \in Seq(ArgDirs) /\ ArgDirs \subseteq Paths
        BY DEF ArgDirs
      <4> QED BY <4>1, SeqMonotonic
    <3>3. /\ paths' = dirs /\ dirs' = <<>> /\ todo' = dirs /\ mainPc' = "list"
          /\ dirWorkers' = dirWorkers
      BY <1>4, <2>2 DEF StartScan, BeginScan
    <3>8. finishedWorkers' = 0 /\ processedPaths' = 0 /\ stopToken' = FALSE
      BY <1>4, <2>2 DEF StartScan, BeginScan
    <3>4. finishedWorkers' \in Nat /\ processedPaths' \in Nat /\ stopToken' \in BOOLEAN
      BY <3>8
    <3>5. todo' \in Seq(ArgDirs) /\ todo' \in Seq(Paths) /\ dirs' \in Seq(ArgDirs) /\ paths' \in Seq(ArgDirs)
      BY <3>2, <3>3, EmptySeq
    <3>6. UNCHANGED <<events, jobVars, entries, clickVars, scanning>>
      BY <1>4, <2>2 DEF StartScan, BeginScan
    <3>7. LoopsHaveWork'
      BY <3>3, <3>5, <3>6
    <3> HIDE DEF LoopsHaveWork
    <3> QED BY <3>1, <3>3, <3>4, <3>5, <3>6, <3>7
  <2> QED BY <2>1, <2>2
<1>5. CASE OpenDirectory
  <2>1. todo \in Seq(ArgDirs) /\ todo # <<>>
    BY <1>5 DEF OpenDirectory
  <2>2. Head(todo) \in ArgDirs /\ Tail(todo) \in Seq(ArgDirs)
    BY <2>1, HeadTail
  <2>3. Tail(todo) \in Seq(Paths)
    BY <2>2, SeqMonotonic DEF ArgDirs
  <2>4. Children[Head(todo)] \in Seq(Paths)
    BY <2>2, TreeAssumption DEF ArgDirs
  <2> QED BY <1>5, <2>2, <2>3, <2>4 DEF OpenDirectory
<1>6. CASE NextEntry
  <2>1. Head(entries) \in Paths /\ Tail(entries) \in Seq(Paths)
    BY <1>6, HeadTail DEF NextEntry
  <2>2. /\ targets' \in QueueOf(SubDirs) /\ results' \in QueueOf(Paths)
        /\ processedPaths' \in Nat
    <3>4. targets \in QueueOf(SubDirs) /\ results \in QueueOf(Paths) /\ processedPaths \in Nat
      OBVIOUS
    <3>1. CASE Head(entries) \in Ignored \cup Links
      BY <1>6, <3>1 DEF NextEntry, ListEntry
    <3>2. CASE Head(entries) \notin Ignored \cup Links /\ Head(entries) \in SubDirs
      <4>1. EnqueueOne(targets, Head(entries)) \in QueueOf(SubDirs)
        BY <3>2, <3>4, QueueTypes, EmptySeq
      <4>2. /\ targets' = EnqueueOne(targets, Head(entries))
            /\ results' = results /\ processedPaths' = processedPaths
        BY <1>6, <3>2 DEF NextEntry, ListEntry
      <4> QED BY <3>4, <4>1, <4>2
    <3>3. CASE Head(entries) \notin Ignored \cup Links /\ Head(entries) \notin SubDirs
      <4>1. EnqueueOne(results, Head(entries)) \in QueueOf(Paths)
        BY <2>1, <3>4, QueueTypes, EmptySeq
      <4>2. /\ results' = EnqueueOne(results, Head(entries))
            /\ targets' = targets /\ processedPaths' = processedPaths + 1
        BY <1>6, <3>3 DEF NextEntry, ListEntry
      <4> QED BY <3>4, <4>1, <4>2
    <3> QED BY <3>1, <3>2, <3>3
  <2> QED BY <1>6, <2>1, <2>2 DEF NextEntry, ListEntry
<1>7. CASE AnnounceFirstLevel
  <2>1. LaunchWorker("results", processedPaths) /\ processedPaths \in Int
    BY <1>7 DEF AnnounceFirstLevel
  <2>2. /\ jobs' \in Seq(Job) /\ runningWorkers' \in Int
        /\ \A k \in DOMAIN jobs' : jobs'[k].pc = "process" => jobs'[k].batch # <<>>
    BY <2>1, LaunchTypes
  <2> QED BY <1>7, <2>2 DEF AnnounceFirstLevel
<1>8. CASE SpawnOrComplete
  <2>1. CASE ThreadsNum = 0
    BY <1>8, <2>1 DEF SpawnOrComplete
  <2>2. CASE ThreadsNum # 0
    <3> DEFINE new == [i \in 1..ThreadsNum |-> QueuedDirWorker]
    <3>1. ThreadsNum \in Nat
      BY TreeAssumption, LenProperties DEF ThreadsNum
    <3>2. QueuedDirWorker \in DirWorker /\ QueuedDirWorker.pc # "walk"
      BY EmptySeq DEF QueuedDirWorker, DirWorker, DirPcs
    <3>3. new \in Seq(DirWorker) /\ Len(new) = ThreadsNum
      <4>1. new \in [1..ThreadsNum -> DirWorker]
        BY <3>2
      <4>2. new \in Seq(DirWorker)
        BY <3>1, <4>1, SeqDef
      <4>3. DOMAIN new = 1..ThreadsNum
        OBVIOUS
      <4> QED BY <3>1, <4>2, <4>3, LenProperties
    <3>4. dirWorkers' = dirWorkers \o new
      BY <1>8, <2>2 DEF SpawnOrComplete, SpawnDirWorkers
    <3>5. /\ dirWorkers' \in Seq(DirWorker)
          /\ Len(dirWorkers') = Len(dirWorkers) + ThreadsNum
          /\ \A i \in 1..(Len(dirWorkers) + ThreadsNum) :
                dirWorkers'[i] = IF i <= Len(dirWorkers) THEN dirWorkers[i]
                                 ELSE new[i - Len(dirWorkers)]
      <4>1. dirWorkers \in Seq(DirWorker)
        OBVIOUS
      <4> HIDE DEF new, TypeOK
      <4> QED BY <3>3, <3>4, <4>1, ConcatProperties
    <3>6. /\ DOMAIN dirWorkers = 1..Len(dirWorkers) /\ Len(dirWorkers) \in Nat
          /\ DOMAIN dirWorkers' = 1..(Len(dirWorkers) + ThreadsNum)
      BY <3>5, LenProperties
    <3>7. \A i \in DOMAIN dirWorkers' :
             dirWorkers'[i].pc = "walk" => dirWorkers'[i].left # <<>>
      <4> SUFFICES ASSUME NEW i \in DOMAIN dirWorkers', dirWorkers'[i].pc = "walk"
                   PROVE  dirWorkers'[i].left # <<>>
        OBVIOUS
      <4>1. CASE i <= Len(dirWorkers)
        <5>1. i \in DOMAIN dirWorkers /\ dirWorkers'[i] = dirWorkers[i]
          BY <3>5, <3>6, <4>1
        <5> QED BY <5>1
      <4>2. CASE ~(i <= Len(dirWorkers))
        <5>1. dirWorkers'[i] = new[i - Len(dirWorkers)] /\ i - Len(dirWorkers) \in 1..ThreadsNum
          BY <3>1, <3>5, <3>6, <4>2
        <5>2. dirWorkers'[i] = QueuedDirWorker
          BY <5>1
        <5> QED BY <3>2, <5>2
      <4> QED BY <4>1, <4>2
    <3> HIDE DEF new
    <3> QED BY <1>8, <2>2, <3>5, <3>7 DEF SpawnOrComplete, SpawnDirWorkers
  <2> QED BY <2>1, <2>2
<1>9. CASE LaunchFileTargets
  <2>1. Remaining(fileTargets) \in Int
    BY QueueTypes, EmptySeq
  <2>2. /\ jobs' \in Seq(Job) /\ runningWorkers' \in Int
        /\ \A k \in DOMAIN jobs' : jobs'[k].pc = "process" => jobs'[k].batch # <<>>
    BY <1>9, <2>1, LaunchTypes DEF LaunchFileTargets
  <2> QED BY <1>9, <2>2 DEF LaunchFileTargets
<1>10. CASE LeaveEventLoop
  BY <1>10 DEF LeaveEventLoop
<1> QED
  BY <1>1, <1>2, <1>3, <1>4, <1>5, <1>6, <1>7, <1>8, <1>9, <1>10

\* The handlers of the event loop.
LEMMA HandlerTypeOK ==
    ASSUME TypeOK,
           \/ HandleProgress \/ HandleDirFinished \/ HandleResult \/ HandleFileFinished
    PROVE  TypeOK'
<1> USE DEF scanVars
<1>1. /\ mainPc = "loop" /\ events # <<>> /\ events' = Tail(events)
      /\ UNCHANGED <<fileTargets, mainPc, todo, dirs, entries, runs>>
  BY DEF HandleProgress, HandleDirFinished, HandleResult, HandleFileFinished, Handling
<1>2. Head(events) \in DirEvents \cup JobEvents /\ events' \in Seq(DirEvents \cup JobEvents)
  <2>1. events \in Seq(DirEvents \cup JobEvents)
    BY DEF TypeOK
  <2> QED BY <1>1, <2>1, HeadTail
<1>3. CASE HandleProgress
  <2>1. Head(events).type = "progress"
    BY <1>3 DEF HandleProgress, Handling
  <2>2. Head(events).count \in Nat
    BY <1>2, <2>1 DEF DirEvents, JobEvents
  <2>3. processedPaths' \in Nat
    BY <1>3, <2>2 DEF HandleProgress, CountProgress, TypeOK
  <2>4. /\ jobs' \in Seq(Job) /\ runningWorkers' \in Int
        /\ \A k \in DOMAIN jobs' : jobs'[k].pc = "process" => jobs'[k].batch # <<>>
    <3>1. CASE stopToken
      BY <1>3, <3>1 DEF HandleProgress, TypeOK, LoopsHaveWork
    <3>2. CASE ~stopToken
      BY <1>3, <2>2, <3>2, LaunchTypes DEF HandleProgress
    <3> QED BY <3>1, <3>2
  <2>5. /\ UNCHANGED <<targets, results, stopToken, finishedWorkers, scanning, paths, dirWorkers>>
        /\ UNCHANGED <<cancelToken, counts, enabled, phase, cancelled, reported>>
    BY <1>3 DEF HandleProgress, CountProgress
  <2> QED BY <1>1, <1>2, <2>3, <2>4, <2>5 DEF TypeOK, LoopsHaveWork
<1>4. CASE HandleDirFinished
  <2> DEFINE w == Head(events).worker
  <2>1. dirWorkers' = [dirWorkers EXCEPT ![w] = [pc |-> "done", left |-> <<>>, found |-> <<>>]]
    BY <1>4 DEF HandleDirFinished, CountDirFinish, MoveDir
  <2>2. [pc |-> "done", left |-> <<>>, found |-> <<>>] \in DirWorker
    BY EmptySeq DEF DirWorker, DirPcs
  <2>3. dirWorkers \in Seq(DirWorker) /\ finishedWorkers \in Nat /\ scanning \in BOOLEAN
    BY DEF TypeOK
  <2>4. dirWorkers' \in Seq(DirWorker) /\ DOMAIN dirWorkers' = DOMAIN dirWorkers
    BY <2>1, <2>2, <2>3, SeqUpdate
  <2>5. \A v \in DOMAIN dirWorkers' : dirWorkers'[v].pc = "walk" => dirWorkers'[v].left # <<>>
    BY <2>1, <2>4 DEF TypeOK, LoopsHaveWork
  <2>6. finishedWorkers' \in Nat /\ scanning' \in BOOLEAN
    <3>1. /\ finishedWorkers' = finishedWorkers + 1
          /\ scanning' = IF ScanIsComplete THEN FALSE ELSE scanning
      BY <1>4 DEF HandleDirFinished, CountDirFinish
    <3>2. scanning' \in BOOLEAN
      BY <2>3, <3>1
    <3>3. finishedWorkers \in Nat /\ finishedWorkers' = finishedWorkers + 1
      BY <2>3, <3>1
    <3>4. finishedWorkers' \in Nat
      BY <3>3
    <3> QED BY <3>2, <3>4
  <2>7. phase' \in {"idle", "indexing"} /\ enabled' \in BOOLEAN
    BY <1>4 DEF HandleDirFinished, EmitFinished, DoNotFinish, TypeOK
  <2>8. /\ UNCHANGED <<targets, results, stopToken, processedPaths, paths>>
        /\ UNCHANGED <<cancelToken, runningWorkers, counts, jobs, cancelled, reported>>
    BY <1>4 DEF HandleDirFinished, CountDirFinish
  <2> HIDE DEF w
  <2> QED BY <1>1, <1>2, <2>4, <2>5, <2>6, <2>7, <2>8 DEF TypeOK, LoopsHaveWork
<1>5. CASE HandleResult
  <2>1. Head(events).type = "result"
    BY <1>5 DEF HandleResult, Handling
  <2>2. Head(events).path \in Paths
    BY <1>2, <2>1 DEF DirEvents, JobEvents
  <2>3. reported' \subseteq Paths
    BY <1>5, <2>2 DEF HandleResult, TypeOK
  <2>4. counts' \in Counters
    BY <1>5 DEF HandleResult, Counted, Counters, TypeOK
  <2>5. stopToken' \in BOOLEAN /\ cancelToken' \in BOOLEAN /\ cancelled' \in BOOLEAN
    BY <1>5 DEF HandleResult, RequestCancellation, DoNotCancel, TypeOK
  <2>6. phase' \in {"idle", "indexing"} /\ enabled' \in BOOLEAN
    BY <1>5 DEF HandleResult, EmitFinished, DoNotFinish, TypeOK
  <2>7. UNCHANGED <<targets, results, finishedWorkers, processedPaths, scanning, paths,
                    dirWorkers, runningWorkers, jobs>>
    BY <1>5 DEF HandleResult
  <2> QED BY <1>1, <1>2, <2>3, <2>4, <2>5, <2>6, <2>7 DEF TypeOK, LoopsHaveWork
<1>6. CASE HandleFileFinished
  <2> DEFINE j == Head(events).job
             e == [pc |-> "done", queue |-> "files", size |-> 0, batch |-> <<>>]
  <2>1. jobs' = [jobs EXCEPT ![j] = e]
    BY <1>6 DEF HandleFileFinished, EndJob
  <2>2. e \in Job /\ e.pc # "process"
    BY EmptySeq DEF Job, JobPcs
  <2>3. jobs \in Seq(Job) /\ runningWorkers \in Int
    BY DEF TypeOK
  <2> HIDE DEF e, j
  <2>4. jobs' \in Seq(Job) /\ DOMAIN jobs' = DOMAIN jobs
    BY <2>1, <2>2, <2>3, SeqUpdate
  <2>5. \A k \in DOMAIN jobs' : jobs'[k].pc = "process" => jobs'[k].batch # <<>>
    BY <2>1, <2>2, <2>4 DEF TypeOK, LoopsHaveWork
  <2>6. runningWorkers' \in Int
    BY <1>6, <2>3 DEF HandleFileFinished
  <2>7. phase' \in {"idle", "indexing"} /\ enabled' \in BOOLEAN
    BY <1>6 DEF HandleFileFinished, EmitFinished, DoNotFinish, TypeOK
  <2>8. UNCHANGED <<scanVars, cancelToken, counts, cancelled, reported>>
    BY <1>6 DEF HandleFileFinished
  <2> QED BY <1>1, <1>2, <2>4, <2>5, <2>6, <2>7, <2>8 DEF TypeOK, LoopsHaveWork
<1> QED BY <1>3, <1>4, <1>5, <1>6

LEMMA NextTypeOK == TypeOK /\ [Next]_vars => TypeOK'
<1> SUFFICES ASSUME TypeOK, [Next]_vars PROVE TypeOK'
  OBVIOUS
<1>1. CASE UNCHANGED vars
  BY <1>1 DEF vars, scanVars, jobVars, mainVars, TypeOK, LoopsHaveWork
<1>2. CASE \E w \in DOMAIN dirWorkers : DirWorkerThread(w)
  BY <1>2, DirWorkerTypeOK
<1>3. CASE \E j \in DOMAIN jobs : JobStep(j)
  BY <1>3, JobTypeOK
<1>4. CASE BeginIndexing \/ StopIndexing \/ MainStep
  BY <1>4, BeginTypeOK, HandlerTypeOK DEF MainStep
<1> QED BY <1>1, <1>2, <1>3, <1>4 DEF Next

\* Every variable keeps its type in every run, and no loop of the pipeline takes the
\* next element of an empty list (dirscanworker.cpp:28-48, filescanworker.cpp:27-41).
THEOREM TypeCorrect == Spec => []TypeOK
<1>1. Init => TypeOK
  BY InitTypeOK
<1>2. TypeOK /\ [Next]_vars => TypeOK'
  BY NextTypeOK
<1> QED BY <1>1, <1>2, PTL DEF Spec

=============================================================================
