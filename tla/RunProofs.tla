------------------------------ MODULE RunProofs ------------------------------
(***************************************************************************)
(* A whole run of indexing, proved for any tree, any answers of the file   *)
(* saver and any size of queues and pools.  In the first run no file is    *)
(* counted twice, an uncancelled run counts all files, and what the        *)
(* threads do amounts to a run of IndexRun.  Every run comes to an end of  *)
(* its work, and until a first run that nobody stopped is finished some    *)
(* thread can move.                                                        *)
(*                                                                         *)
(* Each part below adds to the invariants of JobProofs:                    *)
(*   PlacesInv  what the places are like that a path can be at             *)
(*   HeldInv    paths are neither made nor, without a cancellation, lost   *)
(*   CountInv   what was counted is what was reported                      *)
(*   QuietInv   when the run has finished no result is on its way          *)
(***************************************************************************)
EXTENDS JobProofs

----------------------------------------------------------------------------
(* Where the files are.  In the first run every path that the run is to    *)
(* come across is at one place: still to be visited by the main thread, in *)
(* a queue, with a worker or a job, in a result on its way, or reported.   *)
(* Only a step of a cancelled run drops one.                               *)
LeftPcs == {"walk", "acquire", "append", "progress"}
FoundPcs == {"queued", "pick", "walk", "acquire", "append", "lastAcquire", "lastAppend"}
ToWalk(p, pc, left) == IF pc \in LeftPcs THEN Weigh(Walked(p), left) ELSE 0
Collects(p, pc, found) == IF pc \in FoundPcs THEN Weigh(Once(p), found) ELSE 0
InWorker(p) ==
    [worker \in DirWorker |->
        ToWalk(p, worker.pc, worker.left) + Collects(p, worker.pc, worker.found)]
InJob(p) ==
    [job \in Job |-> IF job.pc \in {"process", "check"} THEN Weigh(Once(p), job.batch) ELSE 0]
InEvent(p) == [e \in AnyEvent |-> IF e.type = "result" /\ e.path = p THEN 1 ELSE 0]

ToVisit(p) ==
    CASE mainPc = "arguments" -> Weigh(AtArgument(p), todo) + Weigh(Inside(p), dirs)
      [] mainPc = "list" -> Weigh(Inside(p), todo) + Weigh(AtEntry(p), entries)
      [] OTHER -> 0
Given(p) == Weigh(Once(p), fileTargets.items)
Targeted(p) == Weigh(Under(p), targets.items)
Found(p) == Weigh(Once(p), results.items)
Walking(p) == Weigh(InWorker(p), dirWorkers)
Indexing(p) == Weigh(InJob(p), jobs)
Answered(p) == Weigh(InEvent(p), events)
Reported(p) == IF p \in reported THEN 1 ELSE 0
Held(p) ==
    ToVisit(p) + Given(p) + Targeted(p) + Found(p)
    + Walking(p) + Indexing(p) + Answered(p) + Reported(p)

HeldInv ==
    runs = 1 => \A p \in Paths :
        /\ Held(p) <= Occurrences(p)
        /\ SoundStart /\ ~cancelled => Held(p) = Occurrences(p)

\* What the steps that fill and empty these places rely on.
LastPcs == {"lastAcquire", "lastAppend", "lastProgress", "finish", "posted", "done"}
NothingGiven ==
    runs = 0 => dirs = <<>> /\ fileTargets.items = <<>> /\ ~cancelled /\ phase = "idle"
EntriesListed == mainPc # "list" => entries = <<>>
TargetsOfAScan == runs <= 1 /\ paths = <<>> => targets.items = <<>>
LastPicked ==
    runs <= 1 /\ ~stopToken /\ (\E w \in DOMAIN dirWorkers : dirWorkers[w].pc \in LastPcs) =>
      targets.items = <<>>
TokenSet == runs <= 1 /\ SoundStart => (cancelToken => cancelled)
PlacesInv == NothingGiven /\ EntriesListed /\ TargetsOfAScan /\ LastPicked /\ TokenSet

CountInv == runs <= 1 => Total = Cardinality(reported)

\* The weights are natural numbers.
LEMMA Weights ==
    ASSUME NEW S, NEW g \in [S -> Nat]
    PROVE  /\ g \in [S -> Int]
           /\ \A s \in Seq(S) : Weigh(g, s) \in Nat
           /\ \A s \in Seq(S) : Weigh(g, s) > 0 <=> \E i \in DOMAIN s : g[s[i]] > 0
<1>1. g \in [S -> Int]
  <2>1. \A x \in S : g[x] \in Int
    OBVIOUS
  <2> QED
    BY <2>1
<1>2. ASSUME NEW s \in Seq(S)
      PROVE  /\ Weigh(g, s) \in Nat
             /\ Weigh(g, s) > 0 <=> \E i \in DOMAIN s : g[s[i]] > 0
  <2>1. \A i \in DOMAIN s : s[i] \in S
    BY ElementOfSeq, LenProperties
  <2>2. \A i \in DOMAIN s : g[s[i]] \in Nat
    BY <2>1
  <2>3. \A i \in DOMAIN s : g[s[i]] >= 0
    BY <2>2
  <2>4. /\ Weigh(g, s) \in Nat
        /\ \A i \in DOMAIN s : g[s[i]] <= Weigh(g, s)
        /\ (\A i \in DOMAIN s : g[s[i]] = 0) => Weigh(g, s) = 0
    BY <1>1, <2>3, WeighNaturals
  <2>5. ASSUME NEW i \in DOMAIN s, g[s[i]] > 0 PROVE Weigh(g, s) > 0
    <3>1. g[s[i]] \in Nat /\ g[s[i]] <= Weigh(g, s)
      BY <2>2, <2>4
    <3> QED
      BY <2>4, <2>5, <3>1
  <2>6. ASSUME Weigh(g, s) > 0 PROVE \E i \in DOMAIN s : g[s[i]] > 0
    <3>1. PICK i \in DOMAIN s : g[s[i]] # 0
      BY <2>4, <2>6
    <3>2. g[s[i]] > 0
      BY <2>2, <3>1
    <3> QED
      BY <3>2
  <2> QED
    BY <2>4, <2>5, <2>6
<1> QED
  BY <1>1, <1>2

LEMMA ConstantWeights ==
    ASSUME NEW p
    PROVE  /\ Once(p) \in [Paths -> Nat]
           /\ Walked(p) \in [Paths -> Nat]
           /\ Under(p) \in [SubDirs -> Nat]
           /\ AtEntry(p) \in [Paths -> Nat]
           /\ Inside(p) \in [ArgDirs -> Nat]
           /\ AtArgument(p) \in [Paths -> Nat]
           /\ Occurrences(p) \in Nat
<1>1. Once(p) \in [Paths -> Nat] /\ Walked(p) \in [Paths -> Nat]
  BY DEF Once, Walked
<1>2. \A d \in SubDirs : Weigh(Walked(p), Below[d]) \in Nat
  BY <1>1, Weights, TreeAssumption
<1>3. Under(p) \in [SubDirs -> Nat]
  BY <1>2 DEF Under
<1>4. AtEntry(p) \in [Paths -> Nat]
  <2>1. \A e \in Paths : (IF e \in Ignored \cup Links THEN 0
                          ELSE IF e \in SubDirs THEN Under(p)[e] ELSE Once(p)[e]) \in Nat
    BY <1>1, <1>3
  <2> QED
    BY <2>1 DEF AtEntry
<1>5. \A d \in ArgDirs : Weigh(AtEntry(p), Children[d]) \in Nat
  <2>1. \A d \in ArgDirs : Children[d] \in Seq(Paths)
    BY TreeAssumption DEF ArgDirs
  <2> QED
    BY <1>4, <2>1, Weights
<1>6. Inside(p) \in [ArgDirs -> Nat]
  BY <1>5 DEF Inside
<1>7. AtArgument(p) \in [Paths -> Nat]
  <2>1. \A a \in Paths : (IF a \in Ignored THEN 0
                          ELSE IF a \in DOMAIN Children THEN Inside(p)[a] ELSE Once(p)[a]) \in Nat
    BY <1>1, <1>6 DEF ArgDirs
  <2> QED
    BY <2>1 DEF AtArgument
<1>8. Occurrences(p) \in Nat
  BY <1>7, Weights, TreeAssumption DEF Occurrences
<1> QED
  BY <1>1, <1>3, <1>4, <1>6, <1>7, <1>8

LEMMA StateWeights ==
    ASSUME NEW p
    PROVE  /\ InWorker(p) \in [DirWorker -> Nat]
           /\ InJob(p) \in [Job -> Nat]
           /\ InEvent(p) \in [AnyEvent -> Nat]
<1>1. \A s \in Seq(Paths) : Weigh(Once(p), s) \in Nat /\ Weigh(Walked(p), s) \in Nat
  BY ConstantWeights, Weights
<1>2. ASSUME NEW worker \in DirWorker
      PROVE  ToWalk(p, worker.pc, worker.left) + Collects(p, worker.pc, worker.found) \in Nat
  <2>1. worker.left \in Seq(Paths) /\ worker.found \in Seq(Paths)
    BY DEF DirWorker
  <2>2. /\ ToWalk(p, worker.pc, worker.left) \in Nat
        /\ Collects(p, worker.pc, worker.found) \in Nat
    BY <1>1, <2>1 DEF ToWalk, Collects
  <2> QED
    BY <2>2
<1>3. InWorker(p) \in [DirWorker -> Nat]
  BY <1>2 DEF InWorker
<1>4. InJob(p) \in [Job -> Nat]
  <2>1. ASSUME NEW job \in Job
        PROVE  (IF job.pc \in {"process", "check"} THEN Weigh(Once(p), job.batch) ELSE 0) \in Nat
    <3>1. job.batch \in Seq(Paths)
      BY DEF Job
    <3> QED
      BY <1>1, <3>1
  <2> QED
    BY <2>1 DEF InJob
<1>5. InEvent(p) \in [AnyEvent -> Nat]
  BY DEF InEvent
<1> QED
  BY <1>3, <1>4, <1>5

\* What is at each place is a number.
LEMMA PlaceTypes ==
    ASSUME TypeOK, NEW p
    PROVE  /\ ToVisit(p) \in Nat /\ Given(p) \in Nat /\ Targeted(p) \in Nat /\ Found(p) \in Nat
           /\ Walking(p) \in Nat /\ Indexing(p) \in Nat /\ Answered(p) \in Nat
           /\ Reported(p) \in Nat /\ Held(p) \in Nat
<1>1. /\ todo \in Seq(Paths) /\ dirs \in Seq(ArgDirs) /\ entries \in Seq(Paths)
      /\ mainPc = "list" => todo \in Seq(ArgDirs)
      /\ dirWorkers \in Seq(DirWorker) /\ jobs \in Seq(Job) /\ events \in Seq(AnyEvent)
      /\ targets \in QueueOf(SubDirs) /\ results \in QueueOf(Paths)
      /\ fileTargets \in QueueOf(Paths)
  BY DEF TypeOK, LoopsHaveWork, AnyEvent
<1>2. /\ targets.items \in Seq(SubDirs) /\ results.items \in Seq(Paths)
      /\ fileTargets.items \in Seq(Paths)
  BY <1>1 DEF QueueOf
<1>3. Given(p) \in Nat /\ Found(p) \in Nat
  BY <1>2, ConstantWeights, Weights DEF Given, Found
<1>4. Targeted(p) \in Nat
  BY <1>2, ConstantWeights, Weights DEF Targeted
<1>5. Walking(p) \in Nat
  BY <1>1, StateWeights, Weights DEF Walking
<1>6. Indexing(p) \in Nat
  BY <1>1, StateWeights, Weights DEF Indexing
<1>7. Answered(p) \in Nat
  BY <1>1, StateWeights, Weights DEF Answered
<1>8. Reported(p) \in Nat
  BY DEF Reported
<1>9. ToVisit(p) \in Nat
  <2>1. CASE mainPc = "arguments"
    <3>1. Weigh(AtArgument(p), todo) \in Nat
      BY <1>1, ConstantWeights, Weights
    <3>2. Weigh(Inside(p), dirs) \in Nat
      BY <1>1, ConstantWeights, Weights
    <3> QED
      BY <2>1, <3>1, <3>2 DEF ToVisit
  <2>2. CASE mainPc = "list"
    <3>1. Weigh(Inside(p), todo) \in Nat
      BY <1>1, <2>2, ConstantWeights, Weights
    <3>2. Weigh(AtEntry(p), entries) \in Nat
      BY <1>1, ConstantWeights, Weights
    <3> QED
      BY <2>2, <3>1, <3>2 DEF ToVisit
  <2>3. CASE mainPc \notin {"arguments", "list"}
    BY <2>3 DEF ToVisit
  <2> QED
    BY <2>1, <2>2, <2>3
<1>10. Held(p) \in Nat
  BY <1>3, <1>4, <1>5, <1>6, <1>7, <1>8, <1>9 DEF Held
<1> QED
  BY <1>3, <1>4, <1>5, <1>6, <1>7, <1>8, <1>9, <1>10

PlacesAreNumbers ==
    \A p : /\ ToVisit(p) \in Nat /\ Given(p) \in Nat /\ Targeted(p) \in Nat /\ Found(p) \in Nat
          /\ Walking(p) \in Nat /\ Indexing(p) \in Nat /\ Answered(p) \in Nat
          /\ Reported(p) \in Nat /\ Held(p) \in Nat
LEMMA PlacesThen == TypeOK' => PlacesAreNumbers'
<1>1. TypeOK => PlacesAreNumbers
  BY PlaceTypes DEF PlacesAreNumbers
<1> QED
  BY <1>1, PTL

LEMMA NoPath == \E none \in Seq(Paths) : none = <<>>
<1> WITNESS <<>> \in Seq(Paths)
<1> QED
  OBVIOUS

\* Files is the set of the paths a complete run comes across.
LEMMA FilesOccur ==
    ASSUME NEW p \in Paths
    PROVE  p \in Files <=> Occurrences(p) > 0
<1>1. ASSUME NEW d \in SubDirs
      PROVE  Under(p)[d] > 0 <=> d \notin Ignored /\ p \notin Ignored /\ p \in Elements(Below[d])
  <2>1. Below[d] \in Seq(Paths)
    BY TreeAssumption
  <2>2. \A i \in DOMAIN Below[d] : Below[d][i] \in Paths
    BY <2>1, ElementOfSeq, LenProperties
  <2>3. Weigh(Walked(p), Below[d]) > 0 <=> \E i \in DOMAIN Below[d] : Walked(p)[Below[d][i]] > 0
    BY <2>1, ConstantWeights, Weights
  <2>4. \A i \in DOMAIN Below[d] : Walked(p)[Below[d][i]] > 0 <=> Below[d][i] = p /\ p \notin Ignored
    BY <2>2 DEF Walked
  <2>5. Under(p)[d] = IF d \in Ignored THEN 0 ELSE Weigh(Walked(p), Below[d])
    BY DEF Under
  <2> QED
    BY <2>3, <2>4, <2>5 DEF Elements
<1>2. ASSUME NEW e \in Paths
      PROVE  AtEntry(p)[e] > 0 <=>
               /\ e \notin Ignored \cup Links
               /\ IF e \in SubDirs THEN p \notin Ignored /\ p \in Elements(Below[e]) ELSE e = p
  <2>1. AtEntry(p)[e] = IF e \in Ignored \cup Links THEN 0
                        ELSE IF e \in SubDirs THEN Under(p)[e] ELSE Once(p)[e]
    BY DEF AtEntry
  <2>2. Once(p)[e] > 0 <=> e = p
    BY DEF Once
  <2> QED
    BY <1>1, <2>1, <2>2
<1>3. ASSUME NEW d \in ArgDirs
      PROVE  Inside(p)[d] > 0 <=> \E e \in Elements(Children[d]) :
               /\ e \notin Ignored \cup Links
               /\ IF e \in SubDirs THEN p \notin Ignored /\ p \in Elements(Below[e]) ELSE e = p
  <2>1. Children[d] \in Seq(Paths)
    BY TreeAssumption DEF ArgDirs
  <2>2. \A i \in DOMAIN Children[d] : Children[d][i] \in Paths
    BY <2>1, ElementOfSeq, LenProperties
  <2>3. Inside(p)[d] > 0 <=> \E i \in DOMAIN Children[d] : AtEntry(p)[Children[d][i]] > 0
    BY <2>1, ConstantWeights, Weights DEF Inside
  <2> QED
    BY <1>2, <2>2, <2>3 DEF Elements
<1>4. ASSUME NEW a \in Paths
      PROVE  AtArgument(p)[a] > 0 <=>
               /\ a \notin Ignored
               /\ IF a \in DOMAIN Children
                  THEN \E e \in Elements(Children[a]) :
                         /\ e \notin Ignored \cup Links
                         /\ IF e \in SubDirs THEN p \notin Ignored /\ p \in Elements(Below[e])
                                             ELSE e = p
                  ELSE a = p
  <2>1. AtArgument(p)[a] = IF a \in Ignored THEN 0
                           ELSE IF a \in DOMAIN Children THEN Inside(p)[a] ELSE Once(p)[a]
    BY DEF AtArgument
  <2>2. Once(p)[a] > 0 <=> a = p
    BY DEF Once
  <2>3. a \in DOMAIN Children => a \in ArgDirs
    BY DEF ArgDirs
  <2> QED
    BY <1>3, <2>1, <2>2, <2>3
<1>5. Occurrences(p) > 0 <=> \E a \in Elements(Args) : AtArgument(p)[a] > 0
  <2>1. Occurrences(p) > 0 <=> \E i \in DOMAIN Args : AtArgument(p)[Args[i]] > 0
    BY TreeAssumption, ConstantWeights, Weights DEF Occurrences
  <2> QED
    BY <2>1 DEF Elements
<1>6. Elements(Args) \subseteq Paths
  BY DEF Paths
<1> DEFINE kept == Elements(Args) \ Ignored
           first == (UNION {Elements(Children[d]) : d \in kept \cap DOMAIN Children})
                      \ (Ignored \cup Links)
           below == (UNION {Elements(Below[d]) : d \in first \cap SubDirs}) \ Ignored
<1>7. p \in Files <=> \/ p \in kept \ DOMAIN Children
                     \/ p \in first \ SubDirs
                     \/ p \in below
  BY DEF Files
<1>10. \A a : a \in kept <=> a \in Elements(Args) /\ a \notin Ignored
  OBVIOUS
<1> HIDE DEF kept
<1>8. \A e : e \in first <=> /\ e \notin Ignored \cup Links
                            /\ \E a \in kept : a \in DOMAIN Children /\ e \in Elements(Children[a])
  OBVIOUS
<1> HIDE DEF first
<1>9. p \in below <=> p \notin Ignored /\ \E e \in first : e \in SubDirs /\ p \in Elements(Below[e])
  OBVIOUS
<1> HIDE DEF below
<1>11. ASSUME NEW a \in Elements(Args), AtArgument(p)[a] > 0 PROVE p \in Files
  <2>1. a \in Paths /\ a \in kept
    BY <1>4, <1>6, <1>10, <1>11
  <2>2. CASE a \notin DOMAIN Children
    BY <1>4, <1>7, <1>11, <2>1, <2>2
  <2>3. CASE a \in DOMAIN Children
    <3>1. PICK e \in Elements(Children[a]) :
             /\ e \notin Ignored \cup Links
             /\ IF e \in SubDirs THEN p \notin Ignored /\ p \in Elements(Below[e]) ELSE e = p
      BY <1>4, <1>11, <2>1, <2>3
    <3>2. e \in first
      BY <1>8, <2>1, <2>3, <3>1
    <3> QED
      BY <1>7, <1>9, <3>1, <3>2
  <2> QED
    BY <2>2, <2>3
<1>12. ASSUME p \in Files PROVE \E a \in Elements(Args) : AtArgument(p)[a] > 0
  <2>1. CASE p \in kept /\ p \notin DOMAIN Children
    BY <1>4, <1>6, <1>10, <2>1
  <2>2. ASSUME NEW e \in first,
               IF e \in SubDirs THEN p \notin Ignored /\ p \in Elements(Below[e]) ELSE e = p
        PROVE  \E a \in Elements(Args) : AtArgument(p)[a] > 0
    <3>1. PICK a \in kept : a \in DOMAIN Children /\ e \in Elements(Children[a])
      BY <1>8
    <3>2. a \in Paths /\ a \notin Ignored /\ a \in Elements(Args) /\ e \notin Ignored \cup Links
      BY <1>6, <1>8, <1>10, <3>1
    <3>3. AtArgument(p)[a] > 0
      BY <1>4, <2>2, <3>1, <3>2
    <3> QED
      BY <3>2, <3>3
  <2>3. CASE p \in first /\ p \notin SubDirs
    BY <2>2, <2>3
  <2>4. CASE p \in below
    <3>1. PICK e \in first : e \in SubDirs /\ p \in Elements(Below[e])
      BY <1>9, <2>4
    <3> QED
      BY <1>9, <2>2, <2>4, <3>1
  <2> QED
    BY <1>7, <1>12, <2>1, <2>3, <2>4
<1> QED
  BY <1>5, <1>11, <1>12

\* What each operation of a queue does to the weight of its elements.
LEMMA QueueWeights ==
    ASSUME NEW S, NEW g \in [S -> Nat], NEW q \in QueueOf(S)
    PROVE  /\ q.items \in Seq(S) /\ Weigh(g, q.items) \in Nat
           /\ \A n : Acquire(q, n).items = q.items /\ Release(q, n).items = q.items
           /\ Clear(q).items = <<>>
           /\ \A s \in Seq(S) : Weigh(g, Put(q, s).items) = Weigh(g, q.items) + Weigh(g, s)
           /\ \A x \in S : Weigh(g, EnqueueOne(q, x).items) = Weigh(g, q.items) + g[x]
           /\ \A n : Holds(q, n) =>
                /\ Batch(q, n) \in Seq(S) /\ Len(Batch(q, n)) = n
                /\ Weigh(g, Batch(q, n)) \in Nat /\ Weigh(g, WithoutBatch(q, n).items) \in Nat
                /\ Weigh(g, q.items) = Weigh(g, Batch(q, n)) + Weigh(g, WithoutBatch(q, n).items)
           /\ q.items # <<>> =>
                /\ Head(q.items) \in S
                /\ g[Head(q.items)] \in Nat /\ Weigh(g, WithoutFirst(q).items) \in Nat
                /\ Weigh(g, q.items) = g[Head(q.items)] + Weigh(g, WithoutFirst(q).items)
<1>1. q.items \in Seq(S) /\ q = [items |-> q.items, avail |-> q.avail]
  BY DEF QueueOf
<1>2. g \in [S -> Int] /\ Weigh(g, q.items) \in Nat
  BY <1>1, Weights
<1>3. \A n : Acquire(q, n).items = q.items /\ Release(q, n).items = q.items
  BY <1>1 DEF Acquire, Release, QueueOf
<1>4. Clear(q).items = <<>>
  BY DEF Clear
<1>5. ASSUME NEW s \in Seq(S)
      PROVE  Weigh(g, Put(q, s).items) = Weigh(g, q.items) + Weigh(g, s)
  <2>1. Put(q, s).items = q.items \o s
    BY DEF Put, QueueOf
  <2> QED
    BY <1>1, <1>2, <2>1, WeighJoin
<1>6. ASSUME NEW x \in S
      PROVE  Weigh(g, EnqueueOne(q, x).items) = Weigh(g, q.items) + g[x]
  <2>1. EnqueueOne(q, x).items = Append(q.items, x)
    BY DEF EnqueueOne
  <2> QED
    BY <1>1, <1>2, <2>1, WeighAppend
<1>7. ASSUME NEW n, Holds(q, n)
      PROVE  /\ Batch(q, n) \in Seq(S) /\ Len(Batch(q, n)) = n
             /\ Weigh(g, Batch(q, n)) \in Nat /\ Weigh(g, WithoutBatch(q, n).items) \in Nat
             /\ Weigh(g, q.items) = Weigh(g, Batch(q, n)) + Weigh(g, WithoutBatch(q, n).items)
  <2>1. WithoutBatch(q, n).items = SubSeq(q.items, n + 1, Len(q.items))
    BY DEF WithoutBatch, QueueOf
  <2>2. n \in 0..Len(q.items) /\ Batch(q, n) = SubSeq(q.items, 1, n)
    BY <1>7 DEF Holds, Batch
  <2>3. PICK s \in Seq(S) : s = q.items
    BY <1>1
  <2>4. n \in 0..Len(s)
    BY <2>2, <2>3
  <2>5. /\ SubSeq(s, 1, n) \in Seq(S) /\ Len(SubSeq(s, 1, n)) = n
        /\ SubSeq(s, n + 1, Len(s)) \in Seq(S)
        /\ Weigh(g, s) = Weigh(g, SubSeq(s, 1, n)) + Weigh(g, SubSeq(s, n + 1, Len(s)))
    BY <1>2, <2>4, WeighCut
  <2>6. Weigh(g, SubSeq(s, 1, n)) \in Nat /\ Weigh(g, SubSeq(s, n + 1, Len(s))) \in Nat
    BY <2>5, Weights
  <2> QED
    BY <2>1, <2>2, <2>3, <2>5, <2>6
<1>8. ASSUME q.items # <<>>
      PROVE  /\ Head(q.items) \in S
             /\ g[Head(q.items)] \in Nat /\ Weigh(g, WithoutFirst(q).items) \in Nat
             /\ Weigh(g, q.items) = g[Head(q.items)] + Weigh(g, WithoutFirst(q).items)
  <2>1. WithoutFirst(q).items = Tail(q.items)
    BY DEF WithoutFirst
  <2>2. /\ Head(q.items) \in S /\ Tail(q.items) \in Seq(S)
        /\ Weigh(g, q.items) = g[Head(q.items)] + Weigh(g, Tail(q.items))
    BY <1>1, <1>2, <1>8, WeighTail
  <2>3. Weigh(g, Tail(q.items)) \in Nat
    BY <2>2, Weights
  <2> QED
    BY <2>1, <2>2, <2>3
<1> QED
  BY <1>1, <1>2, <1>3, <1>4, <1>5, <1>6, <1>7, <1>8

\* What one worker, job or event more, less or elsewhere does to what they hold.
LEMMA WorkerHolds ==
    ASSUME TypeOK, NEW p, NEW w \in DOMAIN dirWorkers, NEW worker \in DirWorker,
           dirWorkers' = [dirWorkers EXCEPT ![w] = worker]
    PROVE  /\ InWorker(p)[dirWorkers[w]] \in Nat /\ InWorker(p)[worker] \in Nat
           /\ Walking(p)' = (Walking(p) - InWorker(p)[dirWorkers[w]]) + InWorker(p)[worker]
<1>1. dirWorkers \in Seq(DirWorker) /\ dirWorkers[w] \in DirWorker
  BY WorkerAt
<1>2. InWorker(p) \in [DirWorker -> Nat] /\ InWorker(p) \in [DirWorker -> Int]
  BY StateWeights, Weights
<1>3. Weigh(InWorker(p), [dirWorkers EXCEPT ![w] = worker]) =
        Weigh(InWorker(p), dirWorkers) - InWorker(p)[dirWorkers[w]] + InWorker(p)[worker]
  BY <1>1, <1>2, WeighExcept
<1>4. Walking(p)' = Weigh(InWorker(p), dirWorkers')
  BY DEF Walking
<1>5. InWorker(p)[dirWorkers[w]] \in Nat /\ InWorker(p)[worker] \in Nat
  BY <1>1, <1>2
<1>6. Weigh(InWorker(p), dirWorkers) \in Nat
  BY <1>1, <1>2, Weights
<1> QED
  BY <1>3, <1>4, <1>5, <1>6 DEF Walking

LEMMA JobHolds ==
    ASSUME TypeOK, NEW p, NEW j \in DOMAIN jobs, NEW job \in Job,
           jobs' = [jobs EXCEPT ![j] = job]
    PROVE  /\ InJob(p)[jobs[j]] \in Nat /\ InJob(p)[job] \in Nat
           /\ Indexing(p)' = (Indexing(p) - InJob(p)[jobs[j]]) + InJob(p)[job]
<1>1. jobs \in Seq(Job) /\ jobs[j] \in Job
  BY JobAt
<1>2. InJob(p) \in [Job -> Nat] /\ InJob(p) \in [Job -> Int]
  BY StateWeights, Weights
<1>3. Weigh(InJob(p), [jobs EXCEPT ![j] = job]) =
        Weigh(InJob(p), jobs) - InJob(p)[jobs[j]] + InJob(p)[job]
  BY <1>1, <1>2, WeighExcept
<1>4. Indexing(p)' = Weigh(InJob(p), jobs')
  BY DEF Indexing
<1>5. InJob(p)[jobs[j]] \in Nat /\ InJob(p)[job] \in Nat
  BY <1>1, <1>2
<1>6. Weigh(InJob(p), jobs) \in Nat
  BY <1>1, <1>2, Weights
<1> QED
  BY <1>3, <1>4, <1>5, <1>6 DEF Indexing

LEMMA LaunchHolds ==
    ASSUME TypeOK, NEW p, NEW queue \in {"files", "results"}, NEW size \in Int,
           LaunchWorker(queue, size)
    PROVE  Indexing(p)' = Indexing(p)
<1> DEFINE job == NewJob(queue, size)
<1>1. job \in Job
  <2>1. <<>> \in Seq(Paths)
    OBVIOUS
  <2> QED
    BY <2>1 DEF NewJob, Job, JobPcs
<1>2. InJob(p)[job] = 0
  BY <1>1 DEF InJob, NewJob
<1>3. jobs' = Append(jobs, job)
  BY DEF LaunchWorker
<1> HIDE DEF job
<1>4. jobs \in Seq(Job)
  BY DEF TypeOK
<1>5. InJob(p) \in [Job -> Nat] /\ InJob(p) \in [Job -> Int]
  BY StateWeights, Weights
<1>6. Weigh(InJob(p), Append(jobs, job)) = Weigh(InJob(p), jobs) + InJob(p)[job]
  BY <1>1, <1>4, <1>5, WeighAppend
<1>7. Weigh(InJob(p), jobs) \in Nat
  BY <1>4, <1>5, Weights
<1>8. Indexing(p)' = Weigh(InJob(p), jobs')
  BY DEF Indexing
<1> QED
  BY <1>2, <1>3, <1>6, <1>7, <1>8 DEF Indexing

LEMMA PostHolds ==
    ASSUME TypeOK, NEW p, NEW e \in AnyEvent, Post(e)
    PROVE  InEvent(p)[e] \in Nat /\ Answered(p)' = Answered(p) + InEvent(p)[e]
<1>1. events \in Seq(AnyEvent) /\ events' = Append(events, e)
  BY DEF TypeOK, AnyEvent, Post
<1>2. InEvent(p) \in [AnyEvent -> Nat] /\ InEvent(p) \in [AnyEvent -> Int]
  BY StateWeights, Weights
<1>3. Weigh(InEvent(p), events') = Weigh(InEvent(p), events) + InEvent(p)[e]
  BY <1>1, <1>2, WeighAppend
<1>4. Answered(p)' = Weigh(InEvent(p), events')
  BY DEF Answered
<1>5. InEvent(p)[e] \in Nat
  BY <1>2
<1> QED
  BY <1>3, <1>4, <1>5 DEF Answered

LEMMA TakeHolds ==
    ASSUME TypeOK, NEW p, events # <<>>, events' = Tail(events)
    PROVE  /\ Head(events) \in AnyEvent
           /\ InEvent(p)[Head(events)] \in Nat /\ Answered(p)' \in Nat
           /\ Answered(p) = InEvent(p)[Head(events)] + Answered(p)'
<1>1. events \in Seq(AnyEvent)
  BY DEF TypeOK, AnyEvent
<1>2. InEvent(p) \in [AnyEvent -> Nat] /\ InEvent(p) \in [AnyEvent -> Int]
  BY StateWeights, Weights
<1>3. /\ Head(events) \in AnyEvent /\ Tail(events) \in Seq(AnyEvent)
      /\ Weigh(InEvent(p), events) = InEvent(p)[Head(events)] + Weigh(InEvent(p), Tail(events))
  BY <1>1, <1>2, WeighTail
<1>4. Answered(p)' = Weigh(InEvent(p), events')
  BY DEF Answered
<1>5. InEvent(p)[Head(events)] \in Nat /\ Weigh(InEvent(p), Tail(events)) \in Nat
  BY <1>2, <1>3, Weights
<1> QED
  BY <1>3, <1>4, <1>5 DEF Answered

\* What is not changed holds the same.
LEMMA PlacesUntouched ==
    ASSUME NEW p
    PROVE  /\ UNCHANGED <<mainPc, todo, dirs, entries>> => ToVisit(p)' = ToVisit(p)
           /\ fileTargets' = fileTargets => Given(p)' = Given(p)
           /\ targets' = targets => Targeted(p)' = Targeted(p)
           /\ results' = results => Found(p)' = Found(p)
           /\ dirWorkers' = dirWorkers => Walking(p)' = Walking(p)
           /\ jobs' = jobs => Indexing(p)' = Indexing(p)
           /\ events' = events => Answered(p)' = Answered(p)
           /\ reported' = reported => Reported(p)' = Reported(p)
BY DEF ToVisit, Given, Targeted, Found, Walking, Indexing, Answered, Reported

\* A worker that goes on elsewhere in run().
LEMMA WorkerGoes ==
    ASSUME TypeOK, NEW p, NEW w \in DOMAIN dirWorkers,
           NEW pc \in DirPcs, NEW left \in Seq(Paths), NEW found \in Seq(Paths),
           dirWorkers' = MoveDir(w, pc, left, found)
    PROVE  /\ ToWalk(p, pc, left) \in Nat /\ Collects(p, pc, found) \in Nat
           /\ ToWalk(p, dirWorkers[w].pc, dirWorkers[w].left) \in Nat
           /\ Collects(p, dirWorkers[w].pc, dirWorkers[w].found) \in Nat
           /\ Walking(p)' = (Walking(p) - (ToWalk(p, dirWorkers[w].pc, dirWorkers[w].left)
                                          + Collects(p, dirWorkers[w].pc, dirWorkers[w].found)))
                            + (ToWalk(p, pc, left) + Collects(p, pc, found))
<1> DEFINE worker == [pc |-> pc, left |-> left, found |-> found]
<1>1. /\ worker \in DirWorker /\ worker.pc = pc /\ worker.left = left /\ worker.found = found
      /\ dirWorkers' = [dirWorkers EXCEPT ![w] = worker]
  BY DEF DirWorker, MoveDir
<1> HIDE DEF worker
<1>2. /\ dirWorkers[w] \in DirWorker
      /\ dirWorkers[w].left \in Seq(Paths) /\ dirWorkers[w].found \in Seq(Paths)
  BY WorkerAt
<1>3. \A s \in Seq(Paths) : Weigh(Once(p), s) \in Nat /\ Weigh(Walked(p), s) \in Nat
  BY ConstantWeights, Weights
<1>4. /\ ToWalk(p, pc, left) \in Nat /\ Collects(p, pc, found) \in Nat
      /\ ToWalk(p, dirWorkers[w].pc, dirWorkers[w].left) \in Nat
      /\ Collects(p, dirWorkers[w].pc, dirWorkers[w].found) \in Nat
  BY <1>2, <1>3 DEF ToWalk, Collects
<1>5. Walking(p)' = (Walking(p) - InWorker(p)[dirWorkers[w]]) + InWorker(p)[worker]
  BY <1>1, WorkerHolds
<1>6. /\ InWorker(p)[worker] = ToWalk(p, pc, left) + Collects(p, pc, found)
      /\ InWorker(p)[dirWorkers[w]] = ToWalk(p, dirWorkers[w].pc, dirWorkers[w].left)
                                      + Collects(p, dirWorkers[w].pc, dirWorkers[w].found)
  BY <1>1, <1>2 DEF InWorker
<1> QED
  BY <1>4, <1>5, <1>6

\* What a directory worker takes from the targets it walks, what it walks it collects,
\* what it has collected it enqueues; it drops something only when the scan was stopped.
WorkerBalance(p) == (Targeted(p) + Found(p)) + Walking(p)

LEMMA PickKeeps ==
    ASSUME TypeOK, NEW p \in Paths, NEW w \in DOMAIN dirWorkers, PickDirectory(w)
    PROVE  WorkerBalance(p)' = WorkerBalance(p)
<1> DEFINE d == Head(targets.items)
<1>1. /\ dirWorkers[w].pc = "pick" /\ targets.items # <<>>
      /\ dirWorkers' = IF d \in Ignored \/ Below[d] = <<>> THEN dirWorkers
                       ELSE MoveDir(w, "walk", Below[d], dirWorkers[w].found)
      /\ targets' = WithoutFirst(targets) /\ results' = results
  BY DEF PickDirectory, AtDir
<1>2. Under(p) \in [SubDirs -> Nat] /\ targets \in QueueOf(SubDirs)
  BY ConstantWeights DEF TypeOK
<1>3. /\ d \in SubDirs /\ Under(p)[d] \in Nat
      /\ Targeted(p)' = Weigh(Under(p), WithoutFirst(targets).items) /\ Targeted(p)' \in Nat
      /\ Targeted(p) = Under(p)[d] + Weigh(Under(p), WithoutFirst(targets).items)
  BY <1>1, <1>2, QueueWeights DEF Targeted
<1> HIDE DEF d
<1>4. Found(p)' = Found(p)
  BY <1>1, PlacesUntouched
<1>5. Found(p) \in Nat /\ Walking(p) \in Nat
  BY PlaceTypes
<1>6. Under(p)[d] = IF d \in Ignored THEN 0 ELSE Weigh(Walked(p), Below[d])
  BY <1>3 DEF Under
<1>7. CASE d \in Ignored \/ Below[d] = <<>>
  <2>1. Walking(p)' = Walking(p)
    BY <1>1, <1>7, PlacesUntouched
  <2>2. Under(p)[d] = 0
    BY <1>6, <1>7, WeighEmpty
  <2> QED
    BY <1>3, <1>4, <1>5, <2>1, <2>2 DEF WorkerBalance
<1>8. CASE d \notin Ignored /\ Below[d] # <<>>
  <2>1. PICK left \in Seq(Paths) : left = Below[d]
    BY <1>3, TreeAssumption
  <2>2. dirWorkers' = MoveDir(w, "walk", left, dirWorkers[w].found) /\ dirWorkers[w].found \in Seq(Paths)
    BY <1>1, <1>8, <2>1, WorkerAt
  <2>3. "walk" \in DirPcs
    BY DEF DirPcs
  <2>4. /\ ToWalk(p, "walk", left) \in Nat /\ Collects(p, "walk", dirWorkers[w].found) \in Nat
        /\ ToWalk(p, dirWorkers[w].pc, dirWorkers[w].left) \in Nat
        /\ Collects(p, dirWorkers[w].pc, dirWorkers[w].found) \in Nat
        /\ Walking(p)' = (Walking(p) - (ToWalk(p, dirWorkers[w].pc, dirWorkers[w].left)
                                        + Collects(p, dirWorkers[w].pc, dirWorkers[w].found)))
                         + (ToWalk(p, "walk", left) + Collects(p, "walk", dirWorkers[w].found))
    BY <2>2, <2>3, WorkerGoes
  <2>5. /\ ToWalk(p, "walk", left) = Under(p)[d]
        /\ ToWalk(p, dirWorkers[w].pc, dirWorkers[w].left) = 0
        /\ Collects(p, "walk", dirWorkers[w].found)
              = Collects(p, dirWorkers[w].pc, dirWorkers[w].found)
    BY <1>1, <1>6, <1>8, <2>1 DEF ToWalk, Collects, LeftPcs, FoundPcs
  <2> QED
    BY <1>3, <1>4, <1>5, <2>4, <2>5 DEF WorkerBalance
<1> QED
  BY <1>7, <1>8

\* What stays where it is.
LEMMA GoKeeps ==
    ASSUME TypeOK, NEW p \in Paths, NEW w \in DOMAIN dirWorkers,
           StartDirWorker(w) \/ NoMoreDirectories(w) \/ AcquireResults(w) \/ EmitDirFinished(w)
    PROVE  WorkerBalance(p)' = WorkerBalance(p)
<1>1. PICK pc \in DirPcs :
         /\ dirWorkers' = MoveDir(w, pc, dirWorkers[w].left, dirWorkers[w].found)
         /\ dirWorkers[w].pc \in LeftPcs <=> pc \in LeftPcs
         /\ dirWorkers[w].pc \in FoundPcs <=> pc \in FoundPcs
  <2>1. CASE StartDirWorker(w)
    BY <2>1 DEF StartDirWorker, Goto, AtDir, DirPcs, LeftPcs, FoundPcs
  <2>2. CASE NoMoreDirectories(w)
    BY <2>2 DEF NoMoreDirectories, Goto, AtDir, DirPcs, LeftPcs, FoundPcs
  <2>3. CASE AcquireResults(w)
    BY <2>3 DEF AcquireResults, Goto, AtDir, DirPcs, LeftPcs, FoundPcs
  <2>4. CASE EmitDirFinished(w)
    BY <2>4 DEF EmitDirFinished, Goto, AtDir, DirPcs, LeftPcs, FoundPcs
  <2> QED
    BY <2>1, <2>2, <2>3, <2>4
<1>2. dirWorkers[w].left \in Seq(Paths) /\ dirWorkers[w].found \in Seq(Paths)
  BY WorkerAt
<1>3. /\ ToWalk(p, pc, dirWorkers[w].left) = ToWalk(p, dirWorkers[w].pc, dirWorkers[w].left)
      /\ Collects(p, pc, dirWorkers[w].found) = Collects(p, dirWorkers[w].pc, dirWorkers[w].found)
  BY <1>1 DEF ToWalk, Collects
<1>4. Walking(p) \in Nat /\ Walking(p)' = Walking(p)
  BY <1>1, <1>2, <1>3, WorkerGoes, PlaceTypes
<1>5. targets' = targets /\ results'.items = results.items
  <2>1. results \in QueueOf(Paths)
    BY DEF TypeOK
  <2>2. \A n : Acquire(results, n).items = results.items
    BY <2>1 DEF Acquire, QueueOf
  <2> QED
    BY <2>2 DEF StartDirWorker, NoMoreDirectories, AcquireResults, EmitDirFinished
<1> QED
  BY <1>4, <1>5 DEF WorkerBalance, Targeted, Found

LEMMA AppendKeeps ==
    ASSUME TypeOK, NEW p \in Paths, NEW w \in DOMAIN dirWorkers, AppendResults(w)
    PROVE  WorkerBalance(p)' = WorkerBalance(p)
<1>1. PICK pc \in DirPcs :
         /\ dirWorkers' = MoveDir(w, pc, dirWorkers[w].left, dirWorkers[w].found)
         /\ dirWorkers[w].pc \in LeftPcs <=> pc \in LeftPcs
         /\ dirWorkers[w].pc \in FoundPcs /\ pc \notin FoundPcs
  <2>1. CASE AtDir(w, "append")
    BY <2>1 DEF AppendResults, Goto, AtDir, DirPcs, LeftPcs, FoundPcs
  <2>2. CASE AtDir(w, "lastAppend")
    BY <2>2 DEF AppendResults, Goto, AtDir, DirPcs, LeftPcs, FoundPcs
  <2> QED
    BY <2>1, <2>2 DEF AppendResults, AtDir
<1>2. PICK left \in Seq(Paths), found \in Seq(Paths) :
         left = dirWorkers[w].left /\ found = dirWorkers[w].found
  BY WorkerAt
<1>3. /\ ToWalk(p, pc, left) = ToWalk(p, dirWorkers[w].pc, dirWorkers[w].left)
      /\ Collects(p, pc, found) = 0
      /\ Collects(p, dirWorkers[w].pc, dirWorkers[w].found) = Weigh(Once(p), found)
  BY <1>1, <1>2 DEF ToWalk, Collects
<1>4. /\ ToWalk(p, pc, left) \in Nat /\ Collects(p, pc, found) \in Nat
      /\ ToWalk(p, dirWorkers[w].pc, dirWorkers[w].left) \in Nat
      /\ Collects(p, dirWorkers[w].pc, dirWorkers[w].found) \in Nat
      /\ Walking(p)' = (Walking(p) - (ToWalk(p, dirWorkers[w].pc, dirWorkers[w].left)
                                      + Collects(p, dirWorkers[w].pc, dirWorkers[w].found)))
                       + (ToWalk(p, pc, left) + Collects(p, pc, found))
  BY <1>1, <1>2, WorkerGoes
<1>5. targets' = targets /\ results' = Put(results, found)
  BY <1>2 DEF AppendResults
<1>6. Found(p)' = Found(p) + Weigh(Once(p), found) /\ Weigh(Once(p), found) \in Nat
  <2>1. Once(p) \in [Paths -> Nat] /\ results \in QueueOf(Paths)
    BY ConstantWeights DEF TypeOK
  <2>2. Weigh(Once(p), found) \in Nat
    BY <2>1, Weights
  <2>3. Weigh(Once(p), Put(results, found).items)
          = Weigh(Once(p), results.items) + Weigh(Once(p), found)
    BY <2>1, QueueWeights
  <2> QED
    BY <1>5, <2>2, <2>3 DEF Found
<1>7. Targeted(p)' = Targeted(p)
  BY <1>5, PlacesUntouched
<1>8. Targeted(p) \in Nat /\ Found(p) \in Nat /\ Walking(p) \in Nat
  BY PlaceTypes
<1> QED
  BY <1>3, <1>4, <1>6, <1>7, <1>8 DEF WorkerBalance

LEMMA ProgressKeeps ==
    ASSUME TypeOK, NEW p \in Paths, NEW w \in DOMAIN dirWorkers, EmitProgress(w)
    PROVE  WorkerBalance(p)' = WorkerBalance(p)
<1>1. targets' = targets /\ results' = results
  BY DEF EmitProgress
<1>2. PICK old \in Seq(Paths), found \in Seq(Paths) :
         old = dirWorkers[w].left /\ found = dirWorkers[w].found
  BY WorkerAt
<1>3. \E pc \in DirPcs, left \in Seq(Paths), none \in Seq(Paths) :
         /\ dirWorkers' = MoveDir(w, pc, left, none)
         /\ none = <<>>
         /\ ToWalk(p, pc, left) = ToWalk(p, dirWorkers[w].pc, old)
         /\ dirWorkers[w].pc \notin FoundPcs
  <2>1. PICK none \in Seq(Paths) : none = <<>>
    BY NoPath
  <2>2. CASE AtDir(w, "progress")
    <3>1. dirWorkers' = MoveDir(w, Resume(old), old, none)
      BY <1>2, <2>1, <2>2 DEF EmitProgress
    <3>2. Resume(old) \in DirPcs
      BY DEF Resume, DirPcs
    <3>3. ToWalk(p, Resume(old), old) = ToWalk(p, "progress", old)
      BY WeighEmpty DEF ToWalk, Resume, LeftPcs
    <3>4. dirWorkers[w].pc = "progress" /\ "progress" \notin FoundPcs
      BY <2>2 DEF AtDir, FoundPcs
    <3> QED
      BY <2>1, <3>1, <3>2, <3>3, <3>4
  <2>3. CASE AtDir(w, "lastProgress")
    <3>1. dirWorkers' = MoveDir(w, "finish", none, none)
      BY <2>1, <2>3 DEF EmitProgress, AtDir
    <3>2. /\ "finish" \in DirPcs /\ dirWorkers[w].pc \notin FoundPcs
          /\ dirWorkers[w].pc \notin LeftPcs /\ "finish" \notin LeftPcs
      BY <2>3 DEF AtDir, FoundPcs, LeftPcs, DirPcs
    <3>3. ToWalk(p, "finish", none) = ToWalk(p, dirWorkers[w].pc, old)
      BY <3>2 DEF ToWalk
    <3> QED
      BY <2>1, <3>1, <3>2, <3>3
  <2> QED
    BY <2>2, <2>3 DEF EmitProgress, AtDir
<1>4. PICK pc \in DirPcs, left \in Seq(Paths), none \in Seq(Paths) :
         /\ dirWorkers' = MoveDir(w, pc, left, none)
         /\ none = <<>>
         /\ ToWalk(p, pc, left) = ToWalk(p, dirWorkers[w].pc, old)
         /\ dirWorkers[w].pc \notin FoundPcs
  BY <1>3
<1>5. Collects(p, pc, none) = 0 /\ Collects(p, dirWorkers[w].pc, found) = 0
  BY <1>4, WeighEmpty DEF Collects
<1>6. /\ ToWalk(p, pc, left) \in Nat
      /\ Walking(p)' = (Walking(p) - (ToWalk(p, dirWorkers[w].pc, dirWorkers[w].left)
                                      + Collects(p, dirWorkers[w].pc, dirWorkers[w].found)))
                       + (ToWalk(p, pc, left) + Collects(p, pc, none))
  BY <1>4, WorkerGoes
<1>7. Walking(p) \in Nat
  BY PlaceTypes
<1>8. Walking(p)' = Walking(p)
  BY <1>2, <1>4, <1>5, <1>6, <1>7
<1> QED
  BY <1>1, <1>8, PlacesUntouched DEF WorkerBalance

LEMMA WalkKeeps ==
    ASSUME TypeOK, NEW p \in Paths, NEW w \in DOMAIN dirWorkers, WalkEntry(w)
    PROVE  /\ WorkerBalance(p)' <= WorkerBalance(p)
           /\ ~stopToken => WorkerBalance(p)' = WorkerBalance(p)
<1>1. targets' = targets /\ results' = results /\ dirWorkers[w].pc = "walk"
  BY DEF WalkEntry, AtDir
<1>2. PICK old \in Seq(Paths), had \in Seq(Paths) :
         old = dirWorkers[w].left /\ had = dirWorkers[w].found
  BY WorkerAt
<1>3. old # <<>>
  BY <1>1, <1>2 DEF TypeOK, LoopsHaveWork
<1>4. PICK entry \in Paths, rest \in Seq(Paths) : entry = Head(old) /\ rest = Tail(old)
  BY <1>3, HeadTail
<1>5. PICK found \in Seq(Paths) : found = IF entry \in Ignored THEN had ELSE Append(had, entry)
  <2>1. Append(had, entry) \in Seq(Paths)
    BY AppendProperties
  <2> QED
    BY <2>1
<1>6. /\ Walked(p) \in [Paths -> Nat] /\ Once(p) \in [Paths -> Nat]
      /\ Walked(p) \in [Paths -> Int] /\ Once(p) \in [Paths -> Int]
      /\ \A s \in Seq(Paths) : Weigh(Walked(p), s) \in Nat /\ Weigh(Once(p), s) \in Nat
  BY ConstantWeights, Weights
<1>7. /\ Walked(p)[entry] \in Nat
      /\ Weigh(Walked(p), old) = Walked(p)[entry] + Weigh(Walked(p), rest)
  BY <1>3, <1>4, <1>6, WeighTail
<1>8. Weigh(Once(p), found) = Weigh(Once(p), had) + Walked(p)[entry]
  <2>1. CASE entry \in Ignored
    <3>1. Walked(p)[entry] = 0
      BY <2>1 DEF Walked
    <3> QED
      BY <1>5, <1>6, <2>1, <3>1
  <2>2. CASE entry \notin Ignored
    <3>1. Walked(p)[entry] = Once(p)[entry]
      BY <2>2 DEF Walked, Once
    <3>2. Weigh(Once(p), Append(had, entry)) = Weigh(Once(p), had) + Once(p)[entry]
      BY <1>6, WeighAppend
    <3> QED
      BY <1>5, <2>2, <3>1, <3>2
  <2> QED
    BY <2>1, <2>2
<1>9. /\ ToWalk(p, dirWorkers[w].pc, dirWorkers[w].left) = Weigh(Walked(p), old)
      /\ Collects(p, dirWorkers[w].pc, dirWorkers[w].found) = Weigh(Once(p), had)
  BY <1>1, <1>2 DEF ToWalk, Collects, LeftPcs, FoundPcs
<1>10. /\ Targeted(p)' = Targeted(p) /\ Found(p)' = Found(p)
       /\ Targeted(p) \in Nat /\ Found(p) \in Nat /\ Walking(p) \in Nat
  BY <1>1, PlacesUntouched, PlaceTypes
<1>11. CASE \E none \in Seq(Paths) : stopToken /\ dirWorkers' = MoveDir(w, "finish", none, none)
  <2>1. PICK none \in Seq(Paths) : stopToken /\ dirWorkers' = MoveDir(w, "finish", none, none)
    BY <1>11
  <2>2. "finish" \in DirPcs /\ ToWalk(p, "finish", none) = 0 /\ Collects(p, "finish", none) = 0
    BY DEF DirPcs, ToWalk, Collects, LeftPcs, FoundPcs
  <2>3. Walking(p)' = (Walking(p) - (Weigh(Walked(p), old) + Weigh(Once(p), had))) + 0
    BY <1>9, <2>1, <2>2, WorkerGoes
  <2>4. Weigh(Walked(p), old) \in Nat /\ Weigh(Once(p), had) \in Nat
    BY <1>6
  <2>5. Walking(p)' <= Walking(p) /\ Walking(p)' \in Int
    BY <1>10, <2>3, <2>4
  <2>6. WorkerBalance(p)' <= WorkerBalance(p)
    BY <1>10, <2>5 DEF WorkerBalance
  <2> QED
    BY <2>1, <2>6
<1>12. CASE \E pc \in {"acquire", "walk", "pick"} :
              dirWorkers' = MoveDir(w, pc, rest, found) /\ (pc = "pick" => rest = <<>>)
  <2>1. PICK pc \in {"acquire", "walk", "pick"} :
              dirWorkers' = MoveDir(w, pc, rest, found) /\ (pc = "pick" => rest = <<>>)
    BY <1>12
  <2>2. /\ pc \in DirPcs
        /\ ToWalk(p, pc, rest) = Weigh(Walked(p), rest)
        /\ Collects(p, pc, found) = Weigh(Once(p), found)
    BY <2>1, WeighEmpty DEF DirPcs, ToWalk, Collects, LeftPcs, FoundPcs
  <2>3. Walking(p)' = (Walking(p) - (Weigh(Walked(p), old) + Weigh(Once(p), had)))
                      + (Weigh(Walked(p), rest) + Weigh(Once(p), found))
    BY <1>9, <2>1, <2>2, WorkerGoes
  <2>4. /\ Weigh(Walked(p), old) \in Nat /\ Weigh(Once(p), had) \in Nat
        /\ Weigh(Walked(p), rest) \in Nat /\ Weigh(Once(p), found) \in Nat
    BY <1>6
  <2>5. Walking(p)' = Walking(p)
    BY <1>7, <1>8, <1>10, <2>3, <2>4
  <2> QED
    BY <1>10, <2>5 DEF WorkerBalance
<1>13. \/ \E none \in Seq(Paths) : stopToken /\ dirWorkers' = MoveDir(w, "finish", none, none)
       \/ \E pc \in {"acquire", "walk", "pick"} :
              dirWorkers' = MoveDir(w, pc, rest, found) /\ (pc = "pick" => rest = <<>>)
  <2> DEFINE full == entry \notin Ignored /\ Len(found) = Threshold
  <2>1. dirWorkers' = IF full /\ stopToken THEN MoveDir(w, "finish", <<>>, <<>>)
                      ELSE MoveDir(w, IF full THEN "acquire" ELSE Resume(rest), rest, found)
    BY <1>2, <1>4, <1>5 DEF WalkEntry
  <2> HIDE DEF full
  <2>2. CASE full /\ stopToken
    <3>1. PICK none \in Seq(Paths) : none = <<>>
      BY NoPath
    <3> QED
      BY <2>1, <2>2, <3>1
  <2>3. CASE ~(full /\ stopToken)
    <3>1. PICK pc : pc = IF full THEN "acquire" ELSE Resume(rest)
      OBVIOUS
    <3>2. pc \in {"acquire", "walk", "pick"} /\ (pc = "pick" => rest = <<>>)
      BY <3>1 DEF Resume
    <3>3. dirWorkers' = MoveDir(w, pc, rest, found)
      BY <2>1, <2>3, <3>1
    <3> QED
      BY <3>2, <3>3
  <2> QED
    BY <2>2, <2>3
<1> QED
  BY <1>11, <1>12, <1>13

LEMMA WorkerHeld ==
    ASSUME TypeOK, NEW p \in Paths, NEW w \in DOMAIN dirWorkers, DirWorkerThread(w)
    PROVE  /\ Held(p)' <= Held(p)
           /\ ~stopToken => Held(p)' = Held(p)
<1>1. UNCHANGED <<jobVars, mainVars>>
  BY DEF DirWorkerThread
<1>2. UNCHANGED <<fileTargets, jobs, mainPc, todo, dirs, entries, reported>>
  BY <1>1 DEF jobVars, mainVars
<1>3. Answered(p)' = Answered(p)
  <2>1. CASE events' = events
    BY <2>1, PlacesUntouched
  <2>2. CASE \E e \in DirEvents : Post(e)
    <3>1. PICK e \in DirEvents : Post(e)
      BY <2>2
    <3>2. e \in AnyEvent /\ e.type # "result"
      BY <3>1 DEF AnyEvent, DirEvents
    <3>3. InEvent(p)[e] = 0
      BY <3>2 DEF InEvent
    <3> QED
      BY <3>1, <3>2, <3>3, PostHolds, PlaceTypes
  <2>3. events' = events \/ \E e \in DirEvents : Post(e)
    <3>1. PICK n \in Nat : n = Len(dirWorkers[w].found)
      BY WorkerAt
    <3>2. Progress(n) \in DirEvents /\ w \in Nat
      BY WorkerAt DEF Progress, DirEvents
    <3>3. DirFinished(w) \in DirEvents
      BY <3>2 DEF DirFinished, DirEvents
    <3> QED
      BY <3>1, <3>2, <3>3 DEF DirWorkerThread, DirWorkerStep, StartDirWorker, PickDirectory,
         NoMoreDirectories, WalkEntry, AcquireResults, AppendResults, EmitProgress, EmitDirFinished
  <2> QED
    BY <2>1, <2>2, <2>3
<1>4. /\ WorkerBalance(p)' <= WorkerBalance(p)
      /\ ~stopToken => WorkerBalance(p)' = WorkerBalance(p)
  <2>1. WorkerBalance(p) \in Nat
    BY PlaceTypes DEF WorkerBalance
  <2>2. CASE WalkEntry(w)
    BY <2>2, WalkKeeps
  <2>3. CASE ~WalkEntry(w)
    <3>1. WorkerBalance(p)' = WorkerBalance(p)
      BY <2>3, GoKeeps, PickKeeps, AppendKeeps, ProgressKeeps DEF DirWorkerThread, DirWorkerStep
    <3> QED
      BY <2>1, <3>1
  <2> QED
    BY <2>2, <2>3
<1>5. /\ ToVisit(p)' = ToVisit(p) /\ Given(p)' = Given(p)
      /\ Indexing(p)' = Indexing(p) /\ Reported(p)' = Reported(p)
  BY <1>2, PlacesUntouched
<1>6. PlacesAreNumbers'
  <2>1. TypeOK'
    BY DirWorkerTypeOK
  <2> QED
    BY <2>1, PlacesThen
<1>7. PICK rest \in Int : rest = ToVisit(p) + Given(p) + Indexing(p) + Answered(p) + Reported(p)
  BY PlaceTypes
<1>8. Held(p) = WorkerBalance(p) + rest /\ WorkerBalance(p) \in Int
  BY <1>7, PlaceTypes DEF Held, WorkerBalance
<1>9. Held(p)' = WorkerBalance(p)' + rest /\ WorkerBalance(p)' \in Int
  BY <1>3, <1>5, <1>6, <1>7 DEF PlacesAreNumbers, Held, WorkerBalance
<1> QED
  BY <1>4, <1>8, <1>9

\* What a job takes from its queue it holds, what it processes it reports; it drops
\* something only when the run was cancelled.
Holding(p, pc, batch) == IF pc \in {"process", "check"} THEN Weigh(Once(p), batch) ELSE 0
JobBalance(p) == ((Given(p) + Found(p)) + Indexing(p)) + Answered(p)

LEMMA JobGoes ==
    ASSUME TypeOK, NEW p, NEW j \in DOMAIN jobs, NEW job \in Job,
           jobs' = [jobs EXCEPT ![j] = job]
    PROVE  /\ Holding(p, job.pc, job.batch) \in Nat
           /\ Holding(p, jobs[j].pc, jobs[j].batch) \in Nat
           /\ Indexing(p)' = (Indexing(p) - Holding(p, jobs[j].pc, jobs[j].batch))
                             + Holding(p, job.pc, job.batch)
<1>1. jobs[j] \in Job
  BY JobAt
<1>2. /\ InJob(p)[job] = Holding(p, job.pc, job.batch)
      /\ InJob(p)[jobs[j]] = Holding(p, jobs[j].pc, jobs[j].batch)
  BY <1>1 DEF InJob, Holding
<1>3. /\ InJob(p)[jobs[j]] \in Nat /\ InJob(p)[job] \in Nat
      /\ Indexing(p)' = (Indexing(p) - InJob(p)[jobs[j]]) + InJob(p)[job]
  BY JobHolds
<1> QED
  BY <1>2, <1>3

\* MoveJob and EndJob put a job there.
LEMMA JobThere ==
    ASSUME TypeOK, NEW j \in DOMAIN jobs, NEW pc \in JobPcs, NEW batch \in Seq(Paths)
    PROVE  /\ \E job \in Job : /\ job.pc = pc /\ job.batch = batch
                               /\ MoveJob(j, pc, batch) = [jobs EXCEPT ![j] = job]
           /\ \E job \in Job : job.pc = pc /\ EndJob(j, pc) = [jobs EXCEPT ![j] = job]
<1>1. jobs[j].queue \in {"files", "results"} /\ jobs[j].size \in Int
  BY JobAt
<1>2. \E job \in Job : /\ job.pc = pc /\ job.batch = batch
                       /\ MoveJob(j, pc, batch) = [jobs EXCEPT ![j] = job]
  <2> DEFINE job == [pc |-> pc, queue |-> jobs[j].queue, size |-> jobs[j].size, batch |-> batch]
  <2>1. job \in Job /\ job.pc = pc /\ job.batch = batch
    BY <1>1 DEF Job
  <2>2. MoveJob(j, pc, batch) = [jobs EXCEPT ![j] = job]
    BY DEF MoveJob
  <2> HIDE DEF job
  <2> QED
    BY <2>1, <2>2
<1>3. \E job \in Job : job.pc = pc /\ EndJob(j, pc) = [jobs EXCEPT ![j] = job]
  <2> DEFINE job == [pc |-> pc, queue |-> "files", size |-> 0, batch |-> <<>>]
  <2>1. job \in Job /\ job.pc = pc
    <3>1. <<>> \in Seq(Paths)
      OBVIOUS
    <3> QED
      BY <3>1 DEF Job
  <2>2. EndJob(j, pc) = [jobs EXCEPT ![j] = job]
    BY DEF EndJob
  <2> HIDE DEF job
  <2> QED
    BY <2>1, <2>2
<1> QED
  BY <1>2, <1>3

LEMMA StartJobKeeps ==
    ASSUME TypeOK, NEW p \in Paths, NEW j \in DOMAIN jobs, StartJob(j)
    PROVE  JobBalance(p)' = JobBalance(p)
<1>1. /\ jobs[j].pc = "queued" /\ jobs' = MoveJob(j, "take", <<>>) /\ events' = events
      /\ SetQueueOfJob(j, Release(QueueOfJob(j), jobs[j].size))
  BY DEF StartJob, AtJob
<1>2. PICK none \in Seq(Paths) : none = <<>>
  BY NoPath
<1>3. PICK job \in Job : job.pc = "take" /\ jobs' = [jobs EXCEPT ![j] = job]
  <2>1. "take" \in JobPcs /\ jobs' = MoveJob(j, "take", none)
    BY <1>1, <1>2 DEF JobPcs
  <2> QED
    BY <2>1, JobThere
<1>4. /\ Holding(p, job.pc, job.batch) = 0
      /\ Holding(p, jobs[j].pc, jobs[j].batch) = 0
  BY <1>1, <1>3 DEF Holding
<1>5. Indexing(p) \in Nat /\ Indexing(p)' = Indexing(p)
  <2>1. Indexing(p)' = (Indexing(p) - Holding(p, jobs[j].pc, jobs[j].batch))
                       + Holding(p, job.pc, job.batch)
    BY <1>3, JobGoes
  <2>2. Indexing(p) \in Nat
    BY PlaceTypes
  <2> QED
    BY <1>4, <2>1, <2>2
<1>6. fileTargets'.items = fileTargets.items /\ results'.items = results.items
  <2>1. fileTargets \in QueueOf(Paths) /\ results \in QueueOf(Paths)
    BY DEF TypeOK
  <2>2. \A n : /\ Release(fileTargets, n).items = fileTargets.items
               /\ Release(results, n).items = results.items
    BY <2>1 DEF Release, QueueOf
  <2> QED
    BY <1>1, <2>2 DEF SetQueueOfJob, QueueOfJob
<1>7. Answered(p)' = Answered(p)
  BY <1>1, PlacesUntouched
<1> QED
  BY <1>5, <1>6, <1>7 DEF JobBalance, Given, Found

LEMMA TakeBatchKeeps ==
    ASSUME TypeOK, NEW p \in Paths, NEW j \in DOMAIN jobs, TakeBatch(j)
    PROVE  JobBalance(p)' = JobBalance(p)
<1>1. jobs[j].pc = "take" /\ events' = events
  BY DEF TakeBatch, AtJob
<1>2. Answered(p)' = Answered(p)
  BY <1>1, PlacesUntouched
<1>3. Holding(p, jobs[j].pc, jobs[j].batch) = 0
  BY <1>1 DEF Holding
<1>4. /\ Given(p) \in Nat /\ Found(p) \in Nat /\ Indexing(p) \in Nat /\ Answered(p) \in Nat
  BY PlaceTypes
<1>5. CASE ~Holds(QueueOfJob(j), jobs[j].size)
  <2>1. jobs' = MoveJob(j, "underflow", <<>>) /\ UNCHANGED <<fileTargets, results>>
    BY <1>5 DEF TakeBatch
  <2>2. PICK none \in Seq(Paths) : none = <<>>
    BY NoPath
  <2>3. PICK job \in Job : job.pc = "underflow" /\ jobs' = [jobs EXCEPT ![j] = job]
    <3>1. "underflow" \in JobPcs /\ jobs' = MoveJob(j, "underflow", none)
      BY <2>1, <2>2 DEF JobPcs
    <3> QED
      BY <3>1, JobThere
  <2>4. Holding(p, job.pc, job.batch) = 0
    BY <2>3 DEF Holding
  <2>5. Indexing(p)' = Indexing(p)
    <3>1. Indexing(p)' = (Indexing(p) - Holding(p, jobs[j].pc, jobs[j].batch))
                         + Holding(p, job.pc, job.batch)
      BY <2>3, JobGoes
    <3> QED
      BY <1>3, <1>4, <2>4, <3>1
  <2> QED
    BY <1>2, <2>1, <2>5, PlacesUntouched DEF JobBalance
<1>6. CASE Holds(QueueOfJob(j), jobs[j].size)
  <2>1. PICK q \in QueueOf(Paths), n \in Int : q = QueueOfJob(j) /\ n = jobs[j].size
    <3>1. QueueOfJob(j) \in QueueOf(Paths)
      BY DEF QueueOfJob, TypeOK
    <3>2. jobs[j].size \in Int
      <4>1. jobs \in Seq(Job)
        BY DEF TypeOK
      <4>2. jobs[j] \in Job
        BY <4>1
      <4> QED
        BY <4>2 DEF Job
    <3> QED
      BY <3>1, <3>2
  <2>2. PICK batch \in Seq(Paths) : batch = Batch(q, n)
    BY <1>6, <2>1, ConstantWeights, QueueWeights
  <2>3. /\ Weigh(Once(p), batch) \in Nat
        /\ Weigh(Once(p), WithoutBatch(q, n).items) \in Nat
        /\ Weigh(Once(p), q.items) = Weigh(Once(p), batch) + Weigh(Once(p), WithoutBatch(q, n).items)
    <3>1. Once(p) \in [Paths -> Nat] /\ Holds(q, n)
      BY <1>6, <2>1, ConstantWeights
    <3>3. Weigh(Once(p), batch) \in Nat
      BY <3>1, Weights
    <3>4. Weigh(Once(p), WithoutBatch(q, n).items) \in Nat
      BY <3>1, QueueWeights
    <3>5. Weigh(Once(p), q.items)
            = Weigh(Once(p), Batch(q, n)) + Weigh(Once(p), WithoutBatch(q, n).items)
      BY <3>1, QueueWeights
    <3> QED
      BY <2>2, <3>3, <3>4, <3>5
  <2>4. PICK pc \in {"check", "process"} : jobs' = MoveJob(j, pc, batch)
    BY <1>6, <2>1, <2>2 DEF TakeBatch
  <2>5. SetQueueOfJob(j, WithoutBatch(q, n))
    BY <1>6, <2>1 DEF TakeBatch
  <2>6. PICK job \in Job : job.pc = pc /\ job.batch = batch /\ jobs' = [jobs EXCEPT ![j] = job]
    <3>1. pc \in JobPcs
      BY DEF JobPcs
    <3> QED
      BY <2>4, <3>1, JobThere
  <2>7. Holding(p, job.pc, job.batch) = Weigh(Once(p), batch)
    BY <2>6 DEF Holding
  <2>8. Indexing(p)' = Indexing(p) + Weigh(Once(p), batch)
    <3>1. Indexing(p)' = (Indexing(p) - Holding(p, jobs[j].pc, jobs[j].batch))
                         + Holding(p, job.pc, job.batch)
      BY <2>6, JobGoes
    <3> QED
      BY <1>3, <1>4, <2>3, <2>7, <3>1
  <2>9. (Given(p) + Found(p))' = (Given(p) + Found(p)) - Weigh(Once(p), batch)
    <3>1. CASE jobs[j].queue = "files"
      <4>1. q = fileTargets /\ fileTargets' = WithoutBatch(q, n) /\ results' = results
        BY <2>1, <2>5, <3>1 DEF QueueOfJob, SetQueueOfJob
      <4>2. /\ Given(p) = Weigh(Once(p), q.items)
            /\ Given(p)' = Weigh(Once(p), WithoutBatch(q, n).items)
            /\ Found(p)' = Found(p)
        BY <4>1 DEF Given, Found
      <4> QED
        BY <1>4, <2>3, <4>2
    <3>2. CASE jobs[j].queue # "files"
      <4>1. q = results /\ results' = WithoutBatch(q, n) /\ fileTargets' = fileTargets
        BY <2>1, <2>5, <3>2 DEF QueueOfJob, SetQueueOfJob
      <4>2. /\ Found(p) = Weigh(Once(p), q.items)
            /\ Found(p)' = Weigh(Once(p), WithoutBatch(q, n).items)
            /\ Given(p)' = Given(p)
        BY <4>1 DEF Given, Found
      <4> QED
        BY <1>4, <2>3, <4>2
    <3> QED
      BY <3>1, <3>2
  <2> QED
    BY <1>2, <1>4, <2>3, <2>8, <2>9 DEF JobBalance
<1> QED
  BY <1>5, <1>6

LEMMA ProcessKeeps ==
    ASSUME TypeOK, NEW p \in Paths, NEW j \in DOMAIN jobs, ProcessPath(j)
    PROVE  JobBalance(p)' = JobBalance(p)
<1>1. /\ jobs[j].pc = "process" /\ UNCHANGED <<fileTargets, results>>
      /\ jobs' = MoveJob(j, "check", Tail(jobs[j].batch))
  BY DEF ProcessPath, AtJob
<1>2. PICK batch \in Seq(Paths) : batch = jobs[j].batch
  BY JobAt
<1>3. batch # <<>>
  BY <1>1, <1>2 DEF TypeOK, LoopsHaveWork
<1>4. PICK path \in Paths, rest \in Seq(Paths) : path = Head(batch) /\ rest = Tail(batch)
  BY <1>3, HeadTail
<1>5. PICK job \in Job : job.pc = "check" /\ job.batch = rest /\ jobs' = [jobs EXCEPT ![j] = job]
  <2>1. "check" \in JobPcs /\ jobs' = MoveJob(j, "check", rest)
    BY <1>1, <1>2, <1>4 DEF JobPcs
  <2> QED
    BY <2>1, JobThere
<1>6. /\ Holding(p, job.pc, job.batch) = Weigh(Once(p), rest)
      /\ Holding(p, jobs[j].pc, jobs[j].batch) = Weigh(Once(p), batch)
  BY <1>1, <1>2, <1>5 DEF Holding
<1>7. /\ Once(p)[path] \in Nat /\ Weigh(Once(p), rest) \in Nat
      /\ Weigh(Once(p), batch) = Once(p)[path] + Weigh(Once(p), rest)
  <2>1. Once(p) \in [Paths -> Nat] /\ Once(p) \in [Paths -> Int]
    BY ConstantWeights, Weights
  <2>2. Weigh(Once(p), batch) = Once(p)[path] + Weigh(Once(p), rest)
    BY <1>3, <1>4, <2>1, WeighTail
  <2>3. Weigh(Once(p), rest) \in Nat
    BY <2>1, Weights
  <2> QED
    BY <2>1, <2>2, <2>3
<1>8. Indexing(p)' = Indexing(p) - Once(p)[path] /\ Indexing(p) \in Nat
  <2>1. Indexing(p)' = (Indexing(p) - Weigh(Once(p), batch)) + Weigh(Once(p), rest)
    BY <1>5, <1>6, JobGoes
  <2>2. Indexing(p) \in Nat
    BY PlaceTypes
  <2> QED
    BY <1>7, <2>1, <2>2
<1>9. Answered(p)' = Answered(p) + Once(p)[path] /\ Answered(p) \in Nat
  <2>1. PICK code \in Codes : Post(Result(j, path, code))
    BY <1>2, <1>4 DEF ProcessPath
  <2>2. PICK e \in AnyEvent : e = Result(j, path, code)
    <3>1. code \in AllCodes /\ j \in Nat
      BY JobAt, IndexerAssumption
    <3> QED
      BY <3>1 DEF Result, AnyEvent, JobEvents
  <2>3. e.type = "result" /\ e.path = path
    BY <2>2 DEF Result
  <2>4. InEvent(p)[e] = Once(p)[path]
    BY <2>3 DEF InEvent, Once
  <2>5. Answered(p)' = Answered(p) + InEvent(p)[e]
    BY <2>1, <2>2, PostHolds
  <2> QED
    BY <2>4, <2>5, PlaceTypes
<1>10. /\ Given(p)' = Given(p) /\ Found(p)' = Found(p)
       /\ Given(p) \in Nat /\ Found(p) \in Nat
  BY <1>1, PlacesUntouched, PlaceTypes
<1> QED
  BY <1>7, <1>8, <1>9, <1>10 DEF JobBalance

LEMMA CheckKeeps ==
    ASSUME TypeOK, NEW p \in Paths, NEW j \in DOMAIN jobs, CheckToken(j)
    PROVE  /\ JobBalance(p)' <= JobBalance(p)
           /\ ~cancelToken => JobBalance(p)' = JobBalance(p)
<1>1. jobs[j].pc = "check" /\ UNCHANGED <<fileTargets, results>>
  BY DEF CheckToken, AtJob
<1>2. PICK batch \in Seq(Paths) : batch = jobs[j].batch
  BY JobAt
<1>3. /\ Given(p)' = Given(p) /\ Found(p)' = Found(p)
      /\ Given(p) \in Nat /\ Found(p) \in Nat /\ Indexing(p) \in Nat /\ Answered(p) \in Nat
  BY <1>1, PlacesUntouched, PlaceTypes
<1>4. /\ Holding(p, jobs[j].pc, jobs[j].batch) = Weigh(Once(p), batch)
      /\ Weigh(Once(p), batch) \in Nat
  <2>1. Weigh(Once(p), batch) \in Nat
    BY ConstantWeights, Weights
  <2> QED
    BY <1>1, <1>2, <2>1 DEF Holding
<1>5. CASE cancelToken \/ batch = <<>>
  <2>1. jobs' = EndJob(j, "posted") /\ Post(FileFinished(j))
    BY <1>2, <1>5 DEF CheckToken
  <2>2. PICK job \in Job : job.pc = "posted" /\ jobs' = [jobs EXCEPT ![j] = job]
    <3>1. "posted" \in JobPcs
      BY DEF JobPcs
    <3> QED
      BY <1>2, <2>1, <3>1, JobThere
  <2>3. Holding(p, job.pc, job.batch) = 0
    BY <2>2 DEF Holding
  <2>4. Indexing(p)' = Indexing(p) - Weigh(Once(p), batch)
    <3>1. Indexing(p)' = (Indexing(p) - Holding(p, jobs[j].pc, jobs[j].batch))
                         + Holding(p, job.pc, job.batch)
      BY <2>2, JobGoes
    <3> QED
      BY <1>3, <1>4, <2>3, <3>1
  <2>5. Answered(p)' = Answered(p)
    <3>1. PICK e \in AnyEvent : e = FileFinished(j)
      <4>1. j \in Nat
        BY JobAt
      <4> QED
        BY <4>1 DEF FileFinished, AnyEvent, JobEvents
    <3>2. InEvent(p)[e] = 0
      BY <3>1 DEF InEvent, FileFinished
    <3> QED
      BY <1>3, <2>1, <3>1, <3>2, PostHolds
  <2>6. JobBalance(p)' <= JobBalance(p)
    BY <1>3, <1>4, <2>4, <2>5 DEF JobBalance
  <2>7. ~cancelToken => JobBalance(p)' = JobBalance(p)
    <3>1. ~cancelToken => Weigh(Once(p), batch) = 0
      BY <1>5, WeighEmpty
    <3> QED
      BY <1>3, <1>4, <2>4, <2>5, <3>1 DEF JobBalance
  <2> QED
    BY <2>6, <2>7
<1>6. CASE ~(cancelToken \/ batch = <<>>)
  <2>1. jobs' = MoveJob(j, "process", batch) /\ events' = events
    BY <1>2, <1>6 DEF CheckToken
  <2>2. PICK job \in Job :
           job.pc = "process" /\ job.batch = batch /\ jobs' = [jobs EXCEPT ![j] = job]
    <3>1. "process" \in JobPcs
      BY DEF JobPcs
    <3> QED
      BY <2>1, <3>1, JobThere
  <2>3. Holding(p, job.pc, job.batch) = Weigh(Once(p), batch)
    BY <2>2 DEF Holding
  <2>4. Indexing(p)' = Indexing(p)
    <3>1. Indexing(p)' = (Indexing(p) - Holding(p, jobs[j].pc, jobs[j].batch))
                         + Holding(p, job.pc, job.batch)
      BY <2>2, JobGoes
    <3> QED
      BY <1>3, <1>4, <2>3, <3>1
  <2> QED
    BY <1>3, <2>1, <2>4, PlacesUntouched DEF JobBalance
<1> QED
  BY <1>5, <1>6

LEMMA JobHeld ==
    ASSUME TypeOK, NEW p \in Paths, NEW j \in DOMAIN jobs, JobStep(j)
    PROVE  /\ Held(p)' <= Held(p)
           /\ ~cancelToken => Held(p)' = Held(p)
<1>1. UNCHANGED <<targets, dirWorkers, mainPc, todo, dirs, entries, reported>>
  BY DEF JobStep, mainVars
<1>2. /\ JobBalance(p)' <= JobBalance(p)
      /\ ~cancelToken => JobBalance(p)' = JobBalance(p)
  <2>1. JobBalance(p) \in Nat
    BY PlaceTypes DEF JobBalance
  <2>2. CASE CheckToken(j)
    BY <2>2, CheckKeeps
  <2>3. CASE ~CheckToken(j)
    <3>1. JobBalance(p)' = JobBalance(p)
      BY <2>3, StartJobKeeps, TakeBatchKeeps, ProcessKeeps DEF JobStep
    <3> QED
      BY <2>1, <3>1
  <2> QED
    BY <2>2, <2>3
<1>3. /\ ToVisit(p)' = ToVisit(p) /\ Targeted(p)' = Targeted(p)
      /\ Walking(p)' = Walking(p) /\ Reported(p)' = Reported(p)
  BY <1>1, PlacesUntouched
<1>4. PlacesAreNumbers'
  <2>1. TypeOK'
    BY JobTypeOK
  <2> QED
    BY <2>1, PlacesThen
<1>5. PICK rest \in Int : rest = ToVisit(p) + Targeted(p) + Walking(p) + Reported(p)
  BY PlaceTypes
<1>6. Held(p) = JobBalance(p) + rest /\ JobBalance(p) \in Int
  BY <1>5, PlaceTypes DEF Held, JobBalance
<1>7. Held(p)' = JobBalance(p)' + rest /\ JobBalance(p)' \in Int
  BY <1>3, <1>4, <1>5 DEF PlacesAreNumbers, Held, JobBalance
<1> QED
  BY <1>2, <1>6, <1>7

\* The handlers move nothing but the path of a result.
LEMMA OtherEvent ==
    ASSUME TypeOK, NEW p, events # <<>>, events' = Tail(events), Head(events).type # "result"
    PROVE  Answered(p)' = Answered(p)
<1>1. PICK e \in AnyEvent : e = Head(events)
  BY TakeHolds
<1>2. InEvent(p)[e] = 0
  BY <1>1 DEF InEvent
<1>3. Answered(p)' \in Nat /\ Answered(p) = InEvent(p)[e] + Answered(p)'
  BY <1>1, TakeHolds
<1> QED
  BY <1>2, <1>3

LEMMA ProgressHeld ==
    ASSUME TypeOK, NEW p, HandleProgress
    PROVE  Held(p)' = Held(p)
<1>1. /\ events # <<>> /\ events' = Tail(events) /\ Head(events).type = "progress"
      /\ UNCHANGED <<mainPc, todo, dirs, entries, fileTargets, targets, results, dirWorkers,
                     reported>>
      /\ IF stopToken THEN UNCHANGED <<jobs, runningWorkers>>
         ELSE LaunchWorker("results", Head(events).count)
  BY DEF HandleProgress, Handling, CountProgress
<1>2. Head(events).type # "result"
  BY <1>1
<1>3. Answered(p)' = Answered(p)
  BY <1>1, <1>2, OtherEvent
<1>4. Indexing(p)' = Indexing(p)
  <2>1. CASE stopToken
    BY <1>1, <2>1, PlacesUntouched
  <2>2. CASE ~stopToken
    <3>1. PICK e \in AnyEvent : e = Head(events)
      BY <1>1, TakeHolds
    <3>2. e.count \in Nat
      BY <1>1, <3>1 DEF AnyEvent, DirEvents, JobEvents
    <3>3. e.count \in Int /\ LaunchWorker("results", e.count)
      BY <1>1, <2>2, <3>1, <3>2
    <3> QED
      BY <3>3, LaunchHolds
  <2> QED
    BY <2>1, <2>2
<1> QED
  BY <1>1, <1>3, <1>4, PlacesUntouched DEF Held

LEMMA JobFinishedHeld ==
    ASSUME TypeOK, JobsInv, NEW p, HandleFileFinished
    PROVE  Held(p)' = Held(p)
<1>1. /\ events # <<>> /\ events' = Tail(events) /\ Head(events).type = "fileFinished"
      /\ UNCHANGED <<mainPc, todo, dirs, entries, fileTargets, targets, results, dirWorkers,
                     reported>>
      /\ jobs' = EndJob(Head(events).job, "done")
  BY DEF HandleFileFinished, Handling, scanVars
<1>2. Head(events).type # "result"
  BY <1>1
<1>3. Answered(p)' = Answered(p)
  BY <1>1, <1>2, OtherEvent
<1>4. PICK j \in DOMAIN jobs : j = Head(events).job /\ jobs[j].pc = "posted"
  <2>1. events[1] = Head(events) /\ 1 \in DOMAIN events
    BY <1>1, TailEvents
  <2> QED
    BY <1>1, <2>1 DEF JobsInv, JobEventsInv
<1>5. PICK job \in Job : job.pc = "done" /\ jobs' = [jobs EXCEPT ![j] = job]
  <2>1. PICK none \in Seq(Paths) : none = <<>>
    BY NoPath
  <2>2. "done" \in JobPcs
    BY DEF JobPcs
  <2>3. \E job \in Job : job.pc = "done" /\ EndJob(j, "done") = [jobs EXCEPT ![j] = job]
    BY <2>1, <2>2, JobThere
  <2> QED
    BY <1>1, <1>4, <2>3
<1>6. /\ Holding(p, job.pc, job.batch) = 0
      /\ Holding(p, jobs[j].pc, jobs[j].batch) = 0
  BY <1>4, <1>5 DEF Holding
<1>7. Indexing(p)' = (Indexing(p) - Holding(p, jobs[j].pc, jobs[j].batch))
                     + Holding(p, job.pc, job.batch)
  BY <1>5, JobGoes
<1>8. Indexing(p)' = Indexing(p)
  BY <1>6, <1>7, PlaceTypes
<1> QED
  BY <1>1, <1>3, <1>8, PlacesUntouched DEF Held

LEMMA DirFinishedHeld ==
    ASSUME TypeOK, EndsInv, NEW p, HandleDirFinished
    PROVE  Held(p)' = Held(p)
<1>1. /\ events # <<>> /\ events' = Tail(events) /\ Head(events).type = "dirFinished"
      /\ UNCHANGED <<mainPc, todo, dirs, entries, fileTargets, targets, results, jobs,
                     reported>>
      /\ dirWorkers' = MoveDir(Head(events).worker, "done", <<>>, <<>>)
  BY DEF HandleDirFinished, Handling, CountDirFinish
<1>2. Head(events).type # "result"
  BY <1>1
<1>3. Answered(p)' = Answered(p)
  BY <1>1, <1>2, OtherEvent
<1>4. PICK w \in DOMAIN dirWorkers : w = Head(events).worker /\ dirWorkers[w].pc = "posted"
  <2>1. events[1] = Head(events) /\ 1 \in DOMAIN events
    BY <1>1, TailEvents
  <2> QED
    BY <1>1, <2>1 DEF EndsInv, EndsPosted
<1>5. PICK none \in Seq(Paths) : none = <<>>
  BY NoPath
<1>6. /\ ToWalk(p, "done", none) = 0 /\ Collects(p, "done", none) = 0
      /\ ToWalk(p, dirWorkers[w].pc, dirWorkers[w].left) = 0
      /\ Collects(p, dirWorkers[w].pc, dirWorkers[w].found) = 0
  BY <1>4 DEF ToWalk, Collects, LeftPcs, FoundPcs
<1>7. dirWorkers' = MoveDir(w, "done", none, none) /\ "done" \in DirPcs
  BY <1>1, <1>4, <1>5 DEF DirPcs
<1>8. Walking(p)' = (Walking(p) - (ToWalk(p, dirWorkers[w].pc, dirWorkers[w].left)
                                   + Collects(p, dirWorkers[w].pc, dirWorkers[w].found)))
                     + (ToWalk(p, "done", none) + Collects(p, "done", none))
  BY <1>7, WorkerGoes
<1>9. Walking(p)' = Walking(p)
  BY <1>6, <1>8, PlaceTypes
<1> QED
  BY <1>1, <1>3, <1>9, PlacesUntouched DEF Held

\* A path at no more than one place is not reported while its result is on its way.
LEMMA ResultHeld ==
    ASSUME TypeOK, NEW p \in Paths, HandleResult
    PROVE  /\ Held(p)' <= Held(p)
           /\ Held(p) <= 1 => Held(p)' = Held(p)
           /\ Held(p) <= 1 /\ Head(events).path = p => p \notin reported
<1>1. /\ events # <<>> /\ events' = Tail(events) /\ Head(events).type = "result"
      /\ UNCHANGED <<mainPc, todo, dirs, entries, fileTargets, targets, results, dirWorkers,
                     jobs>>
      /\ reported' = reported \cup {Head(events).path}
  BY DEF HandleResult, Handling
<1>2. PICK e \in AnyEvent : e = Head(events)
  BY <1>1, TakeHolds
<1>3. Answered(p)' \in Nat /\ Answered(p) = InEvent(p)[e] + Answered(p)'
  BY <1>1, <1>2, TakeHolds
<1>4. InEvent(p)[e] = IF e.path = p THEN 1 ELSE 0
  BY <1>1, <1>2 DEF InEvent
<1>5. PICK rest \in Nat : rest = (((((ToVisit(p) + Given(p)) + Targeted(p)) + Found(p))
                                  + Walking(p)) + Indexing(p))
  BY PlaceTypes
<1>6. Held(p) = (rest + Answered(p)) + Reported(p)
  BY <1>5 DEF Held
<1>7. Held(p)' = (rest + Answered(p)') + Reported(p)'
  BY <1>1, <1>5, PlacesUntouched DEF Held
<1>8. CASE e.path = p
  <2>1. InEvent(p)[e] = 1 /\ Reported(p)' = 1
    BY <1>1, <1>2, <1>4, <1>8 DEF Reported
  <2>2. CASE p \in reported
    <3>1. Reported(p) = 1
      BY <2>2 DEF Reported
    <3>2. Held(p)' <= Held(p) /\ ~(Held(p) <= 1)
      BY <1>3, <1>6, <1>7, <2>1, <3>1
    <3> QED
      BY <3>2
  <2>3. CASE p \notin reported
    <3>1. Reported(p) = 0
      BY <2>3 DEF Reported
    <3>2. Held(p)' <= Held(p) /\ Held(p)' = Held(p)
      BY <1>3, <1>6, <1>7, <2>1, <3>1
    <3> QED
      BY <2>3, <3>2
  <2> QED
    BY <2>2, <2>3
<1>9. CASE e.path # p
  <2>1. InEvent(p)[e] = 0 /\ Reported(p)' = Reported(p)
    BY <1>1, <1>2, <1>4, <1>9 DEF Reported
  <2>2. Reported(p) \in Nat
    BY PlaceTypes
  <2>3. Held(p)' <= Held(p) /\ Held(p)' = Held(p)
    BY <1>3, <1>6, <1>7, <2>1, <2>2
  <2> QED
    BY <1>2, <1>9, <2>3
<1> QED
  BY <1>8, <1>9

\* What the main thread still has to visit, by where it stands.
LEMMA Visits ==
    ASSUME NEW p
    PROVE  /\ mainPc = "arguments" =>
                 ToVisit(p) = Weigh(AtArgument(p), todo) + Weigh(Inside(p), dirs)
           /\ mainPc = "list" => ToVisit(p) = Weigh(Inside(p), todo) + Weigh(AtEntry(p), entries)
           /\ mainPc \notin {"arguments", "list"} => ToVisit(p) = 0
<1>1. mainPc = "arguments" =>
         ToVisit(p) = Weigh(AtArgument(p), todo) + Weigh(Inside(p), dirs)
  BY DEF ToVisit
<1>2. mainPc = "list" => ToVisit(p) = Weigh(Inside(p), todo) + Weigh(AtEntry(p), entries)
  BY DEF ToVisit
<1>3. mainPc \notin {"arguments", "list"} => ToVisit(p) = 0
  BY DEF ToVisit
<1> QED
  BY <1>1, <1>2, <1>3

LEMMA VisitsThen ==
    ASSUME NEW p
    PROVE  /\ mainPc' = "arguments" =>
                 ToVisit(p)' = Weigh(AtArgument(p), todo') + Weigh(Inside(p), dirs')
           /\ mainPc' = "list" =>
                 ToVisit(p)' = Weigh(Inside(p), todo') + Weigh(AtEntry(p), entries')
           /\ mainPc' \notin {"arguments", "list"} => ToVisit(p)' = 0
<1>1. mainPc' = "arguments" =>
         ToVisit(p)' = Weigh(AtArgument(p), todo') + Weigh(Inside(p), dirs')
  BY DEF ToVisit
<1>2. mainPc' = "list" => ToVisit(p)' = Weigh(Inside(p), todo') + Weigh(AtEntry(p), entries')
  BY DEF ToVisit
<1>3. mainPc' \notin {"arguments", "list"} => ToVisit(p)' = 0
  BY DEF ToVisit
<1> QED
  BY <1>1, <1>2, <1>3

\* The first run starts with all it is to come across among its arguments.
LEMMA BeginHeld ==
    ASSUME TypeOK, QueuesInv, PlacesInv, NEW p, BeginIndexing, runs = 0
    PROVE  Held(p)' = Occurrences(p)
<1>1. /\ mainPc' = "arguments" /\ todo' = Args /\ reported' = {}
      /\ UNCHANGED <<targets, results, dirWorkers, events, fileTargets, jobs, dirs>>
  BY DEF BeginIndexing, scanVars
<1>2. jobs = <<>> /\ events = <<>> /\ dirWorkers = <<>> /\ results = EmptyQueue /\ paths = <<>>
  BY DEF QueuesInv, StagesInv, Nothing
<1>3. dirs = <<>> /\ fileTargets.items = <<>> /\ targets.items = <<>> /\ results.items = <<>>
  BY <1>2 DEF PlacesInv, NothingGiven, TargetsOfAScan, EmptyQueue
<1>4. ToVisit(p)' = Occurrences(p)
  <2>1. ToVisit(p)' = Weigh(AtArgument(p), todo') + Weigh(Inside(p), dirs')
    BY <1>1, VisitsThen
  <2>2. Weigh(AtArgument(p), todo') = Occurrences(p) /\ Weigh(Inside(p), dirs') = 0
    BY <1>1, <1>3, WeighEmpty DEF Occurrences
  <2>3. Occurrences(p) \in Nat
    BY ConstantWeights
  <2> QED
    BY <2>1, <2>2, <2>3
<1>5. /\ Given(p)' = 0 /\ Targeted(p)' = 0 /\ Found(p)' = 0 /\ Walking(p)' = 0
      /\ Indexing(p)' = 0 /\ Answered(p)' = 0
  BY <1>1, <1>2, <1>3, WeighEmpty DEF Given, Targeted, Found, Walking, Indexing, Answered
<1>6. Reported(p)' = 0
  BY <1>1 DEF Reported
<1>7. Occurrences(p) \in Nat
  BY ConstantWeights
<1> QED
  BY <1>4, <1>5, <1>6, <1>7 DEF Held

\* An argument is passed over, or becomes a directory to list or a file to index.
LEMMA NextArgumentHeld ==
    ASSUME TypeOK, NEW p, NextArgument
    PROVE  Held(p)' = Held(p)
<1>1. /\ mainPc = "arguments" /\ mainPc' = "arguments" /\ todo # <<>> /\ todo' = Tail(todo)
      /\ UNCHANGED <<targets, results, dirWorkers, events, jobs, reported>>
  BY DEF NextArgument, scanVars, clickVars
<1>2. /\ todo \in Seq(Paths) /\ dirs \in Seq(ArgDirs) /\ fileTargets \in QueueOf(Paths)
  BY DEF TypeOK
<1>3. PICK a \in Paths, rest \in Seq(Paths) : a = Head(todo) /\ rest = Tail(todo)
  BY <1>1, <1>2, HeadTail
<1>4. /\ AtArgument(p) \in [Paths -> Nat] /\ Inside(p) \in [ArgDirs -> Nat]
      /\ Once(p) \in [Paths -> Nat]
      /\ AtArgument(p) \in [Paths -> Int] /\ Inside(p) \in [ArgDirs -> Int]
      /\ \A s \in Seq(Paths) : Weigh(AtArgument(p), s) \in Nat
      /\ \A s \in Seq(ArgDirs) : Weigh(Inside(p), s) \in Nat
  BY ConstantWeights, Weights
<1>5. /\ AtArgument(p)[a] \in Nat
      /\ Weigh(AtArgument(p), todo) = AtArgument(p)[a] + Weigh(AtArgument(p), rest)
  BY <1>1, <1>2, <1>3, <1>4, WeighTail
<1>6. /\ ToVisit(p) = Weigh(AtArgument(p), todo) + Weigh(Inside(p), dirs)
      /\ ToVisit(p)' = Weigh(AtArgument(p), rest) + Weigh(Inside(p), dirs')
  BY <1>1, <1>3, Visits, VisitsThen
<1>7. /\ Weigh(AtArgument(p), rest) \in Nat /\ Weigh(Inside(p), dirs) \in Nat
      /\ Given(p) \in Nat
  BY <1>2, <1>4, PlaceTypes
<1>8. (ToVisit(p) + Given(p))' = ToVisit(p) + Given(p)
  <2>1. CASE a \in Ignored
    <3>1. UNCHANGED <<dirs, fileTargets>>
      BY <1>3, <2>1 DEF NextArgument
    <3>2. AtArgument(p)[a] = 0
      BY <2>1 DEF AtArgument
    <3>3. Given(p)' = Given(p) /\ Weigh(Inside(p), dirs') = Weigh(Inside(p), dirs)
      BY <3>1, PlacesUntouched
    <3> QED
      BY <1>5, <1>6, <1>7, <3>2, <3>3
  <2>2. CASE a \notin Ignored /\ a \in DOMAIN Children
    <3>1. dirs' = Append(dirs, a) /\ UNCHANGED fileTargets
      BY <1>3, <2>2 DEF NextArgument
    <3>2. AtArgument(p)[a] = Inside(p)[a] /\ a \in ArgDirs
      BY <2>2 DEF AtArgument, ArgDirs
    <3>3. Weigh(Inside(p), dirs') = Weigh(Inside(p), dirs) + Inside(p)[a]
      BY <1>2, <1>4, <3>1, <3>2, WeighAppend
    <3>4. Given(p)' = Given(p)
      BY <3>1, PlacesUntouched
    <3> QED
      BY <1>5, <1>6, <1>7, <3>2, <3>3, <3>4
  <2>3. CASE a \notin Ignored /\ a \notin DOMAIN Children
    <3>1. fileTargets' = EnqueueOne(fileTargets, a) /\ UNCHANGED dirs
      BY <1>3, <2>3 DEF NextArgument
    <3>2. AtArgument(p)[a] = Once(p)[a]
      BY <2>3 DEF AtArgument
    <3>3. Given(p)' = Given(p) + Once(p)[a]
      <4>1. Once(p) \in [Paths -> Nat] /\ fileTargets \in QueueOf(Paths)
        BY <1>2, <1>4
      <4>2. Weigh(Once(p), EnqueueOne(fileTargets, a).items)
              = Weigh(Once(p), fileTargets.items) + Once(p)[a]
        BY <4>1, QueueWeights
      <4> QED
        BY <3>1, <4>2 DEF Given
    <3>4. Weigh(Inside(p), dirs') = Weigh(Inside(p), dirs)
      BY <3>1
    <3> QED
      BY <1>5, <1>6, <1>7, <3>2, <3>3, <3>4
  <2> QED
    BY <2>1, <2>2, <2>3
<1>9. PICK others \in Nat : others = ((((Targeted(p) + Found(p)) + Walking(p)) + Indexing(p))
                                      + Answered(p)) + Reported(p)
  BY PlaceTypes
<1>10. Held(p) = (ToVisit(p) + Given(p)) + others
  <2>1. /\ ToVisit(p) \in Nat /\ Given(p) \in Nat /\ Targeted(p) \in Nat /\ Found(p) \in Nat
        /\ Walking(p) \in Nat /\ Indexing(p) \in Nat /\ Answered(p) \in Nat
        /\ Reported(p) \in Nat
    BY PlaceTypes
  <2>2. Held(p) = ((((((ToVisit(p) + Given(p)) + Targeted(p)) + Found(p)) + Walking(p))
                     + Indexing(p)) + Answered(p)) + Reported(p)
    BY DEF Held
  <2> QED
    BY <1>9, <2>1, <2>2, SMTT(40)
<1>11. ToVisit(p)' \in Int /\ Given(p)' \in Int
  <2>1. TypeOK'
    BY BeginTypeOK
  <2>2. PlacesAreNumbers'
    BY <2>1, PlacesThen
  <2> QED
    BY <2>2 DEF PlacesAreNumbers
<1>12. Held(p)' = (ToVisit(p) + Given(p))' + others
  <2>1. /\ Walking(p) \in Nat /\ Indexing(p) \in Nat /\ Answered(p) \in Nat
        /\ Reported(p) \in Nat /\ Targeted(p) \in Nat /\ Found(p) \in Nat
    BY PlaceTypes
  <2>2. /\ Targeted(p)' = Targeted(p) /\ Found(p)' = Found(p)
        /\ Walking(p)' = Walking(p) /\ Indexing(p)' = Indexing(p)
        /\ Answered(p)' = Answered(p) /\ Reported(p)' = Reported(p)
    BY <1>1, PlacesUntouched
  <2>3. Held(p)' = ((((((ToVisit(p)' + Given(p)') + Targeted(p)') + Found(p)') + Walking(p)')
                     + Indexing(p)') + Answered(p)') + Reported(p)'
    BY DEF Held
  <2> QED
    BY <1>9, <1>11, <2>1, <2>2, <2>3, SMTT(40)
<1> QED
  BY <1>8, <1>10, <1>12

\* scan() finds its queues empty, and the directories become what is left to list.
LEMMA StartScanHeld ==
    ASSUME TypeOK, QueuesInv, PlacesInv, NEW p, StartScan, runs <= 1
    PROVE  Held(p)' = Held(p)
<1>1. /\ mainPc = "arguments" /\ todo = <<>>
      /\ UNCHANGED <<dirWorkers, events, fileTargets, jobs, entries, reported>>
      /\ IF dirs = <<>> THEN mainPc' = "launch" /\ UNCHANGED <<targets, results>>
         ELSE /\ mainPc' = "list" /\ todo' = dirs
              /\ targets' = Clear(targets) /\ results' = Clear(results)
  BY DEF StartScan, scanVars, jobVars, clickVars, BeginScan
<1>2. results = EmptyQueue /\ paths = <<>>
  BY <1>1 DEF QueuesInv, StagesInv
<1>3. targets.items = <<>> /\ results.items = <<>> /\ entries = <<>>
  BY <1>1, <1>2 DEF PlacesInv, TargetsOfAScan, EntriesListed, EmptyQueue
<1>4. targets'.items = <<>> /\ results'.items = <<>>
  <2>1. CASE dirs = <<>>
    BY <1>1, <1>3, <2>1
  <2>2. CASE dirs # <<>>
    BY <1>1, <2>2 DEF Clear
  <2> QED
    BY <2>1, <2>2
<1>5. Targeted(p)' = Targeted(p) /\ Found(p)' = Found(p)
  BY <1>3, <1>4 DEF Targeted, Found
<1>6. Weigh(Inside(p), dirs) \in Nat
  <2>1. Inside(p) \in [ArgDirs -> Nat] /\ dirs \in Seq(ArgDirs)
    BY ConstantWeights DEF TypeOK
  <2> QED
    BY <2>1, Weights
<1>7. ToVisit(p) = Weigh(Inside(p), dirs)
  <2>1. ToVisit(p) = Weigh(AtArgument(p), todo) + Weigh(Inside(p), dirs)
    BY <1>1, Visits
  <2>2. Weigh(AtArgument(p), todo) = 0
    BY <1>1, WeighEmpty
  <2> QED
    BY <1>6, <2>1, <2>2
<1>8. ToVisit(p)' = Weigh(Inside(p), dirs)
  <2>1. CASE dirs = <<>>
    <3>1. ToVisit(p)' = 0
      BY <1>1, <2>1, VisitsThen
    <3> QED
      BY <2>1, <3>1, WeighEmpty
  <2>2. CASE dirs # <<>>
    <3>1. ToVisit(p)' = Weigh(Inside(p), todo') + Weigh(AtEntry(p), entries')
      BY <1>1, <2>2, VisitsThen
    <3>2. Weigh(Inside(p), todo') = Weigh(Inside(p), dirs) /\ Weigh(AtEntry(p), entries') = 0
      BY <1>1, <1>3, <2>2, WeighEmpty
    <3> QED
      BY <1>6, <3>1, <3>2
  <2> QED
    BY <2>1, <2>2
<1>9. ToVisit(p)' = ToVisit(p)
  BY <1>7, <1>8
<1> QED
  BY <1>1, <1>5, <1>9, PlacesUntouched DEF Held

LEMMA OpenDirectoryHeld ==
    ASSUME TypeOK, NEW p, OpenDirectory
    PROVE  Held(p)' = Held(p)
<1>1. /\ mainPc = "list" /\ mainPc' = "list" /\ entries = <<>> /\ todo # <<>>
      /\ entries' = Children[Head(todo)] /\ todo' = Tail(todo)
      /\ UNCHANGED <<targets, results, dirWorkers, events, fileTargets, jobs, reported>>
  BY DEF OpenDirectory, scanVars, jobVars, clickVars
<1>2. todo \in Seq(ArgDirs)
  BY <1>1 DEF TypeOK, LoopsHaveWork
<1>3. PICK d \in ArgDirs, rest \in Seq(ArgDirs) : d = Head(todo) /\ rest = Tail(todo)
  BY <1>1, <1>2, HeadTail
<1>4. /\ Inside(p) \in [ArgDirs -> Nat] /\ Inside(p) \in [ArgDirs -> Int]
      /\ \A s \in Seq(ArgDirs) : Weigh(Inside(p), s) \in Nat
  BY ConstantWeights, Weights
<1>5. Weigh(Inside(p), todo) = Inside(p)[d] + Weigh(Inside(p), rest)
  BY <1>1, <1>2, <1>3, <1>4, WeighTail
<1>6. Inside(p)[d] = Weigh(AtEntry(p), Children[d]) /\ Inside(p)[d] \in Nat
  BY <1>4 DEF Inside
<1>7. ToVisit(p) = Weigh(Inside(p), todo) + Weigh(AtEntry(p), entries)
  BY <1>1, Visits
<1>8. Weigh(AtEntry(p), entries) = 0
  BY <1>1, WeighEmpty
<1>9. ToVisit(p)' = Weigh(Inside(p), rest) + Weigh(AtEntry(p), Children[d])
  BY <1>1, <1>3, VisitsThen
<1>10. Weigh(Inside(p), rest) \in Nat
  BY <1>4
<1>11. ToVisit(p)' = ToVisit(p)
  BY <1>5, <1>6, <1>7, <1>8, <1>9, <1>10
<1> QED
  BY <1>1, <1>11, PlacesUntouched DEF Held

\* An entry is passed over, or becomes a directory to walk or a file found.
LEMMA NextEntryHeld ==
    ASSUME TypeOK, NEW p, NextEntry
    PROVE  Held(p)' = Held(p)
<1>1. /\ mainPc = "list" /\ mainPc' = "list" /\ entries # <<>> /\ entries' = Tail(entries)
      /\ UNCHANGED <<dirWorkers, events, fileTargets, jobs, todo, reported>>
  BY DEF NextEntry, ListEntry, jobVars, clickVars
<1>2. /\ entries \in Seq(Paths) /\ todo \in Seq(ArgDirs)
      /\ targets \in QueueOf(SubDirs) /\ results \in QueueOf(Paths)
  BY <1>1 DEF TypeOK, LoopsHaveWork
<1>3. PICK x \in Paths, rest \in Seq(Paths) : x = Head(entries) /\ rest = Tail(entries)
  BY <1>1, <1>2, HeadTail
<1>4. /\ AtEntry(p) \in [Paths -> Nat] /\ Inside(p) \in [ArgDirs -> Nat]
      /\ Once(p) \in [Paths -> Nat] /\ Under(p) \in [SubDirs -> Nat]
      /\ AtEntry(p) \in [Paths -> Int]
      /\ \A s \in Seq(Paths) : Weigh(AtEntry(p), s) \in Nat
      /\ \A s \in Seq(ArgDirs) : Weigh(Inside(p), s) \in Nat
  BY ConstantWeights, Weights
<1>5. /\ AtEntry(p)[x] \in Nat
      /\ Weigh(AtEntry(p), entries) = AtEntry(p)[x] + Weigh(AtEntry(p), rest)
  BY <1>1, <1>2, <1>3, <1>4, WeighTail
<1>6. Weigh(AtEntry(p), rest) \in Nat /\ Weigh(Inside(p), todo) \in Nat
  BY <1>2, <1>4
<1>7. ToVisit(p)' = ToVisit(p) - AtEntry(p)[x]
  <2>1. ToVisit(p) = Weigh(Inside(p), todo) + Weigh(AtEntry(p), entries)
    BY <1>1, Visits
  <2>2. ToVisit(p)' = Weigh(Inside(p), todo) + Weigh(AtEntry(p), rest)
    BY <1>1, <1>3, VisitsThen
  <2> QED
    BY <1>5, <1>6, <2>1, <2>2
<1>8. (Targeted(p) + Found(p))' = (Targeted(p) + Found(p)) + AtEntry(p)[x]
  <2>1. Targeted(p) \in Nat /\ Found(p) \in Nat
    BY PlaceTypes
  <2>2. CASE x \in Ignored \cup Links
    <3>1. UNCHANGED <<targets, results>>
      BY <1>3, <2>2 DEF NextEntry, ListEntry
    <3>2. AtEntry(p)[x] = 0
      BY <2>2 DEF AtEntry
    <3>3. Targeted(p)' = Targeted(p) /\ Found(p)' = Found(p)
      BY <3>1, PlacesUntouched
    <3> QED
      BY <2>1, <3>2, <3>3
  <2>3. CASE x \notin Ignored \cup Links /\ x \in SubDirs
    <3>1. targets' = EnqueueOne(targets, x) /\ results' = results
      BY <1>3, <2>3 DEF NextEntry, ListEntry
    <3>2. AtEntry(p)[x] = Under(p)[x]
      BY <2>3 DEF AtEntry
    <3>3. Weigh(Under(p), EnqueueOne(targets, x).items)
            = Weigh(Under(p), targets.items) + Under(p)[x]
      <4>1. Under(p) \in [SubDirs -> Nat] /\ targets \in QueueOf(SubDirs) /\ x \in SubDirs
        BY <1>2, <1>4, <2>3
      <4> QED
        BY <4>1, QueueWeights
    <3>4. Targeted(p)' = Targeted(p) + Under(p)[x] /\ Found(p)' = Found(p)
      BY <3>1, <3>3 DEF Targeted, Found
    <3> QED
      BY <1>5, <2>1, <3>2, <3>4
  <2>4. CASE x \notin Ignored \cup Links /\ x \notin SubDirs
    <3>1. results' = EnqueueOne(results, x) /\ targets' = targets
      BY <1>3, <2>4 DEF NextEntry, ListEntry
    <3>2. AtEntry(p)[x] = Once(p)[x]
      BY <2>4 DEF AtEntry
    <3>3. Weigh(Once(p), EnqueueOne(results, x).items)
            = Weigh(Once(p), results.items) + Once(p)[x]
      <4>1. Once(p) \in [Paths -> Nat] /\ results \in QueueOf(Paths)
        BY <1>2, <1>4
      <4> QED
        BY <4>1, QueueWeights
    <3>4. Found(p)' = Found(p) + Once(p)[x] /\ Targeted(p)' = Targeted(p)
      BY <3>1, <3>3 DEF Targeted, Found
    <3> QED
      BY <1>5, <2>1, <3>2, <3>4
  <2> QED
    BY <2>2, <2>3, <2>4
<1>9. PICK others \in Nat : others = (((Given(p) + Walking(p)) + Indexing(p))
                                      + Answered(p)) + Reported(p)
  BY PlaceTypes
<1>10. Held(p) = (ToVisit(p) + (Targeted(p) + Found(p))) + others
  <2>1. /\ ToVisit(p) \in Nat /\ Given(p) \in Nat /\ Targeted(p) \in Nat /\ Found(p) \in Nat
        /\ Walking(p) \in Nat /\ Indexing(p) \in Nat /\ Answered(p) \in Nat
        /\ Reported(p) \in Nat
    BY PlaceTypes
  <2>2. Held(p) = ((((((ToVisit(p) + Given(p)) + Targeted(p)) + Found(p)) + Walking(p))
                     + Indexing(p)) + Answered(p)) + Reported(p)
    BY DEF Held
  <2> QED
    BY <1>9, <2>1, <2>2, SMTT(40)
<1>11. /\ ToVisit(p)' \in Int /\ Targeted(p)' \in Int /\ Found(p)' \in Int
  <2>1. TypeOK'
    BY BeginTypeOK
  <2>2. PlacesAreNumbers'
    BY <2>1, PlacesThen
  <2> QED
    BY <2>2 DEF PlacesAreNumbers
<1>12. Held(p)' = (ToVisit(p)' + (Targeted(p) + Found(p))') + others
  <2>1. /\ Walking(p) \in Nat /\ Indexing(p) \in Nat /\ Answered(p) \in Nat
        /\ Reported(p) \in Nat /\ Given(p) \in Nat
    BY PlaceTypes
  <2>2. /\ Given(p)' = Given(p)
        /\ Walking(p)' = Walking(p) /\ Indexing(p)' = Indexing(p)
        /\ Answered(p)' = Answered(p) /\ Reported(p)' = Reported(p)
    BY <1>1, PlacesUntouched
  <2>3. Held(p)' = ((((((ToVisit(p)' + Given(p)') + Targeted(p)') + Found(p)') + Walking(p)')
                     + Indexing(p)') + Answered(p)') + Reported(p)'
    BY DEF Held
  <2> QED
    BY <1>9, <1>11, <2>1, <2>2, <2>3, SMTT(40)
<1>13. ToVisit(p) \in Int /\ Targeted(p) \in Int /\ Found(p) \in Int
  BY PlaceTypes
<1> QED
  BY <1>5, <1>7, <1>8, <1>10, <1>12, <1>13

\* The rest of beginIndexing starts workers that hold nothing.
LEMMA LaunchingHeld ==
    ASSUME TypeOK, NEW p, AnnounceFirstLevel \/ LaunchFileTargets
    PROVE  Held(p)' = Held(p)
<1>1. UNCHANGED <<targets, results, dirWorkers, events, fileTargets, reported>>
  BY DEF AnnounceFirstLevel, LaunchFileTargets, scanVars, clickVars
<1>2. Indexing(p)' = Indexing(p)
  <2>1. \E queue \in {"files", "results"}, size \in Int : LaunchWorker(queue, size)
    <3>1. processedPaths \in Int /\ Remaining(fileTargets) \in Int
      BY QueueSizeAssumption DEF TypeOK, Remaining, QueueOf
    <3> QED
      BY <3>1 DEF AnnounceFirstLevel, LaunchFileTargets
  <2> QED
    BY <2>1, LaunchHolds
<1>3. ToVisit(p)' = ToVisit(p)
  <2>1. ToVisit(p)' = 0
    BY VisitsThen DEF AnnounceFirstLevel, LaunchFileTargets
  <2>2. CASE AnnounceFirstLevel
    <3>1. ToVisit(p) = Weigh(Inside(p), todo) + Weigh(AtEntry(p), entries)
      BY <2>2, Visits DEF AnnounceFirstLevel
    <3>2. Weigh(Inside(p), todo) = 0 /\ Weigh(AtEntry(p), entries) = 0
      BY <2>2, WeighEmpty DEF AnnounceFirstLevel
    <3> QED
      BY <2>1, <3>1, <3>2
  <2>3. CASE LaunchFileTargets
    BY <2>1, <2>3, Visits DEF LaunchFileTargets
  <2> QED
    BY <2>2, <2>3
<1> QED
  BY <1>1, <1>2, <1>3, PlacesUntouched DEF Held

LEMMA SpawnHeld ==
    ASSUME TypeOK, NEW p, SpawnOrComplete
    PROVE  Held(p)' = Held(p)
<1>1. /\ mainPc = "spawn" /\ mainPc' = "launch"
      /\ UNCHANGED <<targets, results, events, fileTargets, jobs, reported>>
      /\ IF ThreadsNum = 0 THEN UNCHANGED dirWorkers
         ELSE dirWorkers' = dirWorkers \o [i \in 1..ThreadsNum |-> QueuedDirWorker]
  BY DEF SpawnOrComplete, SpawnDirWorkers, scanVars, jobVars, clickVars
<1>2. ToVisit(p)' = ToVisit(p)
  BY <1>1, Visits, VisitsThen
<1>3. Walking(p)' = Walking(p)
  <2>1. CASE ThreadsNum = 0
    BY <1>1, <2>1, PlacesUntouched
  <2>2. CASE ThreadsNum # 0
    <3> DEFINE fresh == [i \in 1..ThreadsNum |-> QueuedDirWorker]
    <3>1. QueuedDirWorker \in DirWorker
      BY DEF QueuedDirWorker, DirWorker, DirPcs
    <3>2. ThreadsNum \in Nat
      <4>1. Len(paths) \in Nat
        BY LenProperties DEF TypeOK
      <4> QED
        BY <4>1, TreeAssumption DEF ThreadsNum
    <3>3. fresh \in Seq(DirWorker) /\ DOMAIN fresh = 1..ThreadsNum
      BY <3>1, <3>2
    <3>4. \A i \in DOMAIN fresh : fresh[i] = QueuedDirWorker
      BY <3>3
    <3> HIDE DEF fresh
    <3>5. InWorker(p)[QueuedDirWorker] = 0
      <4>1. PICK none \in Seq(Paths) : none = <<>>
        BY NoPath
      <4>2. ToWalk(p, "queued", none) = 0 /\ Collects(p, "queued", none) = 0
        BY <4>1, WeighEmpty DEF ToWalk, Collects, LeftPcs, FoundPcs
      <4>3. /\ QueuedDirWorker.pc = "queued" /\ QueuedDirWorker.left = none
            /\ QueuedDirWorker.found = none
        BY <4>1 DEF QueuedDirWorker
      <4> QED
        BY <3>1, <4>2, <4>3 DEF InWorker
    <3>6. InWorker(p) \in [DirWorker -> Nat] /\ InWorker(p) \in [DirWorker -> Int]
      BY StateWeights, Weights
    <3>7. Weigh(InWorker(p), fresh) = 0
      <4>1. \A i \in DOMAIN fresh : InWorker(p)[fresh[i]] = 0
        BY <3>4, <3>5
      <4>2. \A i \in DOMAIN fresh : InWorker(p)[fresh[i]] >= 0
        BY <4>1
      <4> QED
        BY <3>3, <3>6, <4>1, <4>2, WeighNaturals
    <3>8. dirWorkers \in Seq(DirWorker) /\ dirWorkers' = dirWorkers \o fresh
      BY <1>1, <2>2 DEF TypeOK, fresh
    <3>9. Walking(p)' = Weigh(InWorker(p), dirWorkers \o fresh)
      BY <3>8 DEF Walking
    <3>10. Weigh(InWorker(p), dirWorkers \o fresh)
             = Weigh(InWorker(p), dirWorkers) + Weigh(InWorker(p), fresh)
      BY <3>3, <3>6, <3>8, WeighJoin
    <3>11. Walking(p) \in Nat /\ Walking(p) = Weigh(InWorker(p), dirWorkers)
      BY PlaceTypes DEF Walking
    <3> QED
      BY <3>7, <3>9, <3>10, <3>11
  <2> QED
    BY <2>1, <2>2
<1> QED
  BY <1>1, <1>2, <1>3, PlacesUntouched DEF Held

\* Before indexing is first started it can only be started.
LEMMA FirstIsBegin ==
    ASSUME TypeOK, JobsInv, QueuesInv, runs = 0, [Next]_vars
    PROVE  UNCHANGED vars \/ BeginIndexing
<1>1. jobs = <<>> /\ events = <<>> /\ dirWorkers = <<>> /\ mainPc = "loop" /\ ~scanning
  BY DEF JobsInv, NothingBeforeRun, QueuesInv, StagesInv, Unscanned
<1>2. ~IsRunning
  <2>1. LiveJobs = {}
    BY <1>1 DEF LiveJobs
  <2>2. runningWorkers = 0
    BY <2>1, FS_EmptySet DEF JobsInv, RunningWorkersExact
  <2> QED
    BY <1>1, <2>2 DEF IsRunning
<1>3. ~StopIndexing
  BY <1>2 DEF StopIndexing
<1>4. ~(HandleProgress \/ HandleDirFinished \/ HandleResult \/ HandleFileFinished)
  BY <1>1 DEF HandleProgress, HandleDirFinished, HandleResult, HandleFileFinished, Handling
<1>5. ~(NextArgument \/ StartScan \/ OpenDirectory \/ NextEntry \/ AnnounceFirstLevel
         \/ SpawnOrComplete \/ LaunchFileTargets \/ LeaveEventLoop)
  BY <1>1 DEF NextArgument, StartScan, OpenDirectory, NextEntry, AnnounceFirstLevel,
     SpawnOrComplete, LaunchFileTargets, LeaveEventLoop
<1>6. DOMAIN jobs = {} /\ DOMAIN dirWorkers = {}
  BY <1>1
<1> QED
  BY <1>3, <1>4, <1>5, <1>6 DEF Next, MainStep

LEMMA BeginPlaces ==
    ASSUME TypeOK, JobsInv, QueuesInv, PlacesInv, BeginIndexing
    PROVE  PlacesInv'
<1>1. /\ runs' = runs + 1 /\ runs \in Nat /\ mainPc = "loop" /\ mainPc' = "arguments"
      /\ UNCHANGED <<targets, dirWorkers, stopToken, paths, cancelToken, entries>>
  BY DEF BeginIndexing, scanVars, TypeOK
<1>2. EntriesListed'
  BY <1>1 DEF PlacesInv, EntriesListed
<1>3. CASE runs = 0
  <2>1. ~cancelled /\ runs <= 1 /\ runs' # 0
    BY <1>1, <1>3 DEF PlacesInv, NothingGiven
  <2>2. NothingGiven' /\ TargetsOfAScan' /\ LastPicked'
    BY <1>1, <2>1 DEF PlacesInv, NothingGiven, TargetsOfAScan, LastPicked
  <2>3. TokenSet'
    BY <1>1, <2>1 DEF PlacesInv, TokenSet, SoundStart
  <2> QED
    BY <1>2, <2>2, <2>3 DEF PlacesInv
<1>4. CASE runs # 0
  <2>1. runs' # 0 /\ ~(runs' <= 1)
    BY <1>1, <1>4
  <2> QED
    BY <1>2, <2>1 DEF PlacesInv, NothingGiven, TargetsOfAScan, LastPicked, TokenSet
<1> QED
  BY <1>3, <1>4

\* A worker passes its last pick only when there is nothing more to pick.
LEMMA WorkerPlaces ==
    ASSUME TypeOK, PlacesInv, runs # 0, NEW w \in DOMAIN dirWorkers, DirWorkerThread(w)
    PROVE  PlacesInv'
<1>1. UNCHANGED <<jobVars, mainVars, mainScanVars>>
  BY DEF DirWorkerThread, DirWorkerStep
<1>2. /\ UNCHANGED <<runs, dirs, fileTargets, cancelled, mainPc, entries, cancelToken>>
      /\ UNCHANGED <<paths, stopToken>>
  BY <1>1 DEF jobVars, mainVars, mainScanVars
<1>3. NothingGiven' /\ EntriesListed' /\ TokenSet'
  BY <1>2 DEF PlacesInv, NothingGiven, EntriesListed, TokenSet, SoundStart
<1>4. CASE PickDirectory(w)
  <2>1. /\ targets.items # <<>> /\ dirWorkers[w].pc = "pick"
        /\ \/ dirWorkers' = dirWorkers
           \/ \E left, found : dirWorkers' = MoveDir(w, "walk", left, found)
    BY <1>4 DEF PickDirectory, AtDir
  <2>2. DOMAIN dirWorkers' = DOMAIN dirWorkers
    BY <2>1 DEF MoveDir
  <2>3. dirWorkers'[w].pc \in {"pick", "walk"}
    BY <2>1 DEF MoveDir
  <2>4. \A v \in DOMAIN dirWorkers : v # w => dirWorkers'[v] = dirWorkers[v]
    BY <2>1 DEF MoveDir
  <2>5. \A v \in DOMAIN dirWorkers' : dirWorkers'[v].pc \in LastPcs => dirWorkers[v].pc \in LastPcs
    BY <2>2, <2>3, <2>4 DEF LastPcs
  <2>6. TargetsOfAScan'
    BY <1>2, <2>1 DEF PlacesInv, TargetsOfAScan
  <2>7. LastPicked'
    BY <1>2, <2>1, <2>2, <2>5 DEF PlacesInv, LastPicked
  <2> QED
    BY <1>3, <2>6, <2>7 DEF PlacesInv
<1>5. CASE ~PickDirectory(w)
  <2>1. targets' = targets
    BY <1>5 DEF DirWorkerThread, DirWorkerStep, StartDirWorker, NoMoreDirectories, WalkEntry,
       AcquireResults, AppendResults, EmitProgress, EmitDirFinished
  <2>2. \E pc, left, found :
           /\ dirWorkers' = MoveDir(w, pc, left, found)
           /\ pc \in LastPcs => dirWorkers[w].pc \in LastPcs \/ stopToken \/ targets.items = <<>>
    <3>1. CASE StartDirWorker(w) \/ NoMoreDirectories(w)
      BY <3>1 DEF StartDirWorker, NoMoreDirectories, Goto, LastPcs
    <3>2. CASE WalkEntry(w)
      BY <3>2 DEF WalkEntry, Resume, LastPcs
    <3>3. CASE AcquireResults(w)
      BY <3>3 DEF AcquireResults, AtDir, Goto, LastPcs
    <3>4. CASE AppendResults(w)
      BY <3>4 DEF AppendResults, AtDir, Goto, LastPcs
    <3>5. CASE EmitProgress(w)
      BY <3>5 DEF EmitProgress, AtDir, Resume, LastPcs
    <3>6. CASE EmitDirFinished(w)
      BY <3>6 DEF EmitDirFinished, AtDir, Goto, LastPcs
    <3> QED
      BY <1>5, <3>1, <3>2, <3>3, <3>4, <3>5, <3>6 DEF DirWorkerThread, DirWorkerStep
  <2>3. PICK pc, left, found :
           /\ dirWorkers' = MoveDir(w, pc, left, found)
           /\ pc \in LastPcs => dirWorkers[w].pc \in LastPcs \/ stopToken \/ targets.items = <<>>
    BY <2>2
  <2>4. /\ DOMAIN dirWorkers' = DOMAIN dirWorkers
        /\ dirWorkers'[w].pc = pc
        /\ \A v \in DOMAIN dirWorkers : v # w => dirWorkers'[v] = dirWorkers[v]
    BY <2>3 DEF MoveDir
  <2>5. TargetsOfAScan'
    BY <1>2, <2>1 DEF PlacesInv, TargetsOfAScan
  <2>6. LastPicked'
    BY <1>2, <2>1, <2>3, <2>4 DEF PlacesInv, LastPicked
  <2> QED
    BY <1>3, <2>5, <2>6 DEF PlacesInv
<1> QED
  BY <1>4, <1>5

\* Whoever sets the scanner's token sets the workers' and is remembered.
LEMMA QuietPlaces ==
    ASSUME TypeOK, PlacesInv, runs # 0,
           UNCHANGED <<targets, paths, runs>>,
           /\ DOMAIN dirWorkers' = DOMAIN dirWorkers
           /\ \A v \in DOMAIN dirWorkers :
                dirWorkers'[v].pc \in LastPcs => dirWorkers[v].pc \in LastPcs,
           entries' = entries /\ (mainPc = "list" => mainPc' = "list" \/ entries = <<>>),
           UNCHANGED <<stopToken, cancelled>> \/ (stopToken' /\ cancelled'),
           cancelToken' => cancelToken \/ cancelled'
    PROVE  PlacesInv'
<1>1. NothingGiven' /\ EntriesListed'
  BY DEF PlacesInv, NothingGiven, EntriesListed
<1>2. TargetsOfAScan'
  BY DEF PlacesInv, TargetsOfAScan
<1>3. LastPicked'
  BY DEF PlacesInv, LastPicked
<1>4. TokenSet'
  BY DEF PlacesInv, TokenSet, SoundStart
<1> QED
  BY <1>1, <1>2, <1>3, <1>4 DEF PlacesInv

LEMMA HandlerPlaces ==
    ASSUME TypeOK, EndsInv, PlacesInv, runs # 0,
           HandleProgress \/ HandleDirFinished \/ HandleResult \/ HandleFileFinished
    PROVE  PlacesInv'
<1>1. UNCHANGED <<targets, paths, runs, entries, mainPc>>
  BY DEF HandleProgress, HandleDirFinished, HandleResult, HandleFileFinished, Handling,
     CountProgress, CountDirFinish, scanVars
<1>2. /\ UNCHANGED <<stopToken, cancelled>> \/ (stopToken' /\ cancelled')
      /\ cancelToken' => cancelToken \/ cancelled'
  <2>1. CASE HandleProgress \/ HandleDirFinished \/ HandleFileFinished
    <3>1. UNCHANGED <<stopToken, cancelled, cancelToken>>
      BY <2>1 DEF HandleProgress, HandleDirFinished, HandleFileFinished, CountProgress,
         CountDirFinish, scanVars
    <3> QED
      BY <3>1
  <2>2. CASE HandleResult
    BY <2>2 DEF HandleResult, RequestCancellation, DoNotCancel
  <2> QED
    BY <2>1, <2>2
<1>3. /\ DOMAIN dirWorkers' = DOMAIN dirWorkers
      /\ \A v \in DOMAIN dirWorkers :
           dirWorkers'[v].pc \in LastPcs => dirWorkers[v].pc \in LastPcs
  <2>1. CASE HandleProgress \/ HandleResult \/ HandleFileFinished
    <3>1. dirWorkers' = dirWorkers
      BY <2>1 DEF HandleProgress, HandleResult, HandleFileFinished, CountProgress, scanVars
    <3> QED
      BY <3>1
  <2>2. CASE HandleDirFinished
    <3>1. /\ events # <<>> /\ events' = Tail(events) /\ Head(events).type = "dirFinished"
          /\ dirWorkers' = MoveDir(Head(events).worker, "done", <<>>, <<>>)
      BY <2>2 DEF HandleDirFinished, Handling, CountDirFinish
    <3>2. PICK w \in DOMAIN dirWorkers : w = Head(events).worker /\ dirWorkers[w].pc = "posted"
      <4>1. events[1] = Head(events) /\ 1 \in DOMAIN events
        BY <3>1, TailEvents
      <4> QED
        BY <3>1, <4>1 DEF EndsInv, EndsPosted
    <3>3. /\ DOMAIN dirWorkers' = DOMAIN dirWorkers
          /\ \A v \in DOMAIN dirWorkers : v # w => dirWorkers'[v] = dirWorkers[v]
      BY <3>1, <3>2 DEF MoveDir
    <3>4. dirWorkers[w].pc \in LastPcs
      BY <3>2 DEF LastPcs
    <3> QED
      BY <3>3, <3>4
  <2> QED
    BY <2>1, <2>2
<1> QED
  BY <1>1, <1>2, <1>3, QuietPlaces

\* Targets are filled before the first worker is started.
LEMMA FillingPlaces ==
    ASSUME TypeOK, QueuesInv, PlacesInv, runs # 0, StartScan \/ NextEntry \/ SpawnOrComplete
    PROVE  PlacesInv'
<1>1. /\ UNCHANGED <<runs, cancelled, cancelToken>>
      /\ mainPc \in {"arguments", "list", "spawn"}
  BY DEF StartScan, NextEntry, SpawnOrComplete, clickVars, jobVars
<1>2. EntriesListed'
  <2>1. CASE StartScan \/ SpawnOrComplete
    <3>1. mainPc # "list" /\ entries' = entries
      BY <2>1 DEF StartScan, SpawnOrComplete
    <3> QED
      BY <3>1 DEF PlacesInv, EntriesListed
  <2>2. CASE NextEntry
    BY <2>2 DEF NextEntry, EntriesListed
  <2> QED
    BY <2>1, <2>2
<1>3. NothingGiven' /\ TokenSet'
  BY <1>1 DEF PlacesInv, NothingGiven, TokenSet, SoundStart
<1>4. CASE runs <= 1
  <2>1. dirWorkers = <<>>
    BY <1>1, <1>4 DEF QueuesInv, StagesInv, Unscanned
  <2>2. \A v \in DOMAIN dirWorkers' : dirWorkers'[v].pc \notin LastPcs
    <3>1. CASE StartScan \/ NextEntry
      <4>1. dirWorkers' = dirWorkers
        BY <3>1 DEF StartScan, NextEntry, BeginScan, ListEntry, scanVars
      <4> QED
        BY <2>1, <4>1
    <3>2. CASE SpawnOrComplete
      <4>1. \A v \in DOMAIN dirWorkers' : dirWorkers'[v].pc = "queued"
        BY <2>1, <3>2, Spawned DEF QueuedDirWorker
      <4> QED
        BY <4>1 DEF LastPcs
    <3> QED
      BY <3>1, <3>2
  <2>3. LastPicked'
    BY <2>2 DEF LastPicked
  <2>4. TargetsOfAScan'
    <3>1. CASE StartScan
      <4>1. \/ dirs = <<>> /\ UNCHANGED <<targets, paths>>
            \/ dirs # <<>> /\ paths' = dirs
        BY <3>1 DEF StartScan, BeginScan, scanVars
      <4> QED
        BY <1>1, <4>1 DEF PlacesInv, TargetsOfAScan
    <3>2. CASE NextEntry
      <4>1. mainPc = "list" /\ paths' = paths
        BY <3>2 DEF NextEntry, ListEntry
      <4>2. paths # <<>>
        BY <1>4, <4>1 DEF QueuesInv, StagesInv
      <4> QED
        BY <4>1, <4>2 DEF TargetsOfAScan
    <3>3. CASE SpawnOrComplete
      <4>1. UNCHANGED <<targets, paths>>
        BY <3>3, Spawned
      <4> QED
        BY <1>1, <4>1 DEF PlacesInv, TargetsOfAScan
    <3> QED
      BY <3>1, <3>2, <3>3
  <2> QED
    BY <1>2, <1>3, <2>3, <2>4 DEF PlacesInv
<1>5. CASE ~(runs <= 1)
  <2>1. TargetsOfAScan' /\ LastPicked'
    BY <1>1, <1>5 DEF TargetsOfAScan, LastPicked
  <2> QED
    BY <1>2, <1>3, <2>1 DEF PlacesInv
<1> QED
  BY <1>4, <1>5

LEMMA NextPlaces ==
    TypeOK /\ JobsInv /\ EndsInv /\ QueuesInv /\ PlacesInv /\ [Next]_vars => PlacesInv'
<1> SUFFICES ASSUME TypeOK, JobsInv, EndsInv, QueuesInv, PlacesInv, [Next]_vars
             PROVE  PlacesInv'
  OBVIOUS
<1>1. CASE UNCHANGED vars
  BY <1>1 DEF PlacesInv, NothingGiven, EntriesListed, TargetsOfAScan, LastPicked, TokenSet,
     SoundStart, vars, scanVars, jobVars, mainVars
<1>2. CASE BeginIndexing
  BY <1>2, BeginPlaces
<1>3. CASE runs # 0 /\ ~BeginIndexing /\ Next
  <2>1. CASE \E w \in DOMAIN dirWorkers : DirWorkerThread(w)
    BY <1>3, <2>1, WorkerPlaces
  <2>2. CASE \E j \in DOMAIN jobs : JobStep(j)
    <3>1. UNCHANGED <<targets, paths, runs, dirWorkers, entries, mainPc>>
      BY <2>2 DEF JobStep, mainScanVars, mainVars
    <3>2. UNCHANGED <<stopToken, cancelled, cancelToken>>
      BY <2>2 DEF JobStep, StartJob, TakeBatch, ProcessPath, CheckToken, mainScanVars, mainVars
    <3> QED
      BY <1>3, <3>1, <3>2, QuietPlaces
  <2>3. CASE HandleProgress \/ HandleDirFinished \/ HandleResult \/ HandleFileFinished
    BY <1>3, <2>3, HandlerPlaces
  <2>4. CASE StartScan \/ NextEntry \/ SpawnOrComplete
    BY <1>3, <2>4, FillingPlaces
  <2>5. CASE \/ NextArgument \/ AnnounceFirstLevel \/ LaunchFileTargets \/ LeaveEventLoop
             \/ StopIndexing
    <3>1. UNCHANGED <<targets, paths, runs, dirWorkers, entries>>
      BY <2>5 DEF NextArgument, AnnounceFirstLevel, LaunchFileTargets, LeaveEventLoop,
         StopIndexing, scanVars, clickVars
    <3>2. mainPc = "list" => mainPc' = "list" \/ entries = <<>>
      BY <2>5 DEF NextArgument, AnnounceFirstLevel, LaunchFileTargets, LeaveEventLoop,
         StopIndexing
    <3>3. /\ UNCHANGED <<stopToken, cancelled>> \/ (stopToken' /\ cancelled')
          /\ cancelToken' => cancelToken \/ cancelled'
      BY <2>5 DEF NextArgument, AnnounceFirstLevel, LaunchFileTargets, LeaveEventLoop,
         StopIndexing, RequestCancellation, scanVars, jobVars, clickVars
    <3> QED
      BY <1>3, <3>1, <3>2, <3>3, QuietPlaces
  <2>6. CASE OpenDirectory
    <3>1. /\ mainPc = "list" /\ mainPc' = "list"
          /\ UNCHANGED <<targets, paths, runs, dirWorkers, stopToken, cancelled, cancelToken>>
      BY <2>6 DEF OpenDirectory, scanVars, jobVars, clickVars
    <3>2. EntriesListed' /\ NothingGiven'
      BY <1>3, <3>1 DEF EntriesListed, NothingGiven
    <3>3. TargetsOfAScan' /\ LastPicked' /\ TokenSet'
      BY <3>1 DEF PlacesInv, TargetsOfAScan, LastPicked, TokenSet, SoundStart
    <3> QED
      BY <3>2, <3>3 DEF PlacesInv
  <2> QED
    BY <1>3, <2>1, <2>2, <2>3, <2>4, <2>5, <2>6 DEF Next, MainStep
<1>4. UNCHANGED vars \/ BeginIndexing \/ (runs # 0 /\ ~BeginIndexing /\ Next)
  BY FirstIsBegin
<1> QED
  BY <1>1, <1>2, <1>3, <1>4

\* What a step of the first run does to where a path is.
LEMMA StepHeld ==
    ASSUME TypeOK, JobsInv, EndsInv, QueuesInv, FinishInv, PlacesInv, runs = 1,
           [Next]_vars, ~BeginIndexing, NEW p \in Paths
    PROVE  /\ Held(p)' <= Held(p)
           /\ SoundStart /\ ~cancelled /\ Held(p) <= 1 => Held(p)' = Held(p)
<1>1. Held(p) \in Nat /\ runs <= 1
  BY PlaceTypes
<1>2. CASE UNCHANGED vars \/ StopIndexing \/ LeaveEventLoop
  <2>1. UNCHANGED <<targets, results, dirWorkers, events, fileTargets, jobs, reported>>
    BY <1>2 DEF vars, scanVars, jobVars, mainVars, StopIndexing, LeaveEventLoop, clickVars
  <2>2. ToVisit(p)' = ToVisit(p)
    <3>1. CASE UNCHANGED vars \/ StopIndexing
      <4>1. UNCHANGED <<mainPc, todo, dirs, entries>>
        BY <3>1 DEF vars, mainVars, StopIndexing
      <4> QED
        BY <4>1, PlacesUntouched
    <3>2. CASE LeaveEventLoop
      <4>1. mainPc = "loop" /\ mainPc' = "exited"
        BY <3>2 DEF LeaveEventLoop
      <4> QED
        BY <4>1, Visits, VisitsThen
    <3> QED
      BY <1>2, <3>1, <3>2
  <2>3. Held(p)' = Held(p)
    BY <2>1, <2>2, PlacesUntouched DEF Held
  <2> QED
    BY <1>1, <2>3
<1>3. CASE \E w \in DOMAIN dirWorkers : DirWorkerThread(w)
  <2>1. stopToken => cancelled
    BY <1>1 DEF FinishInv, ScanInv
  <2> QED
    BY <1>3, <2>1, WorkerHeld
<1>4. CASE \E j \in DOMAIN jobs : JobStep(j)
  <2>1. SoundStart => (cancelToken => cancelled)
    BY <1>1 DEF PlacesInv, TokenSet
  <2> QED
    BY <1>4, <2>1, JobHeld
<1>5. CASE HandleResult
  BY <1>5, ResultHeld
<1>6. CASE HandleProgress \/ HandleDirFinished \/ HandleFileFinished
  <2>1. Held(p)' = Held(p)
    BY <1>6, ProgressHeld, DirFinishedHeld, JobFinishedHeld
  <2> QED
    BY <1>1, <2>1
<1>7. CASE \/ NextArgument \/ StartScan \/ OpenDirectory \/ NextEntry \/ AnnounceFirstLevel
           \/ SpawnOrComplete \/ LaunchFileTargets
  <2>1. Held(p)' = Held(p)
    BY <1>1, <1>7, NextArgumentHeld, StartScanHeld, OpenDirectoryHeld, NextEntryHeld,
       LaunchingHeld, SpawnHeld
  <2> QED
    BY <1>1, <2>1
<1> QED
  BY <1>2, <1>3, <1>4, <1>5, <1>6, <1>7 DEF Next, MainStep

LEMMA StepKeepsRun ==
    ASSUME [Next]_vars, ~BeginIndexing
    PROVE  /\ runs' = runs /\ (cancelled => cancelled')
           /\ ~HandleResult => UNCHANGED <<counts, reported>>
<1>1. CASE UNCHANGED vars
  BY <1>1 DEF vars, jobVars, mainVars
<1>2. CASE \E w \in DOMAIN dirWorkers : DirWorkerThread(w)
  BY <1>2 DEF DirWorkerThread, jobVars, mainVars
<1>3. CASE \E j \in DOMAIN jobs : JobStep(j)
  BY <1>3 DEF JobStep, mainVars
<1>4. CASE HandleProgress \/ HandleDirFinished \/ HandleFileFinished
  BY <1>4 DEF HandleProgress, HandleDirFinished, HandleFileFinished, Handling
<1>5. CASE HandleResult
  BY <1>5 DEF HandleResult, Handling, RequestCancellation, DoNotCancel
<1>6. CASE StopIndexing
  BY <1>6 DEF StopIndexing, RequestCancellation
<1>7. CASE NextArgument \/ StartScan \/ OpenDirectory \/ NextEntry
  BY <1>7 DEF NextArgument, StartScan, OpenDirectory, NextEntry, jobVars, clickVars
<1>8. CASE AnnounceFirstLevel \/ SpawnOrComplete \/ LaunchFileTargets \/ LeaveEventLoop
  BY <1>8 DEF AnnounceFirstLevel, SpawnOrComplete, LaunchFileTargets, LeaveEventLoop, jobVars,
     clickVars
<1> QED
  BY <1>1, <1>2, <1>3, <1>4, <1>5, <1>6, <1>7, <1>8 DEF Next, MainStep

\* The first run starts with every path at most once, and a step moves it.
LEMMA NextHeld ==
    ASSUME NothingTwice
    PROVE  /\ TypeOK /\ JobsInv /\ EndsInv /\ QueuesInv /\ FinishInv /\ PlacesInv
           /\ HeldInv /\ [Next]_vars
           => HeldInv'
<1> SUFFICES ASSUME TypeOK, JobsInv, EndsInv, QueuesInv, FinishInv, PlacesInv, HeldInv,
                    [Next]_vars, runs' = 1, NEW p \in Paths
             PROVE  /\ Held(p)' <= Occurrences(p)
                    /\ SoundStart /\ ~cancelled' => Held(p)' = Occurrences(p)
  BY DEF HeldInv, SoundStart
<1>1. Occurrences(p) \in Nat /\ Occurrences(p) <= 1
  BY ConstantWeights DEF NothingTwice
<1>2. CASE BeginIndexing
  <2>1. runs = 0
    BY <1>2 DEF BeginIndexing, TypeOK
  <2>2. Held(p)' = Occurrences(p)
    BY <1>2, <2>1, BeginHeld
  <2> QED
    BY <1>1, <2>2
<1>3. CASE ~BeginIndexing
  <2>1. runs' = runs /\ (cancelled => cancelled')
    BY <1>3, StepKeepsRun
  <2>2. runs = 1
    BY <2>1
  <2>3. Held(p)' <= Held(p) /\ (SoundStart /\ ~cancelled /\ Held(p) <= 1 => Held(p)' = Held(p))
    BY <1>3, <2>2, StepHeld
  <2>4. Held(p) <= Occurrences(p) /\ (SoundStart /\ ~cancelled => Held(p) = Occurrences(p))
    BY <2>2 DEF HeldInv
  <2>5. Held(p) \in Nat
    BY PlaceTypes
  <2>6. Held(p)' \in Int
    <3>1. TypeOK'
      BY NextTypeOK
    <3> QED
      BY <3>1, PlacesThen DEF PlacesAreNumbers
  <2>7. Held(p)' <= Occurrences(p) /\ Held(p) <= 1
    BY <1>1, <2>3, <2>4, <2>5, <2>6
  <2> QED
    BY <2>1, <2>3, <2>4, <2>7
<1> QED
  BY <1>2, <1>3

\* What is counted is new: its path was at one place, its result.
LEMMA NextCount ==
    ASSUME NothingTwice
    PROVE  /\ TypeOK /\ JobsInv /\ QueuesInv /\ HeldInv /\ CountInv /\ [Next]_vars
           => CountInv'
<1> SUFFICES ASSUME TypeOK, JobsInv, QueuesInv, HeldInv, CountInv, [Next]_vars, runs' <= 1
             PROVE  Total' = Cardinality(reported')
  BY DEF CountInv
<1>1. runs \in Nat
  BY DEF TypeOK
<1>2. CASE BeginIndexing
  <2>1. counts' = [added |-> 0, skipped |-> 0, errored |-> 0] /\ reported' = {}
    BY <1>2 DEF BeginIndexing
  <2>2. Total' = 0
    BY <2>1 DEF Total
  <2> QED
    BY <2>1, <2>2, FS_EmptySet
<1>3. CASE ~BeginIndexing /\ HandleResult
  <2>1. runs' = runs
    BY <1>3, StepKeepsRun
  <2>2. runs = 1
    <3>1. CASE runs = 0
      <4> QED
        BY <1>3, <3>1 DEF HandleResult, Handling, JobsInv, NothingBeforeRun
    <3> QED
      BY <1>1, <2>1, <3>1
  <2>3. events # <<>> /\ events' = Tail(events) /\ Head(events).type = "result"
    BY <1>3 DEF HandleResult, Handling
  <2>4. PICK e \in AnyEvent : e = Head(events)
    BY <2>3, TakeHolds
  <2>5. e.path \in Paths /\ e.type = "result"
    BY <2>3, <2>4 DEF AnyEvent, DirEvents, JobEvents
  <2>6. PICK p \in Paths : p = e.path
    BY <2>5
  <2>7. Occurrences(p) \in Nat /\ Occurrences(p) <= 1
    BY ConstantWeights DEF NothingTwice
  <2>8. Held(p) <= 1
    <3>1. Held(p) <= Occurrences(p)
      BY <2>2 DEF HeldInv
    <3>2. Held(p) \in Nat
      BY PlaceTypes
    <3> QED
      BY <2>7, <3>1, <3>2
  <2>9. p \notin reported
    BY <1>3, <2>4, <2>6, <2>8, ResultHeld
  <2>10. reported' = reported \cup {p} /\ counts' = Counted(e.code)
    BY <1>3, <2>4, <2>6 DEF HandleResult
  <2>11. IsFiniteSet(reported)
    BY FS_Subset, TreeAssumption DEF TypeOK
  <2>12. Cardinality(reported') = Cardinality(reported) + 1
    BY <2>9, <2>10, <2>11, FS_AddElement
  <2>13. Total' = Total + 1
    <3>1. counts.added \in Nat /\ counts.skipped \in Nat /\ counts.errored \in Nat
      BY DEF TypeOK, Counters
    <3>2. /\ counts'.added = counts.added + IF e.code = "ok" THEN 1 ELSE 0
          /\ counts'.skipped = counts.skipped + IF e.code = "skipped" THEN 1 ELSE 0
          /\ counts'.errored = counts.errored + IF e.code \in {"ok", "skipped"} THEN 0 ELSE 1
      BY <2>10 DEF Counted
    <3>3. \/ /\ counts'.added = counts.added + 1 /\ counts'.skipped = counts.skipped + 0
             /\ counts'.errored = counts.errored + 0
          \/ /\ counts'.added = counts.added + 0 /\ counts'.skipped = counts.skipped + 1
             /\ counts'.errored = counts.errored + 0
          \/ /\ counts'.added = counts.added + 0 /\ counts'.skipped = counts.skipped + 0
             /\ counts'.errored = counts.errored + 1
      BY <3>2
    <3>4. /\ Total = (counts.added + counts.skipped) + counts.errored
          /\ Total' = (counts'.added + counts'.skipped) + counts'.errored
      BY DEF Total
    <3> QED
      BY <3>1, <3>3, <3>4
  <2>14. Total = Cardinality(reported)
    BY <2>2 DEF CountInv
  <2> QED
    BY <2>12, <2>13, <2>14
<1>4. CASE ~BeginIndexing /\ ~HandleResult
  <2>1. runs' = runs /\ UNCHANGED <<counts, reported>>
    BY <1>4, StepKeepsRun
  <2>2. Total = Cardinality(reported)
    BY <2>1 DEF CountInv
  <2> QED
    BY <2>1, <2>2 DEF Total
<1> QED
  BY <1>2, <1>3, <1>4

LEMMA InitHeld == Init => PlacesInv /\ HeldInv /\ CountInv
<1> SUFFICES ASSUME Init PROVE PlacesInv /\ HeldInv /\ CountInv
  OBVIOUS
<1>1. /\ runs = 0 /\ dirs = <<>> /\ fileTargets = EmptyQueue /\ ~cancelled /\ entries = <<>>
      /\ phase = "idle"
      /\ targets = EmptyQueue /\ cancelToken \in InitialTokens /\ reported = {}
      /\ counts = [added |-> 0, skipped |-> 0, errored |-> 0]
  BY DEF Init, DirScannerInit
<1>2. fileTargets.items = <<>> /\ targets.items = <<>>
  BY <1>1 DEF EmptyQueue
<1>3. TokenSet
  <2>1. SoundStart => ~cancelToken
    BY <1>1, IndexerAssumption DEF SoundStart
  <2> QED
    BY <2>1 DEF TokenSet
<1>4. PlacesInv
  BY <1>1, <1>2, <1>3 DEF PlacesInv, NothingGiven, EntriesListed, TargetsOfAScan, LastPicked
<1>5. HeldInv
  BY <1>1 DEF HeldInv
<1>6. Total = 0
  BY <1>1 DEF Total
<1>7. CountInv
  BY <1>1, <1>6, FS_EmptySet DEF CountInv
<1> QED
  BY <1>4, <1>5, <1>7

LEMMA HeldInvariant ==
    ASSUME NothingTwice
    PROVE  Spec => [](/\ TypeOK /\ JobsInv /\ EndsInv /\ QueuesInv /\ FinishInv
                      /\ PlacesInv /\ HeldInv /\ CountInv)
<1>1. Init => PlacesInv /\ HeldInv /\ CountInv
  BY InitHeld
<1>2. TypeOK /\ JobsInv /\ EndsInv /\ QueuesInv /\ FinishInv /\ PlacesInv /\ [Next]_vars
        => PlacesInv'
  BY NextPlaces
<1>3. /\ TypeOK /\ JobsInv /\ EndsInv /\ QueuesInv /\ FinishInv /\ PlacesInv
      /\ HeldInv /\ [Next]_vars
      => HeldInv'
  BY NextHeld
<1>4. TypeOK /\ JobsInv /\ QueuesInv /\ HeldInv /\ CountInv /\ [Next]_vars => CountInv'
  BY NextCount
<1> QED
  BY <1>1, <1>2, <1>3, <1>4, FinishInvariant, PTL DEF Spec

\* Whatever the threads do, in the first run no file is counted twice, be the run cancelled or
\* not, if the arguments name no file twice (indexer.cpp:112-126 counts, filescanworker.cpp:16
\* and dirscanworker.cpp:36-62 hand over).
THEOREM CountedOnceInFirstRun ==
    ASSUME NothingTwice
    PROVE  Spec => [](runs <= 1 => CountedOnce)
<1>1. CountInv => (runs <= 1 => CountedOnce)
  BY DEF CountInv, CountedOnce
<1> QED
  BY <1>1, HeldInvariant, PTL

\* A run that nobody cancelled leaves nothing anywhere when it says it is finished.
Finished == runs = 1 /\ phase = "idle" /\ ~cancelled

LEMMA NobodyLeft ==
    ASSUME TypeOK, JobsInv, EndsInv, FinishInv, Finished
    PROVE  /\ mainPc \notin {"arguments", "list"} /\ mainPc \in {"loop", "exited"} /\ ~stopToken
           /\ \A j \in DOMAIN jobs : jobs[j].pc = "done"
           /\ \A w \in DOMAIN dirWorkers : dirWorkers[w].pc = "done"
           /\ \A i \in DOMAIN events : events[i].type \notin {"result", "progress"}
<1>1. mainPc \in {"loop", "exited"}
  BY DEF Finished, FinishInv, RestInv
<1>2. ~stopToken
  BY DEF Finished, FinishInv, ScanInv
<1>3. \A j \in DOMAIN jobs : jobs[j].pc = "done"
  BY DEF Finished, FinishInv, RestInv, LiveJobs
<1>4. \A w \in DOMAIN dirWorkers : dirWorkers[w].pc = "done"
  BY DEF Finished, FinishInv, RestInv
<1>5. ASSUME NEW i \in DOMAIN events PROVE events[i].type # "result"
  BY <1>3 DEF JobsInv, JobEventsInv
<1>6. ASSUME NEW i \in DOMAIN events, events[i].type = "progress" PROVE FALSE
  <2>1. PICK w \in DOMAIN dirWorkers :
           \/ dirWorkers[w].pc \notin {"posted", "done"}
           \/ \E k \in DOMAIN events : i < k /\ IsEnd(events[k], w)
    BY <1>6 DEF EndsInv, EndsLast
  <2>2. PICK k \in DOMAIN events : IsEnd(events[k], w)
    BY <1>4, <2>1
  <2>3. dirWorkers[w].pc = "posted"
    BY <2>2 DEF EndsInv, EndsPosted, IsEnd
  <2> QED
    BY <1>4, <2>3
<1>7. \A i \in DOMAIN events : events[i].type \notin {"result", "progress"}
  BY <1>5, <1>6
<1> QED
  BY <1>1, <1>2, <1>3, <1>4, <1>7

\* Promises are kept exactly, and there are none left.
LEMMA QueuesAreEmpty ==
    ASSUME TypeOK, JobsInv, EndsInv, QueuesInv, FinishInv, PlacesInv, SoundStart, Finished
    PROVE  fileTargets.items = <<>> /\ results.items = <<>> /\ targets.items = <<>>
<1>1. /\ mainPc \in {"loop", "exited"} /\ ~stopToken
      /\ \A j \in DOMAIN jobs : jobs[j].pc = "done"
      /\ \A w \in DOMAIN dirWorkers : dirWorkers[w].pc = "done"
      /\ \A i \in DOMAIN events : events[i].type \notin {"result", "progress"}
  BY NobodyLeft
<1>2. runs <= 1
  BY DEF Finished
<1>3. Claimed("files") = 0 /\ Claimed("results") = 0
  BY <1>1, NoneWaiting
<1>4. AnnouncedByEvents = 0
  <2>1. events \in Seq(AnyEvent)
    BY DEF TypeOK, AnyEvent
  <2>2. Counts \in [AnyEvent -> Int]
    BY WeightTypes
  <2>3. ASSUME NEW i \in DOMAIN events PROVE Counts[events[i]] = 0
    <3>1. events[i] \in AnyEvent
      BY <2>1, ElementOfSeq, LenProperties
    <3> QED
      BY <1>1, <3>1 DEF Counts, CountOf
  <2>4. Weigh(Counts, events) = 0
    BY <2>1, <2>2, <2>3, WeighNaturals
  <2> QED
    BY <2>1, <2>4, CountsWeigh DEF AnnouncedByEvents, Announced
<1>5. Sum(Collected(Announcing)) = 0
  <2> DEFINE g == Collections(Announcing)
  <2>1. dirWorkers \in Seq(DirWorker) /\ g \in [DirWorker -> Int]
    BY WeightTypes DEF TypeOK
  <2>2. ASSUME NEW w \in DOMAIN dirWorkers PROVE g[dirWorkers[w]] = 0
    <3>1. dirWorkers[w] \in DirWorker /\ dirWorkers[w].pc \notin Announcing
      BY <1>1, WorkerAt DEF Announcing
    <3> QED
      BY <3>1 DEF Collections, Collection
  <2>3. Sum(Collected(Announcing)) = Weigh(g, dirWorkers)
    BY <2>1, CollectionsWeigh DEF Collected
  <2> HIDE DEF g
  <2> QED
    BY <2>1, <2>2, <2>3, WeighNaturals
<1>6. AboutToBeAnnounced = 0
  <2>1. mainPc # "list"
    BY <1>1
  <2>2. AboutToBeAnnounced =
          Sum(Collected(Announcing)) + IF mainPc = "list" THEN processedPaths ELSE 0
    BY BalanceTypes
  <2> QED
    BY <1>5, <2>1, <2>2
<1>7. Len(fileTargets.items) \in Nat /\ Len(results.items) \in Nat
  BY BalanceTypes
<1>8. Len(fileTargets.items) = 0
  <2>1. SpareFiles = 0
    BY <1>1 DEF QueuesInv, PromisesInv
  <2> QED
    BY <1>3, <1>7, <2>1 DEF SpareFiles
<1>9. Len(results.items) = 0
  <2>1. SpareResults = 0
    BY <1>1, <1>2 DEF QueuesInv, PromisesInv
  <2> QED
    BY <1>3, <1>4, <1>6, <1>7, <2>1 DEF SpareResults
<1>10. fileTargets.items = <<>> /\ results.items = <<>>
  <2>1. fileTargets.items \in Seq(Paths) /\ results.items \in Seq(Paths)
    BY BalanceTypes
  <2> QED
    BY <1>8, <1>9, <2>1, EmptySeq
<1>11. targets.items = <<>>
  <2>1. CASE paths = <<>>
    BY <1>2, <2>1 DEF PlacesInv, TargetsOfAScan
  <2>2. CASE paths # <<>>
    <3>1. paths \in Seq(ArgDirs) /\ dirWorkers \in Seq(DirWorker)
      BY DEF TypeOK
    <3>2. Len(paths) \in Nat /\ Len(paths) # 0
      BY <2>2, <3>1, EmptySeq, LenProperties
    <3>3. ScanThreads \in Nat /\ ScanThreads > 0
      BY TreeAssumption DEF SoundStart
    <3>4. ThreadsNum > 0
      BY <3>2, <3>3 DEF ThreadsNum
    <3>5. Len(dirWorkers) > 0 /\ Len(dirWorkers) \in Nat
      <4>1. Len(dirWorkers) = ThreadsNum
        BY <1>1, <1>2 DEF FinishInv, ScanInv, ScanCount
      <4> QED
        BY <3>1, <3>4, <4>1, LenProperties
    <3>6. 1 \in DOMAIN dirWorkers
      BY <3>1, <3>5, LenProperties
    <3>7. dirWorkers[1].pc \in LastPcs
      BY <1>1, <3>6 DEF LastPcs
    <3> QED
      BY <1>1, <1>2, <3>6, <3>7 DEF PlacesInv, LastPicked
  <2> QED
    BY <2>1, <2>2
<1> QED
  BY <1>10, <1>11

LEMMA AllReported ==
    ASSUME TypeOK, JobsInv, EndsInv, QueuesInv, FinishInv, PlacesInv, HeldInv, SoundStart,
           Finished, NEW p \in Paths
    PROVE  p \in reported <=> p \in Files
<1>1. /\ mainPc \notin {"arguments", "list"}
      /\ \A j \in DOMAIN jobs : jobs[j].pc = "done"
      /\ \A w \in DOMAIN dirWorkers : dirWorkers[w].pc = "done"
      /\ \A i \in DOMAIN events : events[i].type \notin {"result", "progress"}
  BY NobodyLeft
<1>2. ToVisit(p) = 0
  BY <1>1, Visits
<1>3. Given(p) = 0 /\ Found(p) = 0 /\ Targeted(p) = 0
  BY QueuesAreEmpty, WeighEmpty DEF Given, Found, Targeted
<1>4. /\ InWorker(p) \in [DirWorker -> Int] /\ InJob(p) \in [Job -> Int]
      /\ InEvent(p) \in [AnyEvent -> Int]
      /\ dirWorkers \in Seq(DirWorker) /\ jobs \in Seq(Job) /\ events \in Seq(AnyEvent)
  BY StateWeights, Weights DEF TypeOK, AnyEvent
<1>5. Walking(p) = 0
  <2>1. ASSUME NEW w \in DOMAIN dirWorkers PROVE InWorker(p)[dirWorkers[w]] = 0
    <3>1. dirWorkers[w] \in DirWorker
      BY WorkerAt
    <3>2. /\ ToWalk(p, dirWorkers[w].pc, dirWorkers[w].left) = 0
          /\ Collects(p, dirWorkers[w].pc, dirWorkers[w].found) = 0
      BY <1>1 DEF ToWalk, Collects, LeftPcs, FoundPcs
    <3> QED
      BY <3>1, <3>2 DEF InWorker
  <2>2. \A w \in DOMAIN dirWorkers : InWorker(p)[dirWorkers[w]] >= 0
    BY <2>1
  <2> QED
    BY <1>4, <2>1, <2>2, WeighNaturals DEF Walking
<1>6. Indexing(p) = 0
  <2>1. ASSUME NEW j \in DOMAIN jobs PROVE InJob(p)[jobs[j]] = 0
    <3>1. jobs[j] \in Job /\ jobs[j].pc \notin {"process", "check"}
      BY <1>1, JobAt
    <3> QED
      BY <3>1 DEF InJob
  <2>2. \A j \in DOMAIN jobs : InJob(p)[jobs[j]] >= 0
    BY <2>1
  <2> QED
    BY <1>4, <2>1, <2>2, WeighNaturals DEF Indexing
<1>7. Answered(p) = 0
  <2>1. ASSUME NEW i \in DOMAIN events PROVE InEvent(p)[events[i]] = 0
    <3>1. events[i] \in AnyEvent /\ events[i].type # "result"
      BY <1>1, <1>4, ElementOfSeq, LenProperties
    <3> QED
      BY <3>1 DEF InEvent
  <2>2. \A i \in DOMAIN events : InEvent(p)[events[i]] >= 0
    BY <2>1
  <2> QED
    BY <1>4, <2>1, <2>2, WeighNaturals DEF Answered
<1>8. Held(p) = Reported(p)
  <2>1. Reported(p) \in Nat
    BY PlaceTypes
  <2> QED
    BY <1>2, <1>3, <1>5, <1>6, <1>7, <2>1 DEF Held
<1>9. Held(p) = Occurrences(p)
  BY DEF HeldInv, Finished
<1>10. Occurrences(p) > 0 <=> p \in reported
  <2>1. CASE p \in reported
    <3>1. Occurrences(p) = 1
      BY <1>8, <1>9, <2>1 DEF Reported
    <3> QED
      BY <2>1, <3>1
  <2>2. CASE p \notin reported
    <3>1. Occurrences(p) = 0
      BY <1>8, <1>9, <2>2 DEF Reported
    <3> QED
      BY <2>2, <3>1
  <2> QED
    BY <2>1, <2>2
<1> QED
  BY <1>10, FilesOccur

\* The first run, unless it is cancelled, is finished only when every file below its arguments
\* was counted once and no directory worker is left, whatever the sizes of the queue and the
\* pools and however the threads interleave, if the arguments name no file twice, the
\* uninitialised token happens to be false and the scanner's pool has a thread
\* (paralleldirscanner.cpp:12, indexer.h:70, indexer.cpp:63,108).
THEOREM FirstRunFinishedMeansAllIndexed ==
    ASSUME NothingTwice, SoundStart
    PROVE  Spec => [](runs <= 1 => FinishedMeansAllIndexed)
<1>1. /\ TypeOK /\ JobsInv /\ EndsInv /\ QueuesInv /\ FinishInv /\ PlacesInv /\ HeldInv
      /\ CountInv
      => (runs <= 1 => FinishedMeansAllIndexed)
  <2> SUFFICES ASSUME TypeOK, JobsInv, EndsInv, QueuesInv, FinishInv, PlacesInv, HeldInv,
                      CountInv, runs <= 1, phase = "idle", runs > 0, ~cancelled
               PROVE  /\ reported = Files
                      /\ Total = Cardinality(Files)
                      /\ \A w \in DOMAIN dirWorkers : dirWorkers[w].pc = "done"
    BY DEF FinishedMeansAllIndexed
  <2>1. Finished
    BY DEF Finished, TypeOK
  <2>2. reported \subseteq Paths
    BY DEF TypeOK
  <2>3. Files \subseteq Paths
    BY DEF Files, Paths
  <2>4. reported = Files
    BY <2>1, <2>2, <2>3, AllReported
  <2>5. Total = Cardinality(reported)
    BY DEF CountInv
  <2> QED
    BY <2>1, <2>4, <2>5, NobodyLeft
<1> QED
  BY <1>1, HeldInvariant, PTL

----------------------------------------------------------------------------
(* The first run is a run of IndexRun.  When it has finished nothing        *)
(* happens any more, unless an error cancelled it.                          *)
QuietInv ==
    /\ runs <= 1 /\ cancelled => stopToken /\ mainPc \in {"loop", "exited"}
    /\ runs <= 1 /\ phase = "idle" /\ (KeepGoing \/ ~cancelled) => LiveJobs = {} /\ ~scanning

NoJobCounted == runningWorkers = 0
NoJobLives == LiveJobs = {}

LEMMA NoLiveJob == TypeOK /\ JobsInv /\ NoJobCounted => NoJobLives
<1> SUFFICES ASSUME TypeOK, JobsInv, runningWorkers = 0 PROVE LiveJobs = {}
  BY DEF NoJobCounted, NoJobLives
<1>1. IsFiniteSet(LiveJobs)
  BY LiveJobsFinite
<1>2. Cardinality(LiveJobs) = 0
  BY DEF JobsInv, RunningWorkersExact
<1> QED
  BY <1>1, <1>2, FS_EmptySet

LEMMA NoLiveJobThen == TypeOK' /\ JobsInv' /\ NoJobCounted' => NoJobLives'
BY NoLiveJob, PTL

LEMMA HandlerQuiet ==
    ASSUME TypeOK, JobsInv, EndsInv, FinishInv, QuietInv, runs <= 1,
           HandleProgress \/ HandleDirFinished \/ HandleResult \/ HandleFileFinished
    PROVE  QuietInv'
<1>1. /\ mainPc = "loop" /\ mainPc' = "loop" /\ runs' = runs
      /\ events # <<>> /\ events' = Tail(events)
  BY DEF HandleProgress, HandleDirFinished, HandleResult, HandleFileFinished, Handling
<1>2. events[1] = Head(events) /\ 1 \in DOMAIN events
  BY <1>1, TailEvents
<1>3. CASE HandleProgress
  <2>1. UNCHANGED <<stopToken, cancelled, scanning, phase>> /\ Head(events).type = "progress"
    BY <1>3 DEF HandleProgress, Handling, CountProgress
  <2>2. ASSUME phase = "idle" PROVE jobs' = jobs
    <3>1. CASE cancelled
      <4>1. stopToken
        BY <3>1 DEF QuietInv
      <4> QED
        BY <1>3, <4>1 DEF HandleProgress
    <3>2. CASE ~cancelled
      <4>1. runs # 0
        BY <1>1 DEF JobsInv, NothingBeforeRun
      <4>2. Finished
        BY <2>2, <3>2, <4>1 DEF Finished, TypeOK
      <4>3. events[1].type # "progress"
        BY <1>2, <4>2, NobodyLeft
      <4> QED
        BY <1>2, <2>1, <4>3
    <3> QED
      BY <3>1, <3>2
  <2>3. phase = "idle" => LiveJobs' = LiveJobs
    BY <2>2 DEF LiveJobs
  <2> QED
    BY <1>1, <2>1, <2>3 DEF QuietInv
<1>4. CASE HandleDirFinished
  <2>1. /\ UNCHANGED <<stopToken, cancelled, jobs>>
        /\ scanning' = IF ScanIsComplete THEN FALSE ELSE scanning
        /\ IF ScanIsComplete /\ runningWorkers = 0 THEN EmitFinished ELSE DoNotFinish
    BY <1>4 DEF HandleDirFinished, CountDirFinish
  <2>2. LiveJobs' = LiveJobs
    BY <2>1 DEF LiveJobs
  <2>3. CASE ScanIsComplete /\ runningWorkers = 0
    <3>1. LiveJobs = {} /\ ~scanning'
      BY <2>1, <2>3, NoLiveJob DEF NoJobCounted, NoJobLives
    <3> QED
      BY <1>1, <2>1, <2>2, <3>1 DEF QuietInv
  <2>4. CASE ~(ScanIsComplete /\ runningWorkers = 0)
    <3>1. phase' = phase /\ (~scanning => ~scanning')
      BY <2>1, <2>4 DEF DoNotFinish
    <3> QED
      BY <1>1, <2>1, <2>2, <3>1 DEF QuietInv
  <2> QED
    BY <2>3, <2>4
<1>5. CASE HandleResult
  <2>1. UNCHANGED <<scanning, jobs>> /\ LiveJobs' = LiveJobs
    BY <1>5 DEF HandleResult, LiveJobs
  <2>2. \/ UNCHANGED <<stopToken, cancelled, phase>>
        \/ ~KeepGoing /\ stopToken' /\ cancelled'
    BY <1>5 DEF HandleResult, RequestCancellation, DoNotCancel, DoNotFinish
  <2> QED
    BY <1>1, <2>1, <2>2 DEF QuietInv
<1>6. CASE HandleFileFinished
  <2>1. /\ UNCHANGED <<stopToken, cancelled, scanning>>
        /\ runningWorkers' = runningWorkers - 1 /\ Head(events).type = "fileFinished"
        /\ IF runningWorkers - 1 = 0 /\ ~scanning THEN EmitFinished ELSE DoNotFinish
    BY <1>6 DEF HandleFileFinished, Handling, scanVars
  <2>2. LiveJobs # {}
    <3>1. events[1].job \in DOMAIN jobs /\ jobs[events[1].job].pc # "done"
      BY <1>2, <2>1 DEF JobsInv, JobEventsInv
    <3> QED
      BY <3>1 DEF LiveJobs
  <2>3. CASE runningWorkers - 1 = 0 /\ ~scanning
    <3>1. TypeOK' /\ JobsInv'
      BY <1>6, HandlerTypeOK, HandlerJobsInv
    <3>2. runningWorkers' = 0
      BY <2>1, <2>3
    <3>3. LiveJobs' = {}
      BY <3>1, <3>2, NoLiveJobThen DEF NoJobCounted, NoJobLives
    <3> QED
      BY <1>1, <2>1, <2>3, <3>3 DEF QuietInv
  <2>4. CASE ~(runningWorkers - 1 = 0 /\ ~scanning)
    <3>1. phase' = phase
      BY <2>1, <2>4 DEF DoNotFinish
    <3> QED
      BY <1>1, <2>1, <2>2, <3>1 DEF QuietInv
  <2> QED
    BY <2>3, <2>4
<1> QED
  BY <1>3, <1>4, <1>5, <1>6

LEMMA NextQuiet ==
    TypeOK /\ JobsInv /\ EndsInv /\ QueuesInv /\ FinishInv /\ QuietInv /\ [Next]_vars => QuietInv'
<1> SUFFICES ASSUME TypeOK, JobsInv, EndsInv, QueuesInv, FinishInv, QuietInv, [Next]_vars
             PROVE  QuietInv'
  OBVIOUS
<1>1. CASE BeginIndexing
  <2>1. ~cancelled' /\ phase' = "indexing"
    BY <1>1 DEF BeginIndexing
  <2> QED
    BY <2>1 DEF QuietInv
<1>2. CASE ~BeginIndexing /\ runs <= 1
  <2>1. runs' = runs
    BY <1>2, StepKeepsRun
  <2>2. CASE UNCHANGED vars
    BY <2>2 DEF QuietInv, LiveJobs, vars, scanVars, jobVars, mainVars
  <2>3. CASE \E w \in DOMAIN dirWorkers : DirWorkerThread(w)
    <3>1. UNCHANGED <<cancelled, stopToken, mainPc, phase, jobs, scanning>>
      BY <2>3 DEF DirWorkerThread, DirWorkerStep, jobVars, mainVars, mainScanVars
    <3>2. LiveJobs' = LiveJobs
      BY <3>1 DEF LiveJobs
    <3> QED
      BY <2>1, <3>1, <3>2 DEF QuietInv
  <2>4. CASE \E j \in DOMAIN jobs : JobStep(j)
    <3>1. PICK j \in DOMAIN jobs : JobStep(j)
      BY <2>4
    <3>2. jobs[j].pc # "done"
      BY <3>1 DEF JobStep, StartJob, TakeBatch, ProcessPath, CheckToken, AtJob
    <3>3. LiveJobs # {}
      BY <3>2 DEF LiveJobs
    <3>4. UNCHANGED <<cancelled, stopToken, mainPc, phase>>
      BY <3>1 DEF JobStep, mainScanVars, mainVars
    <3> QED
      BY <2>1, <3>3, <3>4 DEF QuietInv
  <2>5. CASE HandleProgress \/ HandleDirFinished \/ HandleResult \/ HandleFileFinished
    BY <1>2, <2>5, HandlerQuiet
  <2>6. CASE StopIndexing
    <3>1. /\ mainPc = "loop" /\ mainPc' = "loop" /\ stopToken' /\ cancelled'
          /\ UNCHANGED <<phase, jobs, scanning>>
      BY <2>6 DEF StopIndexing, RequestCancellation
    <3>2. LiveJobs' = LiveJobs
      BY <3>1 DEF LiveJobs
    <3>3. phase' = "idle" /\ KeepGoing => LiveJobs' = {} /\ ~scanning'
      BY <1>2, <3>1, <3>2 DEF QuietInv
    <3> QED
      BY <2>1, <3>1, <3>3 DEF QuietInv
  <2>7. CASE LeaveEventLoop
    <3>1. mainPc' = "exited" /\ UNCHANGED <<cancelled, stopToken, phase, jobs, scanning>>
      BY <2>7 DEF LeaveEventLoop, scanVars, jobVars, clickVars
    <3>2. LiveJobs' = LiveJobs
      BY <3>1 DEF LiveJobs
    <3> QED
      BY <2>1, <3>1, <3>2 DEF QuietInv
  <2>8. CASE \/ NextArgument \/ StartScan \/ OpenDirectory \/ NextEntry \/ AnnounceFirstLevel
             \/ SpawnOrComplete \/ LaunchFileTargets
    <3>1. mainPc \notin {"loop", "exited"} /\ UNCHANGED <<cancelled, phase>>
      BY <2>8 DEF NextArgument, StartScan, OpenDirectory, NextEntry, AnnounceFirstLevel,
         SpawnOrComplete, LaunchFileTargets, clickVars
    <3>2. ~cancelled /\ phase = "indexing"
      BY <1>2, <3>1 DEF QuietInv, FinishInv, RestInv
    <3> QED
      BY <3>1, <3>2 DEF QuietInv
  <2> QED
    BY <1>2, <2>2, <2>3, <2>4, <2>5, <2>6, <2>7, <2>8 DEF Next, MainStep
<1>3. CASE ~BeginIndexing /\ ~(runs <= 1)
  <2>1. runs' = runs
    BY <1>3, StepKeepsRun
  <2> QED
    BY <1>3, <2>1 DEF QuietInv
<1> QED
  BY <1>1, <1>2, <1>3

\* Who says it is finished has reported everything or was cancelled; who is told of a result
\* was waiting for it, and had not been told before.
LEMMA ResultImplements ==
    ASSUME NothingTwice, TypeOK, JobsInv, QueuesInv, QuietInv, HeldInv, runs = 1,
           HandleResult
    PROVE  AbstractRun!Next
<1>1. /\ events # <<>> /\ events' = Tail(events) /\ Head(events).type = "result"
      /\ reported' = reported \cup {Head(events).path}
      /\ \/ UNCHANGED <<phase, cancelled>>
         \/ ~KeepGoing /\ phase' = "idle" /\ cancelled' = TRUE
  BY DEF HandleResult, Handling, DoNotCancel, DoNotFinish, RequestCancellation, EmitFinished
<1>2. events[1] = Head(events) /\ 1 \in DOMAIN events
  BY <1>1, TailEvents
<1>3. phase = "indexing" \/ (phase = "idle" /\ cancelled = TRUE /\ ~KeepGoing)
  <2>1. LiveJobs # {}
    <3>1. events[1].job \in DOMAIN jobs /\ jobs[events[1].job].pc # "done"
      BY <1>1, <1>2 DEF JobsInv, JobEventsInv
    <3> QED
      BY <3>1 DEF LiveJobs
  <2>2. runs <= 1
    OBVIOUS
  <2>3. ~(phase = "idle" /\ (KeepGoing \/ ~cancelled))
    BY <2>1, <2>2 DEF QuietInv
  <2>4. phase \in {"idle", "indexing"} /\ cancelled \in BOOLEAN
    BY DEF TypeOK
  <2> QED
    BY <2>3, <2>4
<1>4. PICK e \in AnyEvent : e = Head(events)
  BY <1>1, TakeHolds
<1>5. e.path \in Paths /\ e.type = "result"
  BY <1>1, <1>4 DEF AnyEvent, DirEvents, JobEvents
<1>6. PICK p \in Paths : p = e.path
  BY <1>5
<1>7. Occurrences(p) \in Nat /\ Occurrences(p) <= 1
  BY ConstantWeights DEF NothingTwice
<1>8. Held(p) <= Occurrences(p) /\ Held(p) \in Nat
  BY PlaceTypes DEF HeldInv
<1>9. p \notin reported
  <2>1. Held(p) <= 1
    BY <1>7, <1>8
  <2> QED
    BY <1>4, <1>6, <2>1, ResultHeld
<1>10. p \in Files
  <2>1. Answered(p) > 0
    <3>1. InEvent(p)[e] = 1
      BY <1>5, <1>6 DEF InEvent
    <3>2. Answered(p)' \in Nat /\ Answered(p) = InEvent(p)[e] + Answered(p)'
      BY <1>1, <1>4, TakeHolds
    <3> QED
      BY <3>1, <3>2
  <2>2. Held(p) > 0
    <3>2. PICK front \in Nat :
             front = ((((ToVisit(p) + Given(p)) + Targeted(p)) + Found(p)) + Walking(p))
                     + Indexing(p)
      BY PlaceTypes
    <3>3. Held(p) = (front + Answered(p)) + Reported(p)
      BY <3>2 DEF Held
    <3>4. Answered(p) \in Nat /\ Reported(p) \in Nat
      BY PlaceTypes
    <3> QED
      BY <2>1, <3>3, <3>4
  <2>3. Occurrences(p) > 0
    BY <1>7, <1>8, <2>2
  <2> QED
    BY <2>3, FilesOccur
<1>11. reported' = reported \cup {p}
  BY <1>1, <1>4, <1>6
<1>12. AbstractRun!Report(p) \/ AbstractRun!Fail(p) \/ AbstractRun!ReportLate(p)
  BY <1>1, <1>3, <1>9, <1>10, <1>11
     DEF AbstractRun!Report, AbstractRun!Fail, AbstractRun!ReportLate
<1> QED
  BY <1>10, <1>12 DEF AbstractRun!Next

LEMMA StepImplements ==
    ASSUME NothingTwice, TypeOK, JobsInv, EndsInv, QueuesInv, FinishInv, PlacesInv,
           QuietInv, HeldInv, runs <= 1 => FinishedMeansAllIndexed,
           (runs <= 1 => FinishedMeansAllIndexed)', [Next]_vars, runs' <= 1
    PROVE  AbstractRun!Next \/ UNCHANGED AbstractRun!runVars
<1>1. runs \in Nat
  BY DEF TypeOK
<1>2. CASE UNCHANGED vars
  BY <1>2 DEF vars, mainVars, AbstractRun!runVars
<1>3. CASE BeginIndexing
  <2>1. runs = 0
    BY <1>1, <1>3 DEF BeginIndexing
  <2>2. phase = "idle"
    BY <2>1 DEF PlacesInv, NothingGiven
  <2>3. AbstractRun!Begin
    BY <1>3, <2>2 DEF BeginIndexing, AbstractRun!Begin
  <2> QED
    BY <2>3 DEF AbstractRun!Next
<1>4. CASE ~UNCHANGED vars /\ ~BeginIndexing
  <2>1. runs' = runs
    BY <1>4, StepKeepsRun
  <2>2. runs = 1 /\ runs <= 1
    <3>1. runs # 0
      BY <1>4, FirstIsBegin
    <3> QED
      BY <1>1, <2>1, <3>1
  <2>3. CASE HandleResult
    BY <2>2, <2>3, ResultImplements
  <2>4. CASE StopIndexing
    <3>1. /\ cancelled' = TRUE /\ UNCHANGED <<phase, reported>> /\ IsRunning
      BY <2>4 DEF StopIndexing, RequestCancellation
    <3>2. CASE phase = "indexing"
      <4>1. AbstractRun!Cancel
        BY <3>1, <3>2 DEF AbstractRun!Cancel
      <4> QED
        BY <4>1 DEF AbstractRun!Next
    <3>3. CASE phase = "idle"
      <4>1. ~(LiveJobs = {} /\ ~scanning)
        <5>1. LiveJobs = {} => runningWorkers = 0
          BY FS_EmptySet DEF JobsInv, RunningWorkersExact
        <5> QED
          BY <3>1, <5>1 DEF IsRunning
      <4>2. cancelled = TRUE
        BY <2>2, <3>3, <4>1 DEF QuietInv, TypeOK
      <4> QED
        BY <3>1, <4>2 DEF AbstractRun!runVars
    <3> QED
      BY <3>2, <3>3 DEF TypeOK
  <2>5. CASE HandleDirFinished \/ HandleFileFinished
    <3>1. /\ UNCHANGED <<cancelled, reported>>
          /\ EmitFinished \/ DoNotFinish
      BY <2>5 DEF HandleDirFinished, HandleFileFinished
    <3>2. CASE phase' = phase
      BY <3>1, <3>2 DEF AbstractRun!runVars
    <3>3. CASE phase' # phase
      <4>1. phase = "indexing" /\ phase' = "idle"
        BY <3>1, <3>3 DEF EmitFinished, DoNotFinish, TypeOK
      <4>2. cancelled \/ reported = Files
        <5>1. ~cancelled' => reported' = Files
          BY <2>1, <2>2, <4>1 DEF FinishedMeansAllIndexed
        <5> QED
          BY <3>1, <5>1
      <4>3. AbstractRun!Finish
        BY <3>1, <4>1, <4>2 DEF AbstractRun!Finish
      <4> QED
        BY <4>3 DEF AbstractRun!Next
    <3> QED
      BY <3>2, <3>3
  <2>6. CASE HandleProgress \/ LeaveEventLoop \/ \E w \in DOMAIN dirWorkers : DirWorkerThread(w)
    <3>1. UNCHANGED <<phase, cancelled, reported>>
      BY <2>6 DEF HandleProgress, LeaveEventLoop, clickVars, DirWorkerThread, mainVars
    <3> QED
      BY <3>1 DEF AbstractRun!runVars
  <2>7. CASE \E j \in DOMAIN jobs : JobStep(j)
    <3>1. UNCHANGED <<phase, cancelled, reported>>
      BY <2>7 DEF JobStep, mainVars
    <3> QED
      BY <3>1 DEF AbstractRun!runVars
  <2>8. CASE \/ NextArgument \/ StartScan \/ OpenDirectory \/ NextEntry \/ AnnounceFirstLevel
             \/ SpawnOrComplete \/ LaunchFileTargets
    <3>1. UNCHANGED <<phase, cancelled, reported>>
      BY <2>8 DEF NextArgument, StartScan, OpenDirectory, NextEntry, AnnounceFirstLevel,
         SpawnOrComplete, LaunchFileTargets, clickVars
    <3> QED
      BY <3>1 DEF AbstractRun!runVars
  <2> QED
    BY <1>4, <2>3, <2>4, <2>5, <2>6, <2>7, <2>8 DEF Next, MainStep
<1> QED
  BY <1>2, <1>3, <1>4

LEMMA QuietInvariant ==
    ASSUME NothingTwice
    PROVE  Spec => [](/\ TypeOK /\ JobsInv /\ EndsInv /\ QueuesInv /\ FinishInv
                      /\ PlacesInv /\ HeldInv /\ CountInv /\ QuietInv)
<1>1. Init => QuietInv
  BY FS_EmptySet DEF Init, DirScannerInit, QuietInv, LiveJobs
<1>2. TypeOK /\ JobsInv /\ EndsInv /\ QueuesInv /\ FinishInv /\ QuietInv /\ [Next]_vars => QuietInv'
  BY NextQuiet
<1> QED
  BY <1>1, <1>2, HeldInvariant, PTL DEF Spec

\* The safety half of IndexRun, step by step: what the threads, queues and batches of the first
\* run amount to is a run that begins, reports each file once, may be cancelled and then, or
\* when all files are reported, finishes; or which the first error ends and cancels, unless it
\* is to keep going (indexer.cpp:112-169).
THEOREM FirstRunImplementsIndexRun ==
    ASSUME NothingTwice, SoundStart
    PROVE  Spec => /\ AbstractRun!Init
                   /\ [][runs' <= 1 => AbstractRun!Next \/ UNCHANGED AbstractRun!runVars]_vars
<1>1. Init => AbstractRun!Init
  BY DEF Init, AbstractRun!Init
<1>2. /\ TypeOK /\ JobsInv /\ EndsInv /\ QueuesInv /\ FinishInv /\ PlacesInv /\ QuietInv
      /\ HeldInv /\ (runs <= 1 => FinishedMeansAllIndexed)
      /\ (runs <= 1 => FinishedMeansAllIndexed)' /\ [Next]_vars
      => (runs' <= 1 => AbstractRun!Next \/ UNCHANGED AbstractRun!runVars)
  BY StepImplements
<1>3. Spec => [](runs <= 1 => FinishedMeansAllIndexed)
  BY FirstRunFinishedMeansAllIndexed
<1> QED
  BY <1>1, <1>2, <1>3, QuietInvariant, PTL DEF Spec

\* looqs add indexes once, with --continue or without: all it does implements the safety of
\* IndexRun (commandadd.cpp:40-134).
THEOREM CommandImplementsIndexRun ==
    ASSUME NothingTwice, SoundStart, ~Gui
    PROVE  Spec => AbstractRun!Safety
<1>1. Spec => []RestInv
  BY FinishInvariant, PTL DEF FinishInv
<1>2. RestInv' /\ (runs' <= 1 => AbstractRun!Next \/ UNCHANGED AbstractRun!runVars)
        => [AbstractRun!Next]_(AbstractRun!runVars)
  BY DEF RestInv
<1>3. UNCHANGED vars => UNCHANGED AbstractRun!runVars
  BY DEF vars, mainVars, AbstractRun!runVars
<1>4. Spec => /\ AbstractRun!Init
              /\ [][runs' <= 1 => AbstractRun!Next \/ UNCHANGED AbstractRun!runVars]_vars
  BY FirstRunImplementsIndexRun
<1> QED
  BY <1>1, <1>2, <1>3, <1>4, PTL DEF AbstractRun!Safety

\* Elements that all weigh the same: their number times that.
LEMMA WeighAlike ==
    ASSUME NEW S, NEW g \in [S -> Int], NEW n \in Nat, NEW s \in Seq(S), Len(s) = n,
           NEW c \in Int, \A i \in 1..n : g[s[i]] = c
    PROVE  Weigh(g, s) = c * n
<1> DEFINE a == [k \in DOMAIN s |-> g[s[k]]]
           f == [k \in 0..n |-> c * k]
<1>1. DOMAIN s = 1..n /\ a \in [1..n -> Int]
  BY WeighType
<1>2. PartialSums(f, n, a)
  <2>1. f \in [0..n -> Int] /\ f[0] = 0
    OBVIOUS
  <2>2. ASSUME NEW k \in 1..n PROVE f[k] = f[k - 1] + a[k]
    <3>1. a[k] = c /\ k - 1 \in 0..n /\ k \in 0..n
      BY <1>1
    <3>2. f[k] = c * k /\ f[k - 1] = c * (k - 1)
      BY <3>1
    <3>3. c * k = c * (k - 1) + c
      BY <3>1
    <3> QED
      BY <3>1, <3>2, <3>3
  <2> HIDE DEF f, a
  <2> QED
    BY <2>1, <2>2 DEF PartialSums
<1>3. Sum(a) = f[n]
  BY <1>1, <1>2, SumIs
<1> QED
  BY <1>3 DEF Weigh

----------------------------------------------------------------------------
(* How much work is left.  Every step but the start of a run leaves less:   *)
(* what it takes from one place weighs more than what it makes of it.       *)

ThreadsWork == Weigh(WorkerWork, dirWorkers)
JobsWork == Weigh(JobWork, jobs)
SignalsWork == Weigh(EventWork, events)
TargetsWork == Weigh(TargetWork, targets.items)
ResultsWork == 4 * Len(results.items)
ButtonWork == IF enabled THEN 1 ELSE 0
FilesWork == 4 * Len(fileTargets.items)

LEMMA WorkWeights ==
    /\ EventWork \in [AnyEvent -> Nat] /\ JobWork \in [Job -> Nat]
    /\ WorkerWork \in [DirWorker -> Nat] /\ TargetWork \in [SubDirs -> Nat]
    /\ EntryWork \in [Paths -> Nat] /\ ListWork \in [ArgDirs -> Nat]
    /\ ArgumentWork \in [Paths -> Nat]
<1>1. EventWork \in [AnyEvent -> Nat]
  BY DEF EventWork, AnyEvent
<1>2. JobWork \in [Job -> Nat]
  <2>1. ASSUME NEW job \in Job PROVE JobPcWork[job.pc] + 4 * Len(job.batch) \in Nat
    <3>1. job.pc \in JobPcs /\ job.batch \in Seq(Paths)
      BY DEF Job
    <3>2. JobPcWork[job.pc] \in Nat
      BY <3>1 DEF JobPcs, JobPcWork
    <3>3. Len(job.batch) \in Nat
      BY <3>1, LenProperties
    <3> QED
      BY <3>2, <3>3
  <2> QED
    BY <2>1 DEF JobWork
<1>3. WorkerWork \in [DirWorker -> Nat]
  <2>1. ASSUME NEW worker \in DirWorker
        PROVE  DirPcWork[worker.pc] + 14 * Len(worker.left)
                 + FoundWork(worker.pc, worker.found) \in Nat
    <3>1. worker.pc \in DirPcs /\ worker.left \in Seq(Paths) /\ worker.found \in Seq(Paths)
      BY DEF DirWorker
    <3>2. DirPcWork[worker.pc] \in Nat
      BY <3>1 DEF DirPcs, DirPcWork
    <3>3. Len(worker.left) \in Nat /\ Len(worker.found) \in Nat
      BY <3>1, LenProperties
    <3>4. FoundWork(worker.pc, worker.found) \in Nat
      BY <3>3 DEF FoundWork
    <3> QED
      BY <3>2, <3>3, <3>4
  <2> QED
    BY <2>1 DEF WorkerWork
<1>4. TargetWork \in [SubDirs -> Nat]
  <2>1. \A d \in SubDirs : Len(Below[d]) \in Nat
    BY LenProperties, TreeAssumption
  <2> QED
    BY <2>1 DEF TargetWork
<1>5. EntryWork \in [Paths -> Nat]
  <2>1. \A e \in Paths : (IF e \in Ignored \cup Links THEN 1
                          ELSE IF e \in SubDirs THEN 1 + TargetWork[e] ELSE 5) \in Nat
    BY <1>4
  <2> QED
    BY <2>1 DEF EntryWork
<1>6. ListWork \in [ArgDirs -> Nat]
  <2>1. \A d \in ArgDirs : Children[d] \in Seq(Paths)
    BY TreeAssumption DEF ArgDirs
  <2>2. \A d \in ArgDirs : Weigh(EntryWork, Children[d]) \in Nat
    BY <1>5, <2>1, Weights
  <2> QED
    BY <2>2 DEF ListWork
<1>7. ArgumentWork \in [Paths -> Nat]
  <2>1. \A a \in Paths : (IF a \in Ignored THEN 1
                          ELSE IF a \in DOMAIN Children THEN 1 + ListWork[a] ELSE 5) \in Nat
    BY <1>6 DEF ArgDirs
  <2> QED
    BY <2>1 DEF ArgumentWork
<1> QED
  BY <1>1, <1>2, <1>3, <1>4, <1>5, <1>6, <1>7

\* The parts of the work are numbers.
WorkIsNumbers ==
    /\ ThreadsWork \in Nat /\ JobsWork \in Nat /\ SignalsWork \in Nat
    /\ TargetsWork \in Nat /\ ResultsWork \in Nat /\ FilesWork \in Nat
    /\ VisitWork \in Nat /\ MainPcWork[mainPc] \in Nat /\ ButtonWork \in {0, 1}
    /\ Work \in Nat

LEMMA WorkParts ==
    Work = ((((MainPcWork[mainPc] + ButtonWork) + VisitWork)
              + ((FilesWork + ResultsWork) + TargetsWork)
              + ThreadsWork) + JobsWork) + SignalsWork
BY DEF Work, MainWork, QueueWork, TargetsWork, ThreadsWork, JobsWork, SignalsWork,
   FilesWork, ResultsWork, ButtonWork

LEMMA WorkTypes == TypeOK => WorkIsNumbers
<1> SUFFICES ASSUME TypeOK PROVE WorkIsNumbers
  OBVIOUS
<1>1. /\ todo \in Seq(Paths) /\ dirs \in Seq(ArgDirs) /\ entries \in Seq(Paths)
      /\ mainPc = "list" => todo \in Seq(ArgDirs)
      /\ dirWorkers \in Seq(DirWorker) /\ jobs \in Seq(Job) /\ events \in Seq(AnyEvent)
      /\ targets \in QueueOf(SubDirs) /\ results \in QueueOf(Paths)
      /\ fileTargets \in QueueOf(Paths) /\ ScanThreads \in Nat
      /\ mainPc \in {"loop", "arguments", "list", "spawn", "launch", "exited"}
  BY TreeAssumption DEF TypeOK, LoopsHaveWork, AnyEvent
<1>2. /\ targets.items \in Seq(SubDirs) /\ results.items \in Seq(Paths)
      /\ fileTargets.items \in Seq(Paths)
  BY <1>1 DEF QueueOf
<1>3. Len(results.items) \in Nat /\ Len(fileTargets.items) \in Nat
  BY <1>2, LenProperties
<1>4. ThreadsWork \in Nat
  BY <1>1, WorkWeights, Weights DEF ThreadsWork
<1>5. JobsWork \in Nat
  BY <1>1, WorkWeights, Weights DEF JobsWork
<1>6. SignalsWork \in Nat
  BY <1>1, WorkWeights, Weights DEF SignalsWork
<1>7. TargetsWork \in Nat
  BY <1>2, WorkWeights, Weights DEF TargetsWork
<1>8. ResultsWork \in Nat /\ FilesWork \in Nat
  BY <1>3 DEF ResultsWork, FilesWork
<1>9. VisitWork \in Nat
  <2>1. CASE mainPc = "arguments"
    <3>1. Weigh(ArgumentWork, todo) \in Nat
      BY <1>1, WorkWeights, Weights
    <3>2. Weigh(ListWork, dirs) \in Nat
      BY <1>1, WorkWeights, Weights
    <3> QED
      BY <2>1, <3>1, <3>2 DEF VisitWork
  <2>2. CASE mainPc = "list"
    <3>1. Weigh(ListWork, todo) \in Nat
      BY <1>1, <2>2, WorkWeights, Weights
    <3>2. Weigh(EntryWork, entries) \in Nat
      BY <1>1, WorkWeights, Weights
    <3> QED
      BY <2>2, <3>1, <3>2 DEF VisitWork
  <2>3. CASE mainPc \notin {"arguments", "list"}
    BY <2>3 DEF VisitWork
  <2> QED
    BY <2>1, <2>2, <2>3
<1>10. MainPcWork[mainPc] \in Nat
  <2>1. 14 * ScanThreads \in Nat
    BY <1>1
  <2>2. MainPcWork[mainPc] \in {0, 1, 7, 8 + 14 * ScanThreads, 14 + 14 * ScanThreads,
                                15 + 14 * ScanThreads}
    BY <1>1 DEF MainPcWork
  <2> QED
    BY <2>1, <2>2
<1>11. ButtonWork \in {0, 1}
  BY DEF ButtonWork
<1>12. Work \in Nat
  BY <1>4, <1>5, <1>6, <1>7, <1>8, <1>9, <1>10, <1>11, WorkParts
<1> QED
  BY <1>4, <1>5, <1>6, <1>7, <1>8, <1>9, <1>10, <1>11, <1>12 DEF WorkIsNumbers

LEMMA WorkTypesThen == TypeOK' => WorkIsNumbers'
BY WorkTypes, PTL

LEMMA WorkersReplaced ==
    ASSUME NEW s \in Seq(DirWorker), NEW w \in DOMAIN s, NEW worker \in DirWorker
    PROVE  /\ WorkerWork[s[w]] \in Nat /\ WorkerWork[worker] \in Nat
           /\ Weigh(WorkerWork, s) \in Nat
           /\ Weigh(WorkerWork, [s EXCEPT ![w] = worker])
                = (Weigh(WorkerWork, s) - WorkerWork[s[w]]) + WorkerWork[worker]
<1>1. WorkerWork \in [DirWorker -> Nat] /\ WorkerWork \in [DirWorker -> Int]
  BY WorkWeights, Weights
<1>2. s[w] \in DirWorker
  BY ElementOfSeq, LenProperties
<1>3. Weigh(WorkerWork, [s EXCEPT ![w] = worker])
        = Weigh(WorkerWork, s) - WorkerWork[s[w]] + WorkerWork[worker]
  BY <1>1, WeighExcept
<1>4. WorkerWork[s[w]] \in Nat /\ WorkerWork[worker] \in Nat
  BY <1>1, <1>2
<1>5. Weigh(WorkerWork, s) \in Nat
  BY <1>1, Weights
<1> QED
  BY <1>3, <1>4, <1>5

LEMMA JobsReplaced ==
    ASSUME NEW s \in Seq(Job), NEW j \in DOMAIN s, NEW job \in Job
    PROVE  /\ JobWork[s[j]] \in Nat /\ JobWork[job] \in Nat
           /\ Weigh(JobWork, s) \in Nat
           /\ Weigh(JobWork, [s EXCEPT ![j] = job])
                = (Weigh(JobWork, s) - JobWork[s[j]]) + JobWork[job]
<1>1. JobWork \in [Job -> Nat] /\ JobWork \in [Job -> Int]
  BY WorkWeights, Weights
<1>2. s[j] \in Job
  BY ElementOfSeq, LenProperties
<1>3. Weigh(JobWork, [s EXCEPT ![j] = job])
        = Weigh(JobWork, s) - JobWork[s[j]] + JobWork[job]
  BY <1>1, WeighExcept
<1>4. JobWork[s[j]] \in Nat /\ JobWork[job] \in Nat
  BY <1>1, <1>2
<1>5. Weigh(JobWork, s) \in Nat
  BY <1>1, Weights
<1> QED
  BY <1>3, <1>4, <1>5

\* What one worker, job or signal more, less or elsewhere adds to or takes from the work.
WorkOf(pc, left, found) == DirPcWork[pc] + 14 * Len(left) + FoundWork(pc, found)

LEMMA WorkerMoved ==
    ASSUME TypeOK, NEW w \in DOMAIN dirWorkers,
           NEW pc \in DirPcs, NEW left \in Seq(Paths), NEW found \in Seq(Paths),
           dirWorkers' = MoveDir(w, pc, left, found)
    PROVE  /\ WorkOf(pc, left, found) \in Nat
           /\ WorkOf(dirWorkers[w].pc, dirWorkers[w].left, dirWorkers[w].found) \in Nat
           /\ ThreadsWork' =
                (ThreadsWork - WorkOf(dirWorkers[w].pc, dirWorkers[w].left, dirWorkers[w].found))
                  + WorkOf(pc, left, found)
<1>1. PICK worker \in DirWorker :
         /\ worker.pc = pc /\ worker.left = left /\ worker.found = found
         /\ dirWorkers' = [dirWorkers EXCEPT ![w] = worker]
  <2> DEFINE worker == [pc |-> pc, left |-> left, found |-> found]
  <2>1. worker \in DirWorker /\ worker.pc = pc /\ worker.left = left /\ worker.found = found
    BY DEF DirWorker
  <2>2. dirWorkers' = [dirWorkers EXCEPT ![w] = worker]
    BY DEF MoveDir
  <2> HIDE DEF worker
  <2> QED
    BY <2>1, <2>2
<1>2. dirWorkers \in Seq(DirWorker) /\ dirWorkers[w] \in DirWorker
  BY WorkerAt
<1>4. /\ WorkerWork[dirWorkers[w]] \in Nat /\ WorkerWork[worker] \in Nat
      /\ Weigh(WorkerWork, dirWorkers) \in Nat
      /\ Weigh(WorkerWork, [dirWorkers EXCEPT ![w] = worker])
           = (Weigh(WorkerWork, dirWorkers) - WorkerWork[dirWorkers[w]]) + WorkerWork[worker]
  BY <1>2, WorkersReplaced
<1>5. ThreadsWork' = Weigh(WorkerWork, dirWorkers')
  BY DEF ThreadsWork
<1>6. /\ WorkerWork[worker] = WorkOf(pc, left, found)
      /\ WorkerWork[dirWorkers[w]] =
           WorkOf(dirWorkers[w].pc, dirWorkers[w].left, dirWorkers[w].found)
  BY <1>1, <1>2 DEF WorkerWork, WorkOf
<1> QED
  BY <1>1, <1>4, <1>5, <1>6 DEF ThreadsWork

JobWorkOf(pc, batch) == JobPcWork[pc] + 4 * Len(batch)

LEMMA JobMoved ==
    ASSUME TypeOK, NEW j \in DOMAIN jobs, NEW pc \in JobPcs, NEW batch \in Seq(Paths),
           \/ jobs' = MoveJob(j, pc, batch)
           \/ batch = <<>> /\ jobs' = EndJob(j, pc)
    PROVE  /\ JobWorkOf(pc, batch) \in Nat
           /\ JobWorkOf(jobs[j].pc, jobs[j].batch) \in Nat
           /\ JobsWork' = (JobsWork - JobWorkOf(jobs[j].pc, jobs[j].batch)) + JobWorkOf(pc, batch)
<1>1. PICK job \in Job : job.pc = pc /\ job.batch = batch /\ jobs' = [jobs EXCEPT ![j] = job]
  <2>1. CASE jobs' = MoveJob(j, pc, batch)
    BY <2>1, JobThere
  <2>2. CASE batch = <<>> /\ jobs' = EndJob(j, pc)
    <3> DEFINE job == [pc |-> pc, queue |-> "files", size |-> 0, batch |-> batch]
    <3>1. job \in Job /\ job.pc = pc /\ job.batch = batch
      BY DEF Job
    <3>2. jobs' = [jobs EXCEPT ![j] = job]
      BY <2>2 DEF EndJob
    <3> HIDE DEF job
    <3> QED
      BY <3>1, <3>2
  <2> QED
    BY <2>1, <2>2
<1>2. jobs \in Seq(Job) /\ jobs[j] \in Job
  BY JobAt
<1>4. /\ JobWork[jobs[j]] \in Nat /\ JobWork[job] \in Nat
      /\ Weigh(JobWork, jobs) \in Nat
      /\ Weigh(JobWork, [jobs EXCEPT ![j] = job])
           = (Weigh(JobWork, jobs) - JobWork[jobs[j]]) + JobWork[job]
  BY <1>2, JobsReplaced
<1>5. JobsWork' = Weigh(JobWork, jobs')
  BY DEF JobsWork
<1>6. /\ JobWork[job] = JobWorkOf(pc, batch)
      /\ JobWork[jobs[j]] = JobWorkOf(jobs[j].pc, jobs[j].batch)
  BY <1>1, <1>2 DEF JobWork, JobWorkOf
<1> QED
  BY <1>1, <1>4, <1>5, <1>6 DEF JobsWork

LEMMA JobAdded ==
    ASSUME TypeOK, NEW queue \in {"files", "results"}, NEW size \in Int,
           LaunchWorker(queue, size)
    PROVE  JobsWork' = JobsWork + 5
<1> DEFINE job == NewJob(queue, size)
<1>1. job \in Job
  <2>1. <<>> \in Seq(Paths)
    OBVIOUS
  <2> QED
    BY <2>1 DEF NewJob, Job, JobPcs
<1>2. JobWork[job] = 5
  <2>1. job.pc = "queued" /\ Len(job.batch) = 0
    BY DEF NewJob
  <2>2. JobPcWork[job.pc] = 5
    BY <2>1 DEF JobPcWork
  <2> HIDE DEF job
  <2> QED
    BY <1>1, <2>1, <2>2 DEF JobWork
<1>3. jobs' = Append(jobs, job)
  BY DEF LaunchWorker
<1> HIDE DEF job
<1>4. jobs \in Seq(Job)
  BY DEF TypeOK
<1>5. JobWork \in [Job -> Int]
  BY WorkWeights, Weights
<1>6. Weigh(JobWork, Append(jobs, job)) = Weigh(JobWork, jobs) + JobWork[job]
  BY <1>1, <1>4, <1>5, WeighAppend
<1>7. JobsWork' = Weigh(JobWork, jobs')
  BY DEF JobsWork
<1> QED
  BY <1>2, <1>3, <1>6, <1>7 DEF JobsWork

LEMMA SignalPosted ==
    ASSUME TypeOK, NEW e \in AnyEvent, Post(e)
    PROVE  SignalsWork' = SignalsWork + IF e.type = "progress" THEN 6 ELSE 2
<1>1. events \in Seq(AnyEvent) /\ events' = Append(events, e)
  BY DEF TypeOK, AnyEvent, Post
<1>2. EventWork \in [AnyEvent -> Int]
  BY WorkWeights, Weights
<1>3. Weigh(EventWork, events') = Weigh(EventWork, events) + EventWork[e]
  BY <1>1, <1>2, WeighAppend
<1>4. SignalsWork' = Weigh(EventWork, events')
  BY DEF SignalsWork
<1>5. EventWork[e] = IF e.type = "progress" THEN 6 ELSE 2
  BY DEF EventWork, AnyEvent
<1> QED
  BY <1>3, <1>4, <1>5 DEF SignalsWork

LEMMA SignalTaken ==
    ASSUME TypeOK, events # <<>>, events' = Tail(events)
    PROVE  SignalsWork' = SignalsWork - IF Head(events).type = "progress" THEN 6 ELSE 2
<1>1. events \in Seq(AnyEvent)
  BY DEF TypeOK, AnyEvent
<1>2. EventWork \in [AnyEvent -> Nat] /\ EventWork \in [AnyEvent -> Int]
  BY WorkWeights, Weights
<1>3. /\ Head(events) \in AnyEvent /\ Tail(events) \in Seq(AnyEvent)
      /\ Weigh(EventWork, events) = EventWork[Head(events)] + Weigh(EventWork, Tail(events))
  BY <1>1, <1>2, WeighTail
<1>4. SignalsWork' = Weigh(EventWork, events')
  BY DEF SignalsWork
<1>5. EventWork[Head(events)] = IF Head(events).type = "progress" THEN 6 ELSE 2
  BY <1>3 DEF EventWork, AnyEvent
<1>6. Weigh(EventWork, Tail(events)) \in Nat
  BY <1>2, <1>3, Weights
<1> QED
  BY <1>3, <1>4, <1>5, <1>6 DEF SignalsWork

LEMMA WorkUntouched ==
    /\ dirWorkers' = dirWorkers => ThreadsWork' = ThreadsWork
    /\ jobs' = jobs => JobsWork' = JobsWork
    /\ events' = events => SignalsWork' = SignalsWork
    /\ targets' = targets => TargetsWork' = TargetsWork
    /\ results' = results => ResultsWork' = ResultsWork
    /\ fileTargets' = fileTargets => FilesWork' = FilesWork
    /\ enabled' = enabled => ButtonWork' = ButtonWork
    /\ mainPc' = mainPc => MainPcWork[mainPc]' = MainPcWork[mainPc]
    /\ UNCHANGED <<mainPc, todo, dirs, entries>> => VisitWork' = VisitWork
BY DEF ThreadsWork, JobsWork, SignalsWork, TargetsWork, ResultsWork, FilesWork, ButtonWork,
   VisitWork

\* A directory worker walks a directory it takes, hands on what it finds and signals it.
LEMMA WorkerWorksLess ==
    ASSUME TypeOK, NEW w \in DOMAIN dirWorkers, DirWorkerThread(w)
    PROVE  /\ ThreadsWork' \in Int /\ SignalsWork' \in Int
           /\ TargetsWork' \in Int /\ ResultsWork' \in Int
           /\ ThreadsWork' + SignalsWork' + TargetsWork' + ResultsWork'
                < ThreadsWork + SignalsWork + TargetsWork + ResultsWork
<1> DEFINE worker == dirWorkers[w]
           pc == worker.pc
           left == worker.left
           found == worker.found
<1>1. left \in Seq(Paths) /\ found \in Seq(Paths) /\ pc \in DirPcs /\ w \in Nat
  BY WorkerAt
<1>2. Len(left) \in Nat /\ Len(found) \in Nat
  BY <1>1, LenProperties
<1>3. /\ ThreadsWork \in Nat /\ SignalsWork \in Nat /\ TargetsWork \in Nat /\ ResultsWork \in Nat
  BY WorkTypes DEF WorkIsNumbers
<1>4. /\ DirPcWork["queued"] = 14 /\ DirPcWork["pick"] = 13 /\ DirPcWork["walk"] = 13
      /\ DirPcWork["acquire"] = 22 /\ DirPcWork["append"] = 21 /\ DirPcWork["progress"] = 20
      /\ DirPcWork["lastAcquire"] = 12 /\ DirPcWork["lastAppend"] = 11
      /\ DirPcWork["lastProgress"] = 10 /\ DirPcWork["finish"] = 3 /\ DirPcWork["posted"] = 0
  BY DEF DirPcWork
<1>5. /\ \A p \in DirPcs, l, f \in Seq(Paths) :
           dirWorkers' = MoveDir(w, p, l, f) =>
             /\ WorkOf(p, l, f) \in Nat /\ WorkOf(pc, left, found) \in Nat
             /\ ThreadsWork' = (ThreadsWork - WorkOf(pc, left, found)) + WorkOf(p, l, f)
  BY WorkerMoved
<1>6. {"queued", "pick", "walk", "acquire", "append", "progress", "lastAcquire", "lastAppend",
        "lastProgress", "finish", "posted"} \subseteq DirPcs
  BY DEF DirPcs
<1>7. /\ events' = events => SignalsWork' = SignalsWork
      /\ targets' = targets => TargetsWork' = TargetsWork
      /\ results' = results => ResultsWork' = ResultsWork
      /\ dirWorkers' = dirWorkers => ThreadsWork' = ThreadsWork
  BY WorkUntouched
<1>8. PICK none \in Seq(Paths) : none = <<>>
  BY NoPath
<1>9. Len(none) = 0
  BY <1>8
<1>10. results \in QueueOf(Paths) /\ targets \in QueueOf(SubDirs)
  BY DEF TypeOK
<1> HIDE DEF pc, left, found
<1>11. CASE StartDirWorker(w)
  <2>1. pc = "queued" /\ dirWorkers' = MoveDir(w, "pick", left, found)
        /\ UNCHANGED <<targets, results, events>>
    BY <1>11 DEF StartDirWorker, AtDir, Goto, pc, left, found
  <2>2. WorkOf("pick", left, found) = WorkOf(pc, left, found) - 1
    BY <1>2, <1>4, <2>1 DEF WorkOf, FoundWork
  <2> QED
    BY <1>1, <1>3, <1>5, <1>6, <1>7, <2>1, <2>2
<1>12. CASE PickDirectory(w)
  <2> DEFINE d == Head(targets.items)
  <2>1. /\ pc = "pick" /\ targets.items # <<>>
        /\ dirWorkers' = IF d \in Ignored \/ Below[d] = <<>> THEN dirWorkers
                         ELSE MoveDir(w, "walk", Below[d], found)
        /\ targets' = WithoutFirst(targets) /\ UNCHANGED <<results, events>>
    BY <1>12 DEF PickDirectory, AtDir, pc, found
  <2>2. TargetWork \in [SubDirs -> Nat]
    BY WorkWeights
  <2>3. /\ d \in SubDirs /\ TargetWork[d] \in Nat
        /\ Weigh(TargetWork, WithoutFirst(targets).items) \in Nat
        /\ TargetsWork = TargetWork[d] + Weigh(TargetWork, WithoutFirst(targets).items)
    BY <1>10, <2>1, <2>2, QueueWeights DEF TargetsWork
  <2>4. TargetsWork' = Weigh(TargetWork, WithoutFirst(targets).items)
    BY <2>1 DEF TargetsWork
  <2> HIDE DEF d
  <2>5. PICK l \in Seq(Paths) : l = Below[d]
    BY <2>3, TreeAssumption
  <2>6. TargetWork[d] = 1 + 14 * Len(l) /\ Len(l) \in Nat
    BY <2>3, <2>5, LenProperties DEF TargetWork
  <2>7. CASE d \in Ignored \/ Below[d] = <<>>
    BY <1>3, <1>7, <2>1, <2>3, <2>4, <2>6, <2>7
  <2>8. CASE ~(d \in Ignored \/ Below[d] = <<>>)
    <3>1. dirWorkers' = MoveDir(w, "walk", l, found)
      BY <2>1, <2>5, <2>8
    <3>2. WorkOf("walk", l, found) = 13 + 14 * Len(l) + 4 * Len(found)
      BY <1>4 DEF WorkOf, FoundWork
    <3>3. WorkOf(pc, left, found) = 13 + 14 * Len(left) + 4 * Len(found)
      BY <1>4, <2>1 DEF WorkOf, FoundWork
    <3>4. ThreadsWork' = (ThreadsWork - WorkOf(pc, left, found)) + WorkOf("walk", l, found)
      BY <1>1, <1>5, <1>6, <3>1
    <3>5. SignalsWork' = SignalsWork /\ ResultsWork' = ResultsWork
      BY <1>7, <2>1
    <3>6. PICK a \in Nat, b \in Nat, c \in Nat :
             a = 14 * Len(left) /\ b = 14 * Len(l) /\ c = 4 * Len(found)
      BY <1>2, <2>6
    <3>7. ThreadsWork' = (ThreadsWork - a) + b
      <4>1. ThreadsWork' = (ThreadsWork - ((13 + a) + c)) + ((13 + b) + c)
        BY <3>2, <3>3, <3>4, <3>6
      <4> QED
        BY <1>3, <4>1
    <3>8. TargetsWork' = TargetsWork - (1 + b)
      BY <2>3, <2>4, <2>6, <3>6
    <3> QED
      BY <1>3, <3>5, <3>7, <3>8
  <2> QED
    BY <2>7, <2>8
<1>13. CASE NoMoreDirectories(w)
  <2>1. pc = "pick" /\ dirWorkers' = MoveDir(w, "lastAcquire", left, found)
        /\ UNCHANGED <<targets, results, events>>
    BY <1>13 DEF NoMoreDirectories, AtDir, Goto, pc, left, found
  <2>2. WorkOf("lastAcquire", left, found) = WorkOf(pc, left, found) - 1
    BY <1>2, <1>4, <2>1 DEF WorkOf, FoundWork
  <2> QED
    BY <1>1, <1>3, <1>5, <1>6, <1>7, <2>1, <2>2
<1>14. CASE WalkEntry(w)
  <2> DEFINE entry == Head(left)
             rest == Tail(left)
             more == IF entry \in Ignored THEN found ELSE Append(found, entry)
             full == entry \notin Ignored /\ Len(more) = Threshold
  <2>1. pc = "walk" /\ left # <<>> /\ UNCHANGED <<targets, results, events>>
    BY <1>14 DEF WalkEntry, AtDir, TypeOK, LoopsHaveWork, pc, left
  <2>2. /\ entry \in Paths /\ rest \in Seq(Paths) /\ Len(rest) = Len(left) - 1
    BY <1>1, <2>1, HeadTail, HeadTailProperties
  <2>3. more \in Seq(Paths) /\ Len(more) <= Len(found) + 1 /\ Len(more) \in Nat
    BY <1>1, <1>2, <2>2, AppendProperties
  <2>4. dirWorkers' = IF full /\ stopToken THEN MoveDir(w, "finish", <<>>, <<>>)
           ELSE MoveDir(w, IF full THEN "acquire" ELSE Resume(rest), rest, more)
    BY <1>14 DEF WalkEntry, left, found
  <2> HIDE DEF entry, rest, more, full
  <2>5. WorkOf(pc, left, found) = 13 + 14 * Len(left) + 4 * Len(found)
    BY <1>4, <2>1 DEF WorkOf, FoundWork
  <2>6. PICK p \in {"finish", "acquire", "pick", "walk"}, l \in Seq(Paths), f \in Seq(Paths) :
           /\ dirWorkers' = MoveDir(w, p, l, f)
           /\ \/ p = "finish" /\ l = none /\ f = none
              \/ p # "finish" /\ l = rest /\ f = more
    BY <1>8, <2>2, <2>3, <2>4 DEF Resume
  <2>7. WorkOf(p, l, f) < WorkOf(pc, left, found)
    <3>1. CASE p = "finish" /\ l = none /\ f = none
      <4>1. WorkOf(p, l, f) = 3
        BY <1>4, <1>9, <3>1 DEF WorkOf, FoundWork
      <4> QED
        BY <1>2, <2>5, <4>1
    <3>2. CASE p # "finish" /\ l = rest /\ f = more
      <4>1. WorkOf(p, l, f) = DirPcWork[p] + 14 * Len(rest) + 4 * Len(more)
        BY <2>6, <3>2 DEF WorkOf, FoundWork
      <4>2. DirPcWork[p] \in {13, 22}
        BY <1>4, <2>6, <3>2
      <4> QED
        BY <1>2, <2>2, <2>3, <2>5, <4>1, <4>2
    <3> QED
      BY <2>6, <3>1, <3>2
  <2>8. p \in DirPcs
    BY <1>6
  <2>9. /\ WorkOf(p, l, f) \in Nat /\ WorkOf(pc, left, found) \in Nat
        /\ ThreadsWork' = (ThreadsWork - WorkOf(pc, left, found)) + WorkOf(p, l, f)
    BY <1>5, <2>6, <2>8
  <2> QED
    BY <1>3, <1>7, <2>1, <2>7, <2>9
<1>15. CASE AcquireResults(w)
  <2>1. PICK p \in {"append", "lastAppend"} :
           /\ p = "append" => pc = "acquire"
           /\ p = "lastAppend" => pc = "lastAcquire"
           /\ dirWorkers' = MoveDir(w, p, left, found)
           /\ UNCHANGED <<targets, events>> /\ results' = Acquire(results, Len(found))
    BY <1>15 DEF AcquireResults, AtDir, Goto, pc, left, found
  <2>2. WorkOf(p, left, found) = WorkOf(pc, left, found) - 1
    BY <1>2, <1>4, <2>1 DEF WorkOf, FoundWork
  <2>3. ResultsWork' = ResultsWork
    BY <1>10, <2>1 DEF ResultsWork, Acquire, QueueOf
  <2>4. p \in DirPcs
    BY <1>6
  <2> QED
    BY <1>1, <1>3, <1>5, <1>7, <2>1, <2>2, <2>3, <2>4
<1>16. CASE AppendResults(w)
  <2>1. PICK p \in {"progress", "lastProgress"} :
           /\ p = "progress" => pc = "append"
           /\ p = "lastProgress" => pc = "lastAppend"
           /\ dirWorkers' = MoveDir(w, p, left, found)
           /\ UNCHANGED <<targets, events>> /\ results' = Put(results, found)
    BY <1>16 DEF AppendResults, AtDir, Goto, pc, left, found
  <2>2. WorkOf(p, left, found) = (WorkOf(pc, left, found) - 4 * Len(found)) - 1
    BY <1>2, <1>4, <2>1 DEF WorkOf, FoundWork
  <2>3. ResultsWork' = ResultsWork + 4 * Len(found)
    <3>1. results.items \in Seq(Paths) /\ results'.items = results.items \o found
      BY <1>10, <2>1 DEF Put, QueueOf
    <3>2. /\ Len(results'.items) = Len(results.items) + Len(found)
          /\ Len(results.items) \in Nat
      BY <1>1, <3>1, ConcatProperties, LenProperties
    <3>3. \A a, b \in Nat : 4 * (a + b) = 4 * a + 4 * b
      OBVIOUS
    <3>4. ResultsWork' = 4 * (Len(results.items) + Len(found))
      BY <3>2 DEF ResultsWork
    <3> QED
      BY <1>2, <3>2, <3>3, <3>4 DEF ResultsWork
  <2>4. p \in DirPcs
    BY <1>6
  <2>5. /\ WorkOf(p, left, found) \in Nat /\ WorkOf(pc, left, found) \in Nat
        /\ ThreadsWork' = (ThreadsWork - WorkOf(pc, left, found)) + WorkOf(p, left, found)
    BY <1>1, <1>5, <2>1, <2>4
  <2>6. 4 * Len(found) \in Nat
    BY <1>2
  <2>7. SignalsWork' = SignalsWork /\ TargetsWork' = TargetsWork
    BY <1>7, <2>1
  <2>8. ThreadsWork' = (ThreadsWork - 4 * Len(found)) - 1
    BY <1>3, <2>2, <2>5, <2>6
  <2> QED
    BY <1>3, <2>3, <2>6, <2>7, <2>8
<1>17. CASE EmitProgress(w)
  <2>1. /\ pc \in {"progress", "lastProgress"} /\ UNCHANGED <<targets, results>>
        /\ Post(Progress(Len(found)))
        /\ dirWorkers' = IF pc = "progress" THEN MoveDir(w, Resume(left), left, <<>>)
                         ELSE MoveDir(w, "finish", <<>>, <<>>)
    BY <1>17 DEF EmitProgress, AtDir, pc, left, found
  <2>2. Progress(Len(found)) \in AnyEvent /\ Progress(Len(found)).type = "progress"
    BY <1>2 DEF Progress, AnyEvent, DirEvents
  <2>3. SignalsWork' = SignalsWork + 6
    BY <2>1, <2>2, SignalPosted
  <2>4. PICK p \in {"finish", "pick", "walk"}, l \in Seq(Paths) :
           /\ dirWorkers' = MoveDir(w, p, l, none)
           /\ \/ p = "finish" /\ l = none
              \/ p # "finish" /\ pc = "progress" /\ l = left
    BY <1>1, <1>8, <2>1 DEF Resume
  <2>5. WorkOf(pc, left, found) = (IF pc = "progress" THEN 20 ELSE 10) + 14 * Len(left)
    BY <1>2, <1>4, <2>1 DEF WorkOf, FoundWork
  <2>6. WorkOf(p, l, none) = (IF p = "finish" THEN 3 ELSE 13) + 14 * Len(l)
    BY <1>2, <1>4, <1>9, <2>4 DEF WorkOf, FoundWork
  <2>7. WorkOf(p, l, none) + 6 < WorkOf(pc, left, found)
    BY <1>2, <1>9, <2>1, <2>4, <2>5, <2>6
  <2>8. p \in DirPcs
    BY <1>6
  <2>9. /\ WorkOf(p, l, none) \in Nat /\ WorkOf(pc, left, found) \in Nat
        /\ ThreadsWork' = (ThreadsWork - WorkOf(pc, left, found)) + WorkOf(p, l, none)
    BY <1>5, <2>4, <2>8
  <2> QED
    BY <1>3, <1>7, <2>1, <2>3, <2>7, <2>9
<1>18. CASE EmitDirFinished(w)
  <2>1. /\ pc = "finish" /\ UNCHANGED <<targets, results>> /\ Post(DirFinished(w))
        /\ dirWorkers' = MoveDir(w, "posted", left, found)
    BY <1>18 DEF EmitDirFinished, AtDir, Goto, pc, left, found
  <2>2. DirFinished(w) \in AnyEvent /\ DirFinished(w).type # "progress"
    BY <1>1 DEF DirFinished, AnyEvent, DirEvents
  <2>3. SignalsWork' = SignalsWork + 2
    BY <2>1, <2>2, SignalPosted
  <2>4. WorkOf("posted", left, found) = WorkOf(pc, left, found) - 3
    BY <1>2, <1>4, <2>1 DEF WorkOf, FoundWork
  <2> QED
    BY <1>1, <1>3, <1>5, <1>6, <1>7, <2>1, <2>3, <2>4
<1> QED
  BY <1>11, <1>12, <1>13, <1>14, <1>15, <1>16, <1>17, <1>18 DEF DirWorkerThread, DirWorkerStep

\* A job takes what it was promised, hands in a result for each path and ends.
LEMMA JobWorksLess ==
    ASSUME TypeOK, NEW j \in DOMAIN jobs, JobStep(j)
    PROVE  /\ JobsWork' \in Int /\ SignalsWork' \in Int
           /\ FilesWork' \in Int /\ ResultsWork' \in Int
           /\ JobsWork' + SignalsWork' + FilesWork' + ResultsWork'
                < JobsWork + SignalsWork + FilesWork + ResultsWork
<1> DEFINE pc == jobs[j].pc
           batch == jobs[j].batch
<1>1. batch \in Seq(Paths) /\ pc \in JobPcs /\ j \in Nat
  BY JobAt
<1>2. Len(batch) \in Nat
  BY <1>1, LenProperties
<1>3. JobsWork \in Nat /\ SignalsWork \in Nat /\ FilesWork \in Nat /\ ResultsWork \in Nat
  BY WorkTypes DEF WorkIsNumbers
<1>4. /\ JobPcWork["queued"] = 5 /\ JobPcWork["take"] = 4 /\ JobPcWork["check"] = 3
      /\ JobPcWork["process"] = 2 /\ JobPcWork["posted"] = 0 /\ JobPcWork["underflow"] = 0
  BY DEF JobPcWork
<1>5. \A p \in JobPcs, b \in Seq(Paths) :
         jobs' = MoveJob(j, p, b) \/ (b = <<>> /\ jobs' = EndJob(j, p)) =>
           /\ JobWorkOf(p, b) \in Nat /\ JobWorkOf(pc, batch) \in Nat
           /\ JobsWork' = (JobsWork - JobWorkOf(pc, batch)) + JobWorkOf(p, b)
  BY JobMoved
<1>6. {"queued", "take", "process", "check", "posted", "underflow"} \subseteq JobPcs
  BY DEF JobPcs
<1>7. /\ events' = events => SignalsWork' = SignalsWork
      /\ UNCHANGED <<fileTargets, results>> => FilesWork' = FilesWork /\ ResultsWork' = ResultsWork
  BY WorkUntouched
<1>8. PICK none \in Seq(Paths) : none = <<>>
  BY NoPath
<1>9. Len(none) = 0
  BY <1>8
<1>10. results \in QueueOf(Paths) /\ fileTargets \in QueueOf(Paths)
  BY DEF TypeOK
<1> HIDE DEF pc, batch
<1>11. JobWorkOf(pc, batch) = JobPcWork[pc] + 4 * Len(batch) /\ 4 * Len(batch) \in Nat
  BY <1>2 DEF JobWorkOf
<1>12. CASE StartJob(j)
  <2>1. /\ pc = "queued" /\ jobs' = MoveJob(j, "take", none) /\ events' = events
        /\ SetQueueOfJob(j, Release(QueueOfJob(j), jobs[j].size))
    BY <1>8, <1>12 DEF StartJob, AtJob, pc
  <2>2. JobWorkOf("take", none) = 4
    BY <1>4, <1>9 DEF JobWorkOf
  <2>3. results'.items = results.items /\ fileTargets'.items = fileTargets.items
    BY <1>10, <2>1 DEF SetQueueOfJob, QueueOfJob, Release, QueueOf
  <2>4. FilesWork' = FilesWork /\ ResultsWork' = ResultsWork
    BY <2>3 DEF FilesWork, ResultsWork
  <2>5. JobsWork' = (JobsWork - JobWorkOf(pc, batch)) + 4
    BY <1>5, <1>6, <2>1, <2>2
  <2> QED
    BY <1>3, <1>4, <1>7, <1>11, <2>1, <2>4, <2>5
<1>13. CASE TakeBatch(j)
  <2> DEFINE n == jobs[j].size
             q == QueueOfJob(j)
  <2>1. pc = "take" /\ events' = events
    BY <1>13 DEF TakeBatch, AtJob, pc
  <2>2. CASE Holds(q, n)
    <3>1. q \in QueueOf(Paths)
      BY <1>10 DEF QueueOfJob
    <3>2. n \in 0..Len(q.items) /\ q.items \in Seq(Paths)
      BY <2>2, <3>1 DEF Holds, QueueOf
    <3>3. /\ SetQueueOfJob(j, WithoutBatch(q, n))
          /\ jobs' = MoveJob(j, IF n = 0 THEN "check" ELSE "process", Batch(q, n))
      BY <1>13, <2>2 DEF TakeBatch
    <3>4. /\ WithoutBatch(q, n).items = SubSeq(q.items, n + 1, Len(q.items))
          /\ Batch(q, n) = SubSeq(q.items, 1, n)
      BY <3>1 DEF WithoutBatch, Batch, QueueOf
    <3> HIDE DEF n
    <3>5. /\ Batch(q, n) \in Seq(Paths) /\ Len(Batch(q, n)) = n
          /\ Len(WithoutBatch(q, n).items) = Len(q.items) - n
      <4>1. PICK s \in Seq(Paths) : s = q.items
        BY <3>2
      <4>2. n \in 0..Len(s)
        BY <3>2, <4>1
      <4>3. Once(0) \in [Paths -> Int]
        BY ConstantWeights, Weights
      <4>4. /\ SubSeq(s, 1, n) \in Seq(Paths) /\ Len(SubSeq(s, 1, n)) = n
            /\ Len(SubSeq(s, n + 1, Len(s))) = Len(s) - n
        BY <4>2, <4>3, WeighCut
      <4> QED
        BY <3>4, <4>1, <4>4
    <3>6. Len(q.items) \in Nat /\ n \in 0..Len(q.items)
      BY <3>2, LenProperties
    <3>7. PICK m \in Nat : m = 4 * n
      BY <3>6
    <3>8. \/ FilesWork' = FilesWork - m /\ ResultsWork' = ResultsWork
          \/ FilesWork' = FilesWork /\ ResultsWork' = ResultsWork - m
      <4>1. \A a, b \in Nat : 4 * (a - b) = 4 * a - 4 * b
        OBVIOUS
      <4>2. PICK a \in Nat, b \in Nat : a = Len(q.items) /\ b = n
        BY <3>6
      <4>3. 4 * (Len(q.items) - n) = 4 * Len(q.items) - m
        BY <3>7, <4>1, <4>2
      <4>4. CASE jobs[j].queue = "files"
        <5>1. q = fileTargets /\ fileTargets' = WithoutBatch(q, n) /\ results' = results
          BY <3>3, <4>4 DEF QueueOfJob, SetQueueOfJob
        <5>2. FilesWork' = FilesWork - m
          BY <3>5, <4>3, <5>1 DEF FilesWork
        <5> QED
          BY <5>1, <5>2, WorkUntouched
      <4>5. CASE jobs[j].queue # "files"
        <5>1. q = results /\ results' = WithoutBatch(q, n) /\ fileTargets' = fileTargets
          BY <3>3, <4>5 DEF QueueOfJob, SetQueueOfJob
        <5>2. ResultsWork' = ResultsWork - m
          BY <3>5, <4>3, <5>1 DEF ResultsWork
        <5> QED
          BY <5>1, <5>2, WorkUntouched
      <4> QED
        BY <4>4, <4>5
    <3> HIDE DEF q
    <3>9. PICK p \in {"check", "process"} :
             /\ jobs' = MoveJob(j, p, Batch(q, n))
             /\ p = "check" => n = 0
      BY <3>3
    <3>10. JobsWork' = (JobsWork - JobWorkOf(pc, batch)) + JobWorkOf(p, Batch(q, n))
      BY <1>5, <1>6, <3>5, <3>9
    <3>11. JobWorkOf(p, Batch(q, n)) = (IF p = "check" THEN 3 ELSE 2) + m
      BY <1>4, <3>5, <3>7, <3>9 DEF JobWorkOf
    <3>12. PICK k \in Nat : k > 0 /\ JobsWork' = (JobsWork - k) + m
      <4> DEFINE k == (4 + 4 * Len(batch)) - IF p = "check" THEN 3 ELSE 2
      <4>1. k \in Nat /\ k > 0
        BY <1>11
      <4>2. JobsWork' = (JobsWork - k) + m
        BY <1>3, <1>4, <1>11, <2>1, <3>10, <3>11
      <4> HIDE DEF k
      <4> QED
        BY <4>1, <4>2
    <3> QED
      BY <1>3, <1>7, <2>1, <3>8, <3>12
  <2>3. CASE ~Holds(q, n)
    <3>1. jobs' = MoveJob(j, "underflow", none) /\ UNCHANGED <<fileTargets, results>>
      BY <1>8, <1>13, <2>3 DEF TakeBatch
    <3>2. JobWorkOf("underflow", none) = 0
      BY <1>4, <1>9 DEF JobWorkOf
    <3>3. JobsWork' = (JobsWork - JobWorkOf(pc, batch)) + 0
      BY <1>5, <1>6, <3>1, <3>2
    <3> QED
      BY <1>3, <1>4, <1>7, <1>11, <2>1, <3>1, <3>3
  <2> QED
    BY <2>2, <2>3
<1>14. CASE ProcessPath(j)
  <2>1. /\ pc = "process" /\ batch # <<>> /\ UNCHANGED <<fileTargets, results>>
        /\ jobs' = MoveJob(j, "check", Tail(batch))
    BY <1>14 DEF ProcessPath, AtJob, TypeOK, LoopsHaveWork, pc, batch
  <2>2. Head(batch) \in Paths /\ Tail(batch) \in Seq(Paths) /\ Len(Tail(batch)) = Len(batch) - 1
    BY <1>1, <2>1, HeadTail, HeadTailProperties
  <2>3. PICK code \in Codes : Post(Result(j, Head(batch), code))
    BY <1>14 DEF ProcessPath, batch
  <2>4. /\ Result(j, Head(batch), code) \in AnyEvent
        /\ Result(j, Head(batch), code).type # "progress"
    BY <1>1, <2>2, IndexerAssumption DEF Result, JobEvents, AnyEvent
  <2>5. SignalsWork' = SignalsWork + 2
    BY <2>3, <2>4, SignalPosted
  <2>6. JobWorkOf("check", Tail(batch)) = 4 * Len(batch) - 1
    BY <1>2, <1>4, <2>2 DEF JobWorkOf
  <2>7. JobsWork' = (JobsWork - JobWorkOf(pc, batch)) + JobWorkOf("check", Tail(batch))
    BY <1>5, <1>6, <2>1, <2>2
  <2>8. JobsWork' = JobsWork - 3
    BY <1>3, <1>4, <1>11, <2>1, <2>6, <2>7
  <2> QED
    BY <1>3, <1>7, <2>1, <2>5, <2>8
<1>15. CASE CheckToken(j)
  <2>1. pc = "check" /\ UNCHANGED <<fileTargets, results>>
    BY <1>15 DEF CheckToken, AtJob, pc
  <2>2. CASE cancelToken \/ batch = <<>>
    <3>1. Post(FileFinished(j)) /\ jobs' = EndJob(j, "posted")
      BY <1>15, <2>2 DEF CheckToken, batch
    <3>2. FileFinished(j) \in AnyEvent /\ FileFinished(j).type # "progress"
      BY <1>1 DEF FileFinished, JobEvents, AnyEvent
    <3>3. SignalsWork' = SignalsWork + 2
      BY <3>1, <3>2, SignalPosted
    <3>4. JobWorkOf("posted", none) = 0
      BY <1>4, <1>9 DEF JobWorkOf
    <3>5. JobsWork' = (JobsWork - JobWorkOf(pc, batch)) + 0
      BY <1>5, <1>6, <1>8, <3>1, <3>4
    <3> QED
      BY <1>3, <1>4, <1>7, <1>11, <2>1, <3>3, <3>5
  <2>3. CASE ~(cancelToken \/ batch = <<>>)
    <3>1. jobs' = MoveJob(j, "process", batch) /\ events' = events
      BY <1>15, <2>3 DEF CheckToken, batch
    <3>2. JobWorkOf("process", batch) = 2 + 4 * Len(batch)
      BY <1>4 DEF JobWorkOf
    <3>3. JobsWork' = (JobsWork - JobWorkOf(pc, batch)) + JobWorkOf("process", batch)
      BY <1>1, <1>5, <1>6, <3>1
    <3> QED
      BY <1>3, <1>4, <1>7, <1>11, <2>1, <3>1, <3>2, <3>3
  <2> QED
    BY <2>2, <2>3
<1> QED
  BY <1>12, <1>13, <1>14, <1>15 DEF JobStep

\* The main thread: what is visited goes into a queue or is passed over ...
LEMMA VisitParts ==
    /\ mainPc = "arguments" => VisitWork = Weigh(ArgumentWork, todo) + Weigh(ListWork, dirs)
    /\ mainPc = "list" => VisitWork = Weigh(ListWork, todo) + Weigh(EntryWork, entries)
    /\ mainPc \notin {"arguments", "list"} => VisitWork = 0
<1>1. mainPc = "arguments" => VisitWork = Weigh(ArgumentWork, todo) + Weigh(ListWork, dirs)
  BY DEF VisitWork
<1>2. mainPc = "list" => VisitWork = Weigh(ListWork, todo) + Weigh(EntryWork, entries)
  BY DEF VisitWork
<1>3. mainPc \notin {"arguments", "list"} => VisitWork = 0
  BY DEF VisitWork
<1> QED
  BY <1>1, <1>2, <1>3

LEMMA VisitPartsThen ==
    /\ mainPc' = "arguments" =>
         VisitWork' = Weigh(ArgumentWork, todo') + Weigh(ListWork, dirs')
    /\ mainPc' = "list" => VisitWork' = Weigh(ListWork, todo') + Weigh(EntryWork, entries')
    /\ mainPc' \notin {"arguments", "list"} => VisitWork' = 0
<1>1. mainPc' = "arguments" =>
         VisitWork' = Weigh(ArgumentWork, todo') + Weigh(ListWork, dirs')
  BY DEF VisitWork
<1>2. mainPc' = "list" => VisitWork' = Weigh(ListWork, todo') + Weigh(EntryWork, entries')
  BY DEF VisitWork
<1>3. mainPc' \notin {"arguments", "list"} => VisitWork' = 0
  BY DEF VisitWork
<1> QED
  BY <1>1, <1>2, <1>3

LEMMA MainPcParts ==
    /\ mainPc = "exited" => MainPcWork[mainPc] = 0
    /\ mainPc = "loop" => MainPcWork[mainPc] = 1
    /\ mainPc = "launch" => MainPcWork[mainPc] = 7
    /\ mainPc = "spawn" => MainPcWork[mainPc] = 8 + 14 * ScanThreads
    /\ mainPc = "list" => MainPcWork[mainPc] = 14 + 14 * ScanThreads
    /\ mainPc = "arguments" => MainPcWork[mainPc] = 15 + 14 * ScanThreads
BY DEF MainPcWork

LEMMA MainPcPartsThen ==
    /\ mainPc' = "exited" => MainPcWork[mainPc]' = 0
    /\ mainPc' = "loop" => MainPcWork[mainPc]' = 1
    /\ mainPc' = "launch" => MainPcWork[mainPc]' = 7
    /\ mainPc' = "spawn" => MainPcWork[mainPc]' = 8 + 14 * ScanThreads
    /\ mainPc' = "list" => MainPcWork[mainPc]' = 14 + 14 * ScanThreads
    /\ mainPc' = "arguments" => MainPcWork[mainPc]' = 15 + 14 * ScanThreads
BY DEF MainPcWork

LEMMA OneMore ==
    ASSUME NEW q \in QueueOf(Paths), NEW x \in Paths
    PROVE  4 * Len(EnqueueOne(q, x).items) = 4 * Len(q.items) + 4
<1>1. q.items \in Seq(Paths) /\ EnqueueOne(q, x).items = Append(q.items, x)
  BY DEF QueueOf, EnqueueOne
<1>2. Len(q.items) \in Nat /\ Len(Append(q.items, x)) = Len(q.items) + 1
  BY <1>1, AppendProperties, LenProperties
<1> QED
  BY <1>1, <1>2

LEMMA NextArgumentLess ==
    ASSUME TypeOK, NextArgument
    PROVE  /\ VisitWork' \in Int /\ FilesWork' \in Int
           /\ VisitWork' + FilesWork' < VisitWork + FilesWork
           /\ UNCHANGED <<targets, results, dirWorkers, events, jobs, mainPc, enabled>>
<1>1. /\ mainPc = "arguments" /\ mainPc' = "arguments" /\ todo # <<>> /\ todo' = Tail(todo)
      /\ UNCHANGED <<targets, results, dirWorkers, events, jobs, enabled>>
  BY DEF NextArgument, scanVars, clickVars
<1>2. todo \in Seq(Paths) /\ dirs \in Seq(ArgDirs) /\ fileTargets \in QueueOf(Paths)
  BY DEF TypeOK
<1>3. PICK a \in Paths, rest \in Seq(Paths) : a = Head(todo) /\ rest = Tail(todo)
  BY <1>1, <1>2, HeadTail
<1>4. /\ ArgumentWork \in [Paths -> Nat] /\ ListWork \in [ArgDirs -> Nat]
      /\ ArgumentWork \in [Paths -> Int] /\ ListWork \in [ArgDirs -> Int]
  BY WorkWeights, Weights
<1>5. /\ Weigh(ArgumentWork, todo) = ArgumentWork[a] + Weigh(ArgumentWork, rest)
      /\ ArgumentWork[a] \in Nat
  BY <1>1, <1>2, <1>3, <1>4, WeighTail
<1>6. Weigh(ArgumentWork, rest) \in Nat /\ Weigh(ListWork, dirs) \in Nat
  BY <1>2, <1>4, Weights
<1>7. /\ VisitWork = (ArgumentWork[a] + Weigh(ArgumentWork, rest)) + Weigh(ListWork, dirs)
      /\ VisitWork' = Weigh(ArgumentWork, rest) + Weigh(ListWork, dirs')
  BY <1>1, <1>3, <1>5, VisitParts, VisitPartsThen
<1>8. FilesWork \in Nat
  BY WorkTypes DEF WorkIsNumbers
<1>9. CASE a \in Ignored
  <2>1. UNCHANGED <<dirs, fileTargets>>
    BY <1>3, <1>9 DEF NextArgument
  <2>2. ArgumentWork[a] = 1
    BY <1>9 DEF ArgumentWork
  <2> QED
    BY <1>1, <1>6, <1>7, <1>8, <2>1, <2>2, WorkUntouched
<1>10. CASE a \notin Ignored /\ a \in DOMAIN Children
  <2>1. dirs' = Append(dirs, a) /\ fileTargets' = fileTargets
    BY <1>3, <1>10 DEF NextArgument
  <2>2. a \in ArgDirs
    BY <1>10 DEF ArgDirs
  <2>3. ArgumentWork[a] = 1 + ListWork[a] /\ ListWork[a] \in Nat
    BY <1>4, <1>10, <2>2 DEF ArgumentWork
  <2>4. Weigh(ListWork, Append(dirs, a)) = Weigh(ListWork, dirs) + ListWork[a]
    BY <1>2, <1>4, <2>2, WeighAppend
  <2>5. FilesWork' = FilesWork
    BY <2>1, WorkUntouched
  <2> QED
    BY <1>1, <1>6, <1>7, <1>8, <2>1, <2>3, <2>4, <2>5
<1>11. CASE a \notin Ignored /\ a \notin DOMAIN Children
  <2>1. dirs' = dirs /\ fileTargets' = EnqueueOne(fileTargets, a)
    BY <1>3, <1>11 DEF NextArgument
  <2>2. ArgumentWork[a] = 5
    BY <1>11 DEF ArgumentWork
  <2>3. FilesWork' = FilesWork + 4
    BY <1>2, <2>1, OneMore DEF FilesWork
  <2> QED
    BY <1>1, <1>6, <1>7, <1>8, <2>1, <2>2, <2>3
<1> QED
  BY <1>9, <1>10, <1>11

LEMMA NextEntryLess ==
    ASSUME TypeOK, NextEntry
    PROVE  /\ VisitWork' \in Int /\ TargetsWork' \in Int /\ ResultsWork' \in Int
           /\ VisitWork' + TargetsWork' + ResultsWork' < VisitWork + TargetsWork + ResultsWork
           /\ UNCHANGED <<fileTargets, dirWorkers, events, jobs, mainPc, enabled>>
<1>1. /\ mainPc = "list" /\ mainPc' = "list" /\ entries # <<>> /\ entries' = Tail(entries)
      /\ UNCHANGED <<todo, fileTargets, dirWorkers, events, jobs, enabled>>
      /\ ListEntry(Head(entries))
  BY DEF NextEntry, ListEntry, jobVars, clickVars
<1>2. /\ entries \in Seq(Paths) /\ todo \in Seq(ArgDirs)
      /\ targets \in QueueOf(SubDirs) /\ results \in QueueOf(Paths)
  BY <1>1 DEF TypeOK, LoopsHaveWork
<1>3. PICK e \in Paths, rest \in Seq(Paths) : e = Head(entries) /\ rest = Tail(entries)
  BY <1>1, <1>2, HeadTail
<1>4. /\ EntryWork \in [Paths -> Nat] /\ ListWork \in [ArgDirs -> Nat]
      /\ EntryWork \in [Paths -> Int] /\ TargetWork \in [SubDirs -> Nat]
  BY WorkWeights, Weights
<1>5. /\ Weigh(EntryWork, entries) = EntryWork[e] + Weigh(EntryWork, rest)
      /\ EntryWork[e] \in Nat
  BY <1>1, <1>2, <1>3, <1>4, WeighTail
<1>6. Weigh(EntryWork, rest) \in Nat /\ Weigh(ListWork, todo) \in Nat
  BY <1>2, <1>4, Weights
<1>7. /\ VisitWork = Weigh(ListWork, todo) + (EntryWork[e] + Weigh(EntryWork, rest))
      /\ VisitWork' = Weigh(ListWork, todo) + Weigh(EntryWork, rest)
  BY <1>1, <1>3, <1>5, VisitParts, VisitPartsThen
<1>8. TargetsWork \in Nat /\ ResultsWork \in Nat
  BY WorkTypes DEF WorkIsNumbers
<1>9. VisitWork' = VisitWork - EntryWork[e] /\ VisitWork \in Nat
  BY <1>5, <1>6, <1>7
<1>10. CASE e \in Ignored \cup Links
  <2>1. UNCHANGED <<targets, results>>
    BY <1>1, <1>3, <1>10 DEF ListEntry
  <2>2. EntryWork[e] = 1
    BY <1>10 DEF EntryWork
  <2> QED
    BY <1>1, <1>8, <1>9, <2>1, <2>2, WorkUntouched
<1>11. CASE e \notin Ignored \cup Links /\ e \in SubDirs
  <2>1. targets' = EnqueueOne(targets, e) /\ results' = results
    BY <1>1, <1>3, <1>11 DEF ListEntry
  <2>2. EntryWork[e] = 1 + TargetWork[e] /\ TargetWork[e] \in Nat
    BY <1>4, <1>11 DEF EntryWork
  <2>3. TargetsWork' = TargetsWork + TargetWork[e]
    BY <1>2, <1>4, <1>11, <2>1, QueueWeights DEF TargetsWork
  <2>4. ResultsWork' = ResultsWork
    BY <2>1, WorkUntouched
  <2> QED
    BY <1>1, <1>8, <1>9, <2>2, <2>3, <2>4
<1>12. CASE e \notin Ignored \cup Links /\ e \notin SubDirs
  <2>1. targets' = targets /\ results' = EnqueueOne(results, e)
    BY <1>1, <1>3, <1>12 DEF ListEntry
  <2>2. EntryWork[e] = 5
    BY <1>12 DEF EntryWork
  <2>3. ResultsWork' = ResultsWork + 4
    BY <1>2, <2>1, OneMore DEF ResultsWork
  <2>4. TargetsWork' = TargetsWork
    BY <2>1, WorkUntouched
  <2> QED
    BY <1>1, <1>8, <1>9, <2>2, <2>3, <2>4
<1> QED
  BY <1>10, <1>11, <1>12

\* ... the other steps inside beginIndexing lead on to fewer of them ...
LEMMA PreparingLess ==
    ASSUME TypeOK, EntriesListed,
           StartScan \/ OpenDirectory \/ AnnounceFirstLevel \/ LaunchFileTargets
    PROVE  Work' < Work
<1>0. /\ ThreadsWork \in Nat /\ JobsWork \in Nat /\ SignalsWork \in Nat
      /\ TargetsWork \in Nat /\ ResultsWork \in Nat /\ FilesWork \in Nat
      /\ VisitWork \in Nat /\ MainPcWork[mainPc] \in Nat /\ ButtonWork \in {0, 1}
      /\ ScanThreads \in Nat
  BY WorkTypes, TreeAssumption DEF WorkIsNumbers
<1>1. /\ Work = ((((MainPcWork[mainPc] + ButtonWork) + VisitWork)
                   + ((FilesWork + ResultsWork) + TargetsWork)
                   + ThreadsWork) + JobsWork) + SignalsWork
      /\ Work' = ((((MainPcWork[mainPc]' + ButtonWork') + VisitWork')
                   + ((FilesWork' + ResultsWork') + TargetsWork')
                   + ThreadsWork') + JobsWork') + SignalsWork'
  BY WorkParts DEF Work, MainWork, QueueWork, TargetsWork, ThreadsWork, JobsWork, SignalsWork,
     FilesWork, ResultsWork, ButtonWork
<1>2. /\ dirWorkers' = dirWorkers => ThreadsWork' = ThreadsWork
      /\ jobs' = jobs => JobsWork' = JobsWork
      /\ events' = events => SignalsWork' = SignalsWork
      /\ targets' = targets => TargetsWork' = TargetsWork
      /\ results' = results => ResultsWork' = ResultsWork
      /\ fileTargets' = fileTargets => FilesWork' = FilesWork
      /\ enabled' = enabled => ButtonWork' = ButtonWork
      /\ UNCHANGED <<mainPc, todo, dirs, entries>> => VisitWork' = VisitWork
  BY WorkUntouched
<1>3. PICK s \in Nat : s = 14 * ScanThreads
  BY <1>0
<1>4. CASE StartScan
  <2>1. /\ mainPc = "arguments" /\ todo = <<>> /\ entries' = entries
        /\ UNCHANGED <<dirWorkers, jobs, events, fileTargets, enabled>>
    BY <1>4 DEF StartScan, BeginScan, scanVars, jobVars, clickVars
  <2>2. entries = <<>>
    BY <2>1 DEF EntriesListed
  <2>3. VisitWork = Weigh(ListWork, dirs) /\ MainPcWork[mainPc] = 15 + s
    <3>1. VisitWork = Weigh(ArgumentWork, todo) + Weigh(ListWork, dirs)
      BY <2>1, VisitParts
    <3>2. dirs \in Seq(ArgDirs) /\ ListWork \in [ArgDirs -> Nat]
      BY WorkWeights DEF TypeOK
    <3>3. Weigh(ArgumentWork, todo) = 0 /\ Weigh(ListWork, dirs) \in Nat
      BY <2>1, <3>2, WeighEmpty, Weights
    <3>4. MainPcWork[mainPc] = 15 + s
      BY <1>3, <2>1, MainPcParts
    <3> QED
      BY <3>1, <3>3, <3>4
  <2>6. /\ ThreadsWork' = ThreadsWork /\ JobsWork' = JobsWork /\ SignalsWork' = SignalsWork
        /\ FilesWork' = FilesWork /\ ButtonWork' = ButtonWork
    BY <1>2, <2>1
  <2>4. CASE dirs = <<>>
    <3>1. mainPc' = "launch" /\ UNCHANGED <<targets, results>>
      BY <1>4, <2>4 DEF StartScan, scanVars
    <3>2. VisitWork' = 0 /\ MainPcWork[mainPc]' = 7
      BY <3>1, VisitPartsThen, MainPcPartsThen
    <3>3. TargetsWork' = TargetsWork /\ ResultsWork' = ResultsWork
      BY <3>1, WorkUntouched
    <3> QED
      BY <1>0, <1>1, <2>3, <2>6, <3>2, <3>3
  <2>5. CASE dirs # <<>>
    <3>1. mainPc' = "list" /\ todo' = dirs /\ targets' = Clear(targets) /\ results' = Clear(results)
      BY <1>4, <2>5 DEF StartScan, BeginScan
    <3>2. VisitWork' = VisitWork /\ MainPcWork[mainPc]' = 14 + s
      <4>1. VisitWork' = Weigh(ListWork, todo') + Weigh(EntryWork, entries')
        BY <3>1, VisitPartsThen
      <4>2. Weigh(EntryWork, entries') = 0
        BY <2>1, <2>2, WeighEmpty
      <4>3. MainPcWork[mainPc]' = 14 + s
        BY <1>3, <3>1, MainPcPartsThen
      <4> QED
        BY <1>0, <2>3, <3>1, <4>1, <4>2, <4>3
    <3>3. TargetsWork' = 0 /\ ResultsWork' = 0
      <4>1. targets'.items = <<>> /\ results'.items = <<>>
        BY <3>1 DEF Clear
      <4>2. Len(results'.items) = 0
        BY <4>1
      <4> QED
        BY <4>1, <4>2, WeighEmpty DEF TargetsWork, ResultsWork
    <3> QED
      BY <1>0, <1>1, <2>3, <2>6, <3>2, <3>3
  <2> QED
    BY <2>4, <2>5
<1>5. CASE OpenDirectory
  <2>1. /\ mainPc = "list" /\ mainPc' = "list" /\ entries = <<>> /\ todo # <<>>
        /\ entries' = Children[Head(todo)] /\ todo' = Tail(todo)
        /\ UNCHANGED <<dirWorkers, jobs, events, fileTargets, enabled, targets, results>>
    BY <1>5 DEF OpenDirectory, scanVars, jobVars, clickVars
  <2>2. todo \in Seq(ArgDirs) /\ ListWork \in [ArgDirs -> Nat] /\ ListWork \in [ArgDirs -> Int]
    BY <2>1, WorkWeights, Weights DEF TypeOK, LoopsHaveWork
  <2>3. /\ Head(todo) \in ArgDirs /\ Tail(todo) \in Seq(ArgDirs)
        /\ Weigh(ListWork, todo) = ListWork[Head(todo)] + Weigh(ListWork, Tail(todo))
    BY <2>1, <2>2, WeighTail
  <2>4. Weigh(ListWork, Tail(todo)) \in Nat
    BY <2>2, <2>3, Weights
  <2>5. PICK s2 \in Seq(Paths) : s2 = Children[Head(todo)]
    BY <2>3, TreeAssumption DEF ArgDirs
  <2>6. EntryWork \in [Paths -> Nat]
    BY WorkWeights
  <2>7. ListWork[Head(todo)] = 1 + Weigh(EntryWork, s2) /\ Weigh(EntryWork, s2) \in Nat
    BY <2>3, <2>5, <2>6, Weights DEF ListWork
  <2>8. VisitWork = Weigh(ListWork, todo) + Weigh(EntryWork, entries) /\ Weigh(EntryWork, entries) = 0
    BY <2>1, VisitParts, WeighEmpty
  <2>9. VisitWork' = Weigh(ListWork, Tail(todo)) + Weigh(EntryWork, s2)
    BY <2>1, <2>5, VisitPartsThen
  <2>10. VisitWork' = VisitWork - 1
    BY <2>3, <2>4, <2>7, <2>8, <2>9
  <2>11. MainPcWork[mainPc] = 14 + s /\ MainPcWork[mainPc]' = 14 + s
    BY <1>3, <2>1, MainPcParts, MainPcPartsThen
  <2>12. /\ ThreadsWork' = ThreadsWork /\ JobsWork' = JobsWork /\ SignalsWork' = SignalsWork
         /\ TargetsWork' = TargetsWork /\ ResultsWork' = ResultsWork
         /\ FilesWork' = FilesWork /\ ButtonWork' = ButtonWork
    BY <1>2, <2>1
  <2>13. PICK v \in Nat : VisitWork = v + 1 /\ VisitWork' = v
    <3>1. VisitWork' \in Nat
      BY <2>3, <2>4, <2>7, <2>9
    <3> QED
      BY <1>0, <2>10, <3>1
  <2> QED
    BY <1>0, <1>1, <2>11, <2>12, <2>13
<1>6. CASE AnnounceFirstLevel
  <2>1. /\ mainPc = "list" /\ mainPc' = "spawn" /\ LaunchWorker("results", processedPaths)
        /\ UNCHANGED <<dirWorkers, events, fileTargets, enabled, targets, results>>
    BY <1>6 DEF AnnounceFirstLevel, scanVars, clickVars
  <2>2. JobsWork' = JobsWork + 5
    BY <2>1, JobAdded DEF TypeOK
  <2>3. MainPcWork[mainPc] = 14 + s /\ MainPcWork[mainPc]' = 8 + s /\ VisitWork' = 0
    BY <1>3, <2>1, MainPcParts, MainPcPartsThen, VisitPartsThen
  <2> QED
    BY <1>0, <1>1, <1>2, <2>1, <2>2, <2>3
<1>7. CASE LaunchFileTargets
  <2>1. /\ mainPc = "launch" /\ mainPc' = "loop" /\ LaunchWorker("files", Remaining(fileTargets))
        /\ UNCHANGED <<dirWorkers, events, fileTargets, enabled, targets, results>>
    BY <1>7 DEF LaunchFileTargets, scanVars, clickVars
  <2>2. Remaining(fileTargets) \in Int
    BY QueueSizeAssumption DEF TypeOK, QueueOf, Remaining
  <2>3. JobsWork' = JobsWork + 5
    BY <2>1, <2>2, JobAdded
  <2>4. MainPcWork[mainPc] = 7 /\ MainPcWork[mainPc]' = 1 /\ VisitWork' = 0
    BY <2>1, MainPcParts, MainPcPartsThen, VisitPartsThen
  <2> QED
    BY <1>0, <1>1, <1>2, <2>1, <2>3, <2>4
<1> QED
  BY <1>4, <1>5, <1>6, <1>7

LEMMA SpawningLess ==
    ASSUME TypeOK, SpawnOrComplete
    PROVE  /\ ThreadsWork' \in Int /\ MainPcWork[mainPc]' \in Int
           /\ ThreadsWork' + MainPcWork[mainPc]' < ThreadsWork + MainPcWork[mainPc]
           /\ VisitWork' = VisitWork
           /\ UNCHANGED <<fileTargets, events, jobs, enabled, targets, results>>
<1>1. /\ mainPc = "spawn" /\ mainPc' = "launch"
      /\ UNCHANGED <<targets, results, events, fileTargets, jobs, enabled>>
      /\ IF ThreadsNum = 0 THEN UNCHANGED dirWorkers
         ELSE dirWorkers' = dirWorkers \o [i \in 1..ThreadsNum |-> QueuedDirWorker]
  BY DEF SpawnOrComplete, SpawnDirWorkers, scanVars, jobVars, clickVars
<1>2. VisitWork' = 0 /\ VisitWork = 0
  BY <1>1, VisitParts, VisitPartsThen
<1>3. PICK s \in Nat : s = 14 * ScanThreads
  BY TreeAssumption
<1>4. MainPcWork[mainPc] = 8 + s /\ MainPcWork[mainPc]' = 7
  BY <1>1, <1>3, MainPcParts, MainPcPartsThen
<1>5. ThreadsWork \in Nat
  BY WorkTypes DEF WorkIsNumbers
<1>6. CASE ThreadsNum = 0
  BY <1>1, <1>2, <1>4, <1>5, <1>6, WorkUntouched
<1>7. CASE ThreadsNum # 0
  <2> DEFINE fresh == [i \in 1..ThreadsNum |-> QueuedDirWorker]
  <2>1. QueuedDirWorker \in DirWorker
    BY DEF QueuedDirWorker, DirWorker, DirPcs
  <2>2. ThreadsNum \in Nat /\ ThreadsNum <= ScanThreads
    <3>1. Len(paths) \in Nat
      BY LenProperties DEF TypeOK
    <3> QED
      BY <3>1, TreeAssumption DEF ThreadsNum
  <2>3. fresh \in [1..ThreadsNum -> DirWorker] /\ \A i \in 1..ThreadsNum : fresh[i] = QueuedDirWorker
    BY <2>1
  <2>4. fresh \in Seq(DirWorker) /\ DOMAIN fresh = 1..ThreadsNum /\ Len(fresh) = ThreadsNum
    BY <2>2, <2>3
  <2> HIDE DEF fresh
  <2>5. WorkerWork[QueuedDirWorker] = 14
    <3>1. PICK none \in Seq(Paths) : none = <<>>
      BY NoPath
    <3>2. Len(none) = 0
      BY <3>1
    <3>3. /\ QueuedDirWorker.pc = "queued" /\ QueuedDirWorker.left = none
          /\ QueuedDirWorker.found = none
      BY <3>1 DEF QueuedDirWorker
    <3>4. DirPcWork["queued"] = 14
      BY DEF DirPcWork
    <3> QED
      BY <2>1, <3>2, <3>3, <3>4 DEF WorkerWork, FoundWork
  <2>6. WorkerWork \in [DirWorker -> Int]
    BY WorkWeights, Weights
  <2>7. Weigh(WorkerWork, fresh) = 14 * ThreadsNum
    <3>1. \A i \in 1..ThreadsNum : WorkerWork[fresh[i]] = 14
      BY <2>3, <2>5
    <3> QED
      BY <2>2, <2>4, <2>6, <3>1, WeighAlike
  <2>8. dirWorkers \in Seq(DirWorker) /\ dirWorkers' = dirWorkers \o fresh
    BY <1>1, <1>7 DEF TypeOK, fresh
  <2>9. ThreadsWork' = Weigh(WorkerWork, dirWorkers \o fresh)
    BY <2>8 DEF ThreadsWork
  <2>10. Weigh(WorkerWork, dirWorkers \o fresh) = Weigh(WorkerWork, dirWorkers) + Weigh(WorkerWork, fresh)
    BY <2>4, <2>6, <2>8, WeighJoin
  <2>11. PICK t \in Nat : t = 14 * ThreadsNum /\ t <= s
    BY <1>3, <2>2, TreeAssumption
  <2>12. ThreadsWork' = ThreadsWork + t
    BY <2>7, <2>9, <2>10, <2>11 DEF ThreadsWork
  <2> QED
    BY <1>1, <1>2, <1>4, <1>5, <2>11, <2>12
<1> QED
  BY <1>6, <1>7

\* A handler takes a signal, which weighs more than the job it may launch, than the button it
\* may enable, and a worker or job that is deleted has nothing left to do.
LEMMA HandlerLess ==
    ASSUME TypeOK, TypeOK', JobsInv, EndsInv,
           HandleProgress \/ HandleDirFinished \/ HandleResult \/ HandleFileFinished
    PROVE  /\ ThreadsWork' + JobsWork' + SignalsWork' + ButtonWork'
                < ThreadsWork + JobsWork + SignalsWork + ButtonWork
           /\ UNCHANGED <<mainPc, todo, dirs, entries, fileTargets, targets, results>>
<1>1. /\ events # <<>> /\ events' = Tail(events)
      /\ UNCHANGED <<mainPc, todo, dirs, entries, fileTargets, targets, results>>
  BY DEF HandleProgress, HandleDirFinished, HandleResult, HandleFileFinished, Handling,
     CountProgress, CountDirFinish, scanVars
<1>2. SignalsWork' = SignalsWork - IF Head(events).type = "progress" THEN 6 ELSE 2
  BY <1>1, SignalTaken
<1>3. PICK t, j, s \in Nat, b \in {0, 1} :
        t = ThreadsWork /\ j = JobsWork /\ s = SignalsWork /\ b = ButtonWork
  BY WorkTypes DEF WorkIsNumbers
<1>10. PICK t1, j1, s1 \in Nat, b1 \in {0, 1} :
         t1 = ThreadsWork' /\ j1 = JobsWork' /\ s1 = SignalsWork' /\ b1 = ButtonWork'
  BY WorkTypesThen DEF WorkIsNumbers
<1>11. /\ dirWorkers' = dirWorkers => t1 = t
       /\ jobs' = jobs => j1 = j
       /\ enabled' = enabled => b1 = b
       /\ s1 = s - IF Head(events).type = "progress" THEN 6 ELSE 2
  BY <1>2, <1>3, <1>10, WorkUntouched
<1>4. events[1] = Head(events) /\ 1 \in DOMAIN events
  BY <1>1, TailEvents
<1>5. PICK none \in Seq(Paths) : none = <<>> /\ Len(none) = 0
  BY NoPath
<1>6. ASSUME HandleProgress PROVE t1 + j1 + s1 + b1 < t + j + s + b
  <2>1. Head(events).type = "progress" /\ UNCHANGED <<dirWorkers, enabled>>
    BY <1>6 DEF HandleProgress, Handling, CountProgress
  <2>2. s1 = s - 6 /\ t1 = t /\ b1 = b
    BY <1>11, <2>1
  <2>3. j1 = j \/ j1 = j + 5
    <3>1. CASE jobs' = jobs
      BY <1>11, <3>1
    <3>2. CASE LaunchWorker("results", Head(events).count)
      <4>1. Head(events).count \in Int
        <5>1. PICK e \in AnyEvent : e = Head(events)
          BY <1>1, TakeHolds
        <5> QED
          BY <2>1, <5>1 DEF AnyEvent, DirEvents, JobEvents
      <4> QED
        BY <1>3, <1>10, <3>2, <4>1, JobAdded
    <3> QED
      BY <1>6, <3>1, <3>2 DEF HandleProgress
  <2> QED
    BY <2>2, <2>3
<1>7. ASSUME HandleDirFinished PROVE t1 + j1 + s1 + b1 < t + j + s + b
  <2>1. Head(events).type = "dirFinished" /\ jobs' = jobs
    BY <1>7 DEF HandleDirFinished, Handling
  <2>2. s1 = s - 2 /\ j1 = j
    BY <1>11, <2>1
  <2>3. PICK w \in DOMAIN dirWorkers : w = Head(events).worker
    BY <1>4, <2>1 DEF EndsInv, EndsPosted
  <2>4. dirWorkers' = MoveDir(w, "done", none, none)
    BY <1>5, <1>7, <2>3 DEF HandleDirFinished, CountDirFinish
  <2>5. "done" \in DirPcs /\ WorkOf("done", none, none) = 0
    BY <1>5 DEF DirPcs, WorkOf, DirPcWork, FoundWork
  <2>6. /\ WorkOf(dirWorkers[w].pc, dirWorkers[w].left, dirWorkers[w].found) \in Nat
        /\ ThreadsWork' =
             (ThreadsWork - WorkOf(dirWorkers[w].pc, dirWorkers[w].left, dirWorkers[w].found)) + 0
    BY <2>4, <2>5, WorkerMoved
  <2>7. t1 <= t
    BY <1>3, <1>10, <2>6
  <2> QED
    BY <2>2, <2>7
<1>8. ASSUME HandleResult PROVE t1 + j1 + s1 + b1 < t + j + s + b
  <2>1. Head(events).type = "result" /\ UNCHANGED <<dirWorkers, jobs>>
    BY <1>8 DEF HandleResult, Handling
  <2>2. s1 = s - 2 /\ t1 = t /\ j1 = j
    BY <1>11, <2>1
  <2> QED
    BY <2>2
<1>9. ASSUME HandleFileFinished PROVE t1 + j1 + s1 + b1 < t + j + s + b
  <2>1. Head(events).type = "fileFinished" /\ dirWorkers' = dirWorkers
    BY <1>9 DEF HandleFileFinished, Handling, scanVars
  <2>2. s1 = s - 2 /\ t1 = t
    BY <1>11, <2>1
  <2>3. PICK k \in DOMAIN jobs : k = Head(events).job
    BY <1>4, <2>1 DEF JobsInv, JobEventsInv
  <2>4. jobs' = EndJob(k, "done")
    BY <1>9, <2>3 DEF HandleFileFinished
  <2>5. "done" \in JobPcs /\ JobWorkOf("done", none) = 0
    BY <1>5 DEF JobPcs, JobWorkOf, JobPcWork
  <2>6. /\ JobWorkOf(jobs[k].pc, jobs[k].batch) \in Nat
        /\ JobsWork' = (JobsWork - JobWorkOf(jobs[k].pc, jobs[k].batch)) + 0
    BY <1>5, <2>4, <2>5, JobMoved
  <2>7. j1 <= j
    BY <1>3, <1>10, <2>6
  <2> QED
    BY <2>2, <2>7
<1>12. t1 + j1 + s1 + b1 < t + j + s + b
  BY <1>6, <1>7, <1>8, <1>9
<1> QED
  BY <1>1, <1>3, <1>10, <1>12

\* Every step but the start of a run leaves less to do.
LEMMA NextLess ==
    ASSUME TypeOK, TypeOK', JobsInv, EndsInv, EntriesListed, Next, ~BeginIndexing
    PROVE  Work' < Work
<1>0. PICK t, j, s, g, r, f, v, m, b \in Nat :
        /\ t = ThreadsWork /\ j = JobsWork /\ s = SignalsWork /\ g = TargetsWork
        /\ r = ResultsWork /\ f = FilesWork /\ v = VisitWork /\ m = MainPcWork[mainPc]
        /\ b = ButtonWork
        /\ Work = ((((m + b) + v) + ((f + r) + g) + t) + j) + s
  BY WorkTypes, WorkParts DEF WorkIsNumbers
<1>1. PICK t1, j1, s1, g1, r1, f1, v1, m1, b1 \in Nat :
        /\ t1 = ThreadsWork' /\ j1 = JobsWork' /\ s1 = SignalsWork' /\ g1 = TargetsWork'
        /\ r1 = ResultsWork' /\ f1 = FilesWork' /\ v1 = VisitWork'
        /\ m1 = (MainPcWork[mainPc])' /\ b1 = ButtonWork'
        /\ Work' = ((((m1 + b1) + v1) + ((f1 + r1) + g1) + t1) + j1) + s1
  <2>1. WorkIsNumbers'
    BY WorkTypesThen
  <2>2. Work' = ((((MainPcWork[mainPc]' + ButtonWork') + VisitWork')
                   + ((FilesWork' + ResultsWork') + TargetsWork')
                   + ThreadsWork') + JobsWork') + SignalsWork'
    BY DEF Work, MainWork, QueueWork, TargetsWork, ThreadsWork, JobsWork, SignalsWork,
       FilesWork, ResultsWork, ButtonWork
  <2>3. ButtonWork' \in Nat
    BY <2>1 DEF WorkIsNumbers
  <2> QED
    BY <2>1, <2>2, <2>3 DEF WorkIsNumbers
<1>2. /\ dirWorkers' = dirWorkers => t1 = t
      /\ jobs' = jobs => j1 = j
      /\ events' = events => s1 = s
      /\ targets' = targets => g1 = g
      /\ results' = results => r1 = r
      /\ fileTargets' = fileTargets => f1 = f
      /\ enabled' = enabled => b1 = b
      /\ mainPc' = mainPc => m1 = m
      /\ UNCHANGED <<mainPc, todo, dirs, entries>> => v1 = v
  BY <1>0, <1>1, WorkUntouched
<1> DEFINE now == ((((m + b) + v) + ((f + r) + g) + t) + j) + s
           next == ((((m1 + b1) + v1) + ((f1 + r1) + g1) + t1) + j1) + s1
<1>12. Work = now /\ Work' = next
  BY <1>0, <1>1
<1>3. CASE StopIndexing
  <2>1. /\ enabled /\ ~enabled'
        /\ UNCHANGED <<targets, results, dirWorkers, events, fileTargets, jobs, mainPc, todo, dirs,
                       entries>>
    BY <1>3 DEF StopIndexing
  <2>2. b = 1 /\ b1 = 0
    BY <1>0, <1>1, <2>1 DEF ButtonWork
  <2>3. t1 = t /\ j1 = j /\ s1 = s /\ g1 = g /\ r1 = r /\ f1 = f /\ m1 = m /\ v1 = v
    BY <1>2, <2>1
  <2> QED
    <3>1. next < now
      BY <2>2, <2>3
    <3> QED
      BY <1>12, <3>1
<1>4. CASE LeaveEventLoop
  <2>1. /\ mainPc = "loop" /\ mainPc' = "exited" /\ enabled' = enabled
        /\ UNCHANGED <<targets, results, dirWorkers, events, fileTargets, jobs>>
    BY <1>4 DEF LeaveEventLoop, scanVars, jobVars, clickVars
  <2>2. m = 1 /\ m1 = 0 /\ v = 0 /\ v1 = 0
    BY <1>0, <1>1, <2>1, MainPcParts, MainPcPartsThen, VisitParts, VisitPartsThen
  <2>3. t1 = t /\ j1 = j /\ s1 = s /\ g1 = g /\ r1 = r /\ f1 = f /\ b1 = b
    BY <1>2, <2>1
  <2> QED
    <3>1. next < now
      BY <2>2, <2>3
    <3> QED
      BY <1>12, <3>1
<1>5. CASE HandleProgress \/ HandleDirFinished \/ HandleResult \/ HandleFileFinished
  <2>1. /\ t1 + j1 + s1 + b1 < t + j + s + b
        /\ UNCHANGED <<mainPc, todo, dirs, entries, fileTargets, targets, results>>
    BY <1>0, <1>1, <1>5, HandlerLess
  <2>2. g1 = g /\ r1 = r /\ f1 = f /\ m1 = m /\ v1 = v
    BY <1>2, <2>1
  <2> QED
    <3>1. next < now
      BY <2>1, <2>2
    <3> QED
      BY <1>12, <3>1
<1>6. CASE \E w \in DOMAIN dirWorkers : DirWorkerThread(w)
  <2>1. PICK w \in DOMAIN dirWorkers : DirWorkerThread(w)
    BY <1>6
  <2>2. t1 + s1 + g1 + r1 < t + s + g + r
    BY <1>0, <1>1, <2>1, WorkerWorksLess
  <2>3. UNCHANGED <<mainPc, todo, dirs, entries, fileTargets, jobs, enabled>>
    BY <2>1 DEF DirWorkerThread, jobVars, mainVars
  <2>4. j1 = j /\ f1 = f /\ m1 = m /\ v1 = v /\ b1 = b
    BY <1>2, <2>3
  <2> QED
    <3>1. next < now
      BY <2>2, <2>4
    <3> QED
      BY <1>12, <3>1
<1>7. CASE \E i \in DOMAIN jobs : JobStep(i)
  <2>1. PICK i \in DOMAIN jobs : JobStep(i)
    BY <1>7
  <2>2. j1 + s1 + f1 + r1 < j + s + f + r
    BY <1>0, <1>1, <2>1, JobWorksLess
  <2>3. UNCHANGED <<mainPc, todo, dirs, entries, targets, dirWorkers, enabled>>
    BY <2>1 DEF JobStep, mainVars
  <2>4. t1 = t /\ g1 = g /\ m1 = m /\ v1 = v /\ b1 = b
    BY <1>2, <2>3
  <2> QED
    <3>1. next < now
      BY <2>2, <2>4
    <3> QED
      BY <1>12, <3>1
<1>8. CASE NextArgument
  <2>1. /\ v1 + f1 < v + f
        /\ UNCHANGED <<targets, results, dirWorkers, events, jobs, mainPc, enabled>>
    BY <1>0, <1>1, <1>8, NextArgumentLess
  <2>2. t1 = t /\ j1 = j /\ s1 = s /\ g1 = g /\ r1 = r /\ m1 = m /\ b1 = b
    BY <1>2, <2>1
  <2> QED
    <3>1. next < now
      BY <2>1, <2>2
    <3> QED
      BY <1>12, <3>1
<1>9. CASE NextEntry
  <2>1. /\ v1 + g1 + r1 < v + g + r
        /\ UNCHANGED <<fileTargets, dirWorkers, events, jobs, mainPc, enabled>>
    BY <1>0, <1>1, <1>9, NextEntryLess
  <2>2. t1 = t /\ j1 = j /\ s1 = s /\ f1 = f /\ m1 = m /\ b1 = b
    BY <1>2, <2>1
  <2> QED
    <3>1. next < now
      BY <2>1, <2>2
    <3> QED
      BY <1>12, <3>1
<1>10. CASE SpawnOrComplete
  <2>1. /\ t1 + m1 < t + m /\ v1 = v
        /\ UNCHANGED <<fileTargets, events, jobs, enabled, targets, results>>
    BY <1>0, <1>1, <1>10, SpawningLess
  <2>2. j1 = j /\ s1 = s /\ g1 = g /\ r1 = r /\ f1 = f /\ b1 = b
    BY <1>2, <2>1
  <2> QED
    <3>1. next < now
      BY <2>1, <2>2
    <3> QED
      BY <1>12, <3>1
<1>11. CASE StartScan \/ OpenDirectory \/ AnnounceFirstLevel \/ LaunchFileTargets
  BY <1>11, PreparingLess
<1> QED
  BY <1>3, <1>4, <1>5, <1>6, <1>7, <1>8, <1>9, <1>10, <1>11 DEF Next, MainStep

\* Indexing cannot go on for ever: between two clicks on Start every step leaves less to do.
THEOREM WorkRunsOutTheorem == Spec => WorkRunsOut
<1>1. Init => PlacesInv
  BY InitHeld
<1>2. TypeOK /\ JobsInv /\ EndsInv /\ QueuesInv /\ PlacesInv /\ [Next]_vars => PlacesInv'
  BY NextPlaces
<1>3. Spec => [](TypeOK /\ JobsInv /\ EndsInv /\ QueuesInv /\ PlacesInv)
  BY <1>1, <1>2, FinishInvariant, PTL DEF Spec
<1>4. TypeOK /\ TypeOK' /\ JobsInv /\ EndsInv /\ PlacesInv /\ [Next]_vars
        => [BeginIndexing \/ (Work \in Nat /\ Work' \in Nat /\ Work' < Work)]_vars
  <2> SUFFICES ASSUME TypeOK, TypeOK', JobsInv, EndsInv, PlacesInv, Next, ~BeginIndexing
               PROVE  Work \in Nat /\ Work' \in Nat /\ Work' < Work
    OBVIOUS
  <2>1. Work \in Nat
    BY WorkTypes DEF WorkIsNumbers
  <2>2. Work' \in Nat
    BY WorkTypesThen DEF WorkIsNumbers
  <2>3. Work' < Work
    BY NextLess DEF PlacesInv
  <2> QED
    BY <2>1, <2>2, <2>3
<1> QED
  BY <1>3, <1>4, PTL DEF Spec, WorkRunsOut

----------------------------------------------------------------------------
(* Somebody can always move.  In the first run no job takes from an empty   *)
(* queue, no worker collects more than the threshold, who is through has a  *)
(* finished signal on its way, and while the main thread waits for signals  *)
(* a job or the scan is running.                                            *)
NoUnderflow == runs <= 1 => \A j \in DOMAIN jobs : jobs[j].pc # "underflow"
FoundFits ==
    \A w \in DOMAIN dirWorkers :
        /\ Len(dirWorkers[w].found) <= Threshold
        /\ dirWorkers[w].pc \in {"queued", "pick", "walk"} => Len(dirWorkers[w].found) < Threshold
SomethingRuns == mainPc = "loop" /\ phase = "indexing" => runningWorkers > 0 \/ scanning
IsJobEnd(e, j) == e.type = "fileFinished" /\ e.job = j
EndsComing ==
    /\ \A w \in DOMAIN dirWorkers :
         dirWorkers[w].pc = "posted" => \E i \in DOMAIN events : IsEnd(events[i], w)
    /\ \A j \in DOMAIN jobs :
         jobs[j].pc = "posted" => \E i \in DOMAIN events : IsJobEnd(events[i], j)
GoesOnInv == NoUnderflow /\ FoundFits /\ SomethingRuns /\ EndsComing

\* What a step makes of a job: nothing, a new one, a deleted one, or a step of its thread.
LEMMA JobsThen ==
    ASSUME TypeOK, [Next]_vars
    PROVE  /\ DOMAIN jobs \subseteq DOMAIN jobs'
           /\ \A k \in DOMAIN jobs' :
                \/ k \in DOMAIN jobs /\ jobs'[k] = jobs[k]
                \/ k \notin DOMAIN jobs /\ jobs'[k].pc = "queued"
                \/ k \in DOMAIN jobs /\ JobStep(k)
                \/ HandleFileFinished /\ jobs'[k].pc = "done"
<1>1. jobs \in Seq(Job)
  BY DEF TypeOK
<1>2. CASE jobs' = jobs
  BY <1>2
<1>3. CASE \E queue, size : LaunchWorker(queue, size)
  <2>1. PICK job : jobs' = Append(jobs, job) /\ job.pc = "queued"
    BY <1>3 DEF LaunchWorker, NewJob
  <2>2. /\ DOMAIN jobs = 1..Len(jobs) /\ DOMAIN jobs' = 1..(Len(jobs) + 1) /\ Len(jobs) \in Nat
        /\ jobs'[Len(jobs) + 1] = job
        /\ \A k \in 1..Len(jobs) : jobs'[k] = jobs[k]
    BY <1>1, <2>1, LenProperties
  <2> QED
    BY <2>1, <2>2
<1>4. CASE HandleFileFinished
  <2>1. jobs' = EndJob(Head(events).job, "done")
    BY <1>4 DEF HandleFileFinished
  <2>2. /\ DOMAIN jobs' = DOMAIN jobs
        /\ \A k \in DOMAIN jobs : jobs'[k] = jobs[k] \/ jobs'[k].pc = "done"
    BY <2>1 DEF EndJob
  <2> QED
    BY <1>4, <2>2
<1>5. CASE \E j \in DOMAIN jobs : JobStep(j)
  <2>1. PICK j \in DOMAIN jobs : JobStep(j)
    BY <1>5
  <2>2. PICK job : jobs' = [jobs EXCEPT ![j] = job]
    BY <2>1, StepOfJob DEF Starts, Takes, Underflows, Proceeds, Becomes
  <2>3. DOMAIN jobs' = DOMAIN jobs /\ \A k \in DOMAIN jobs : k # j => jobs'[k] = jobs[k]
    BY <2>2
  <2> QED
    BY <2>1, <2>3
<1>6. CASE UNCHANGED vars \/ BeginIndexing \/ StopIndexing \/ NextArgument \/ StartScan
           \/ OpenDirectory \/ NextEntry \/ SpawnOrComplete \/ HandleDirFinished \/ HandleResult
           \/ LeaveEventLoop \/ \E w \in DOMAIN dirWorkers : DirWorkerThread(w)
  <2>1. jobs' = jobs
    BY <1>6 DEF vars, jobVars, BeginIndexing, StopIndexing, NextArgument, StartScan,
       OpenDirectory, NextEntry, SpawnOrComplete, HandleDirFinished, HandleResult, LeaveEventLoop,
       DirWorkerThread
  <2> QED
    BY <1>2, <2>1
<1>7. CASE AnnounceFirstLevel \/ LaunchFileTargets
  BY <1>3, <1>7 DEF AnnounceFirstLevel, LaunchFileTargets
<1>8. CASE HandleProgress
  BY <1>2, <1>3, <1>8 DEF HandleProgress
<1> QED
  BY <1>4, <1>5, <1>6, <1>7, <1>8 DEF Next, MainStep

LEMMA WorkersThen ==
    ASSUME TypeOK, [Next]_vars
    PROVE  /\ DOMAIN dirWorkers \subseteq DOMAIN dirWorkers'
           /\ \A v \in DOMAIN dirWorkers' :
                \/ v \in DOMAIN dirWorkers /\ dirWorkers'[v] = dirWorkers[v]
                \/ v \notin DOMAIN dirWorkers /\ dirWorkers'[v] = QueuedDirWorker
                \/ v \in DOMAIN dirWorkers /\ DirWorkerThread(v)
                \/ HandleDirFinished /\ dirWorkers'[v].pc = "done" /\ dirWorkers'[v].found = <<>>
<1>1. CASE dirWorkers' = dirWorkers
  BY <1>1
<1>2. CASE SpawnOrComplete
  <2>1. /\ \A v \in DOMAIN dirWorkers : v \in DOMAIN dirWorkers' /\ dirWorkers'[v] = dirWorkers[v]
        /\ \A v \in DOMAIN dirWorkers' :
              v \notin DOMAIN dirWorkers => dirWorkers'[v] = QueuedDirWorker
    BY <1>2, Spawned
  <2> QED
    BY <2>1
<1>3. CASE HandleDirFinished
  <2>1. dirWorkers' = MoveDir(Head(events).worker, "done", <<>>, <<>>)
    BY <1>3 DEF HandleDirFinished, CountDirFinish
  <2>2. /\ DOMAIN dirWorkers' = DOMAIN dirWorkers
        /\ \A v \in DOMAIN dirWorkers :
             \/ dirWorkers'[v] = dirWorkers[v]
             \/ dirWorkers'[v].pc = "done" /\ dirWorkers'[v].found = <<>>
    BY <2>1 DEF MoveDir
  <2> QED
    BY <1>3, <2>2
<1>4. CASE \E w \in DOMAIN dirWorkers : DirWorkerThread(w)
  <2>1. PICK w \in DOMAIN dirWorkers : DirWorkerThread(w)
    BY <1>4
  <2>2. PICK worker : dirWorkers' = [dirWorkers EXCEPT ![w] = worker]
    BY <2>1, WorkerStep DEF Works, Reserves, Appends, Announces, Finishes, Moves
  <2>3. /\ DOMAIN dirWorkers' = DOMAIN dirWorkers
        /\ \A v \in DOMAIN dirWorkers : v # w => dirWorkers'[v] = dirWorkers[v]
    BY <2>2
  <2> QED
    BY <2>1, <2>3
<1>5. CASE UNCHANGED vars \/ BeginIndexing \/ StopIndexing \/ NextArgument \/ StartScan
           \/ OpenDirectory \/ NextEntry \/ AnnounceFirstLevel \/ LaunchFileTargets
           \/ HandleProgress \/ HandleResult \/ HandleFileFinished \/ LeaveEventLoop
           \/ \E j \in DOMAIN jobs : JobStep(j)
  <2>1. dirWorkers' = dirWorkers
    BY <1>5 DEF vars, scanVars, BeginIndexing, StopIndexing, NextArgument, StartScan, BeginScan,
       OpenDirectory, NextEntry, ListEntry, AnnounceFirstLevel, LaunchFileTargets,
       HandleProgress, CountProgress, HandleResult, HandleFileFinished, LeaveEventLoop, JobStep
  <2> QED
    BY <1>1, <2>1
<1> QED
  BY <1>2, <1>3, <1>4, <1>5 DEF Next, MainStep

\* A signal stays in its place behind fewer others until it is handled.
LEMMA EventsThen ==
    ASSUME TypeOK, [Next]_vars
    PROVE  \A i \in DOMAIN events :
             \/ \E k \in DOMAIN events' : events'[k] = events[i]
             \/ /\ events # <<>> /\ events[i] = Head(events)
                /\ HandleProgress \/ HandleDirFinished \/ HandleResult \/ HandleFileFinished
<1>1. CASE events' = events
  BY <1>1
<1>2. CASE \E e \in AnyEvent : Post(e)
  BY <1>2, MoreEvents
<1>3. CASE HandleProgress \/ HandleDirFinished \/ HandleResult \/ HandleFileFinished
  <2>1. events # <<>> /\ events' = Tail(events) /\ events \in Seq(AnyEvent)
    BY <1>3 DEF HandleProgress, HandleDirFinished, HandleResult, HandleFileFinished, Handling,
       TypeOK, AnyEvent
  <2>2. /\ Len(events) \in Nat /\ DOMAIN events = 1..Len(events) /\ Head(events) = events[1]
        /\ DOMAIN events' = 1..(Len(events) - 1)
        /\ \A k \in 1..(Len(events) - 1) : events'[k] = events[k + 1]
    BY <2>1, HeadTailProperties, LenProperties
  <2>3. ASSUME NEW i \in DOMAIN events, i # 1
        PROVE  \E k \in DOMAIN events' : events'[k] = events[i]
    <3>1. i - 1 \in DOMAIN events' /\ events'[i - 1] = events[(i - 1) + 1] /\ (i - 1) + 1 = i
      BY <2>2, <2>3
    <3> QED
      BY <3>1
  <2> QED
    BY <1>3, <2>1, <2>2, <2>3
<1>4. CASE \E w \in DOMAIN dirWorkers : DirWorkerThread(w)
  <2>1. PICK w \in DOMAIN dirWorkers : DirWorkerThread(w)
    BY <1>4
  <2>2. w \in Nat /\ Len(dirWorkers[w].found) \in Nat
    BY WorkerAt
  <2>3. Progress(Len(dirWorkers[w].found)) \in AnyEvent /\ DirFinished(w) \in AnyEvent
    BY <2>2 DEF Progress, DirFinished, AnyEvent, DirEvents
  <2>4. events' = events \/ \E e \in AnyEvent : Post(e)
    BY <2>1, <2>3 DEF DirWorkerThread, DirWorkerStep, StartDirWorker, PickDirectory,
       NoMoreDirectories, WalkEntry, AcquireResults, AppendResults, EmitProgress, EmitDirFinished
  <2> QED
    BY <1>1, <1>2, <2>4
<1>5. CASE \E j \in DOMAIN jobs : JobStep(j)
  <2>1. events' = events \/ \E e \in JobEvents : Post(e)
    BY <1>5, StepOfJob DEF Starts, Takes, Underflows, Proceeds
  <2> QED
    BY <1>1, <1>2, <2>1 DEF AnyEvent
<1>6. CASE UNCHANGED vars \/ BeginIndexing \/ StopIndexing \/ NextArgument \/ StartScan
           \/ OpenDirectory \/ NextEntry \/ AnnounceFirstLevel \/ SpawnOrComplete
           \/ LaunchFileTargets \/ LeaveEventLoop
  <2>1. events' = events
    BY <1>6 DEF vars, BeginIndexing, StopIndexing, NextArgument, StartScan, OpenDirectory,
       NextEntry, AnnounceFirstLevel, SpawnOrComplete, LaunchFileTargets, LeaveEventLoop
  <2> QED
    BY <1>1, <2>1
<1> QED
  BY <1>3, <1>4, <1>5, <1>6 DEF Next, MainStep

LEMMA NextUnderflow ==
    ASSUME TypeOK, QueuesInv, NoUnderflow, [Next]_vars
    PROVE  NoUnderflow'
<1> SUFFICES ASSUME runs' <= 1, NEW j \in DOMAIN jobs', jobs'[j].pc = "underflow" PROVE FALSE
  BY DEF NoUnderflow
<1>1. runs <= 1
  <2>1. runs' = runs \/ runs' = runs + 1
    BY StepKeepsRun DEF BeginIndexing
  <2> QED
    BY <2>1 DEF TypeOK
<1>2. j \in DOMAIN jobs /\ JobStep(j)
  BY <1>1, JobsThen DEF NoUnderflow
<1>3. CASE TakeBatch(j)
  <2>1. jobs[j].pc = "take" /\ jobs[j].queue \in {"files", "results"}
    BY <1>2, <1>3, JobAt DEF TakeBatch, AtJob
  <2>2. Holds(QueueOfJob(j), jobs[j].size)
    BY <1>1, <1>2, <2>1, BatchIsThere DEF QueueOfJob
  <2>3. jobs' = MoveJob(j, IF jobs[j].size = 0 THEN "check" ELSE "process",
                        Batch(QueueOfJob(j), jobs[j].size))
    BY <1>3, <2>2 DEF TakeBatch
  <2> QED
    BY <1>2, <2>3 DEF MoveJob
<1>4. CASE ~TakeBatch(j)
  <2>1. \/ jobs' = MoveJob(j, "take", <<>>) \/ jobs' = MoveJob(j, "check", Tail(jobs[j].batch))
        \/ jobs' = MoveJob(j, "process", jobs[j].batch) \/ jobs' = EndJob(j, "posted")
    BY <1>2, <1>4 DEF JobStep, StartJob, ProcessPath, CheckToken
  <2> QED
    BY <1>2, <2>1 DEF MoveJob, EndJob
<1> QED
  BY <1>3, <1>4

\* Where a worker goes, and with how much.
LEMMA NextFits ==
    ASSUME TypeOK, FoundFits, [Next]_vars
    PROVE  FoundFits'
<1> DEFINE Fits(worker) == /\ Len(worker.found) <= Threshold
                           /\ worker.pc \in {"queued", "pick", "walk"}
                                => Len(worker.found) < Threshold
<1>1. Threshold \in Nat /\ Threshold > 0
  BY TreeAssumption
<1>2. ASSUME NEW worker, worker.found = <<>> PROVE Fits(worker)
  BY <1>1, <1>2
<1>3. ASSUME NEW v \in DOMAIN dirWorkers, DirWorkerThread(v), v \in DOMAIN dirWorkers'
      PROVE  Fits(dirWorkers'[v])
  <2> DEFINE pc == dirWorkers[v].pc
             found == dirWorkers[v].found
             left == dirWorkers[v].left
  <2>1. /\ pc \in DirPcs /\ left \in Seq(Paths) /\ found \in Seq(Paths) /\ Len(found) \in Nat
        /\ Len(found) <= Threshold
        /\ pc \in {"queued", "pick", "walk"} => Len(found) < Threshold
    BY WorkerAt DEF FoundFits
  <2>2. \A p, l, f : dirWorkers' = MoveDir(v, p, l, f) =>
           dirWorkers'[v].pc = p /\ dirWorkers'[v].found = f
    BY DEF MoveDir
  <2>3. CASE WalkEntry(v)
    <3> DEFINE entry == Head(left)
               more == IF entry \in Ignored THEN found ELSE Append(found, entry)
               full == entry \notin Ignored /\ Len(more) = Threshold
    <3>1. pc = "walk" /\ left # <<>>
      BY <1>3, <2>3 DEF WalkEntry, AtDir, TypeOK, LoopsHaveWork
    <3>2. entry \in Paths
      BY <2>1, <3>1, HeadTail
    <3>3. Len(Append(found, entry)) = Len(found) + 1
      BY <2>1, <3>2, AppendProperties
    <3>4. Len(more) \in Nat /\ Len(more) <= Threshold /\ (~full => Len(more) < Threshold)
      <4>1. CASE entry \in Ignored
        BY <2>1, <3>1, <4>1
      <4>2. CASE entry \notin Ignored
        BY <1>1, <2>1, <3>1, <3>3, <4>2
      <4> QED
        BY <4>1, <4>2
    <3>5. dirWorkers' = IF full /\ stopToken THEN MoveDir(v, "finish", <<>>, <<>>)
                        ELSE MoveDir(v, IF full THEN "acquire" ELSE Resume(Tail(left)),
                                     Tail(left), more)
      BY <2>3 DEF WalkEntry
    <3> HIDE DEF full, more
    <3>6. CASE full /\ stopToken
      BY <1>2, <2>2, <3>5, <3>6
    <3>7. CASE full /\ ~stopToken
      BY <2>2, <3>4, <3>5, <3>7
    <3>8. CASE ~full
      BY <2>2, <3>4, <3>5, <3>8
    <3> QED
      BY <3>6, <3>7, <3>8
  <2>4. CASE EmitProgress(v)
    <3>1. \E p, l : dirWorkers' = MoveDir(v, p, l, <<>>)
      BY <2>4 DEF EmitProgress
    <3> QED
      BY <1>2, <2>2, <3>1
  <2>5. CASE PickDirectory(v)
    <3>1. pc = "pick" /\ (dirWorkers' = dirWorkers \/ \E l : dirWorkers' = MoveDir(v, "walk", l, found))
      BY <2>5 DEF PickDirectory, AtDir
    <3> QED
      BY <2>1, <2>2, <3>1
  <2>6. CASE StartDirWorker(v)
    <3>1. pc = "queued" /\ dirWorkers' = MoveDir(v, "pick", left, found)
      BY <2>6 DEF StartDirWorker, AtDir, Goto
    <3> QED
      BY <2>1, <2>2, <3>1
  <2>7. CASE NoMoreDirectories(v) \/ AcquireResults(v) \/ AppendResults(v) \/ EmitDirFinished(v)
    <3>1. PICK p \in {"lastAcquire", "append", "lastAppend", "progress", "lastProgress", "posted"} :
             dirWorkers' = MoveDir(v, p, left, found)
      BY <2>7 DEF NoMoreDirectories, AcquireResults, AppendResults, EmitDirFinished, Goto
    <3> QED
      BY <2>1, <2>2, <3>1
  <2> QED
    BY <1>3, <2>3, <2>4, <2>5, <2>6, <2>7 DEF DirWorkerThread, DirWorkerStep
<1>4. ASSUME NEW v \in DOMAIN dirWorkers' PROVE Fits(dirWorkers'[v])
  <2>1. CASE v \in DOMAIN dirWorkers /\ dirWorkers'[v] = dirWorkers[v]
    BY <2>1 DEF FoundFits
  <2>2. CASE dirWorkers'[v] = QueuedDirWorker
    BY <1>2, <2>2 DEF QueuedDirWorker
  <2> QED
    BY <1>2, <1>3, <1>4, <2>1, <2>2, WorkersThen
<1> HIDE DEF Fits
<1>5. \A v \in DOMAIN dirWorkers' : Fits(dirWorkers'[v])
  BY <1>4
<1> QED
  BY <1>5 DEF FoundFits, Fits

\* A finished signal is posted by who ends, and the one it is handled for is deleted.
LEMMA NextComing ==
    ASSUME TypeOK, EndsComing, [Next]_vars
    PROVE  EndsComing'
<1>1. ASSUME NEW w \in DOMAIN dirWorkers', dirWorkers'[w].pc = "posted"
      PROVE  \E i \in DOMAIN events' : IsEnd(events'[i], w)
  <2>1. CASE w \in DOMAIN dirWorkers /\ DirWorkerThread(w)
    <3>1. w \in Nat /\ Len(dirWorkers[w].found) \in Nat
      BY <2>1, WorkerAt
    <3>2. CASE EmitDirFinished(w)
      <4>4. DirFinished(w) \in AnyEvent /\ IsEnd(DirFinished(w), w)
        BY <3>1 DEF DirFinished, AnyEvent, DirEvents, IsEnd
      <4>1. PICK e \in AnyEvent : e = DirFinished(w) /\ IsEnd(e, w)
        BY <4>4
      <4>2. Post(e)
        BY <3>2, <4>1 DEF EmitDirFinished
      <4>3. Len(events) + 1 \in DOMAIN events' /\ events'[Len(events) + 1] = e
        BY <4>2, MoreEvents
      <4> QED
        BY <4>1, <4>3
    <3>3. CASE ~EmitDirFinished(w)
      <4>1. \/ dirWorkers' = dirWorkers /\ dirWorkers[w].pc = "pick"
            \/ \E p, l, f : p # "posted" /\ dirWorkers' = MoveDir(w, p, l, f)
        BY <2>1, <3>3 DEF DirWorkerThread, DirWorkerStep, StartDirWorker, PickDirectory,
           NoMoreDirectories, WalkEntry, AcquireResults, AppendResults, EmitProgress, Goto, Resume,
           AtDir
      <4> QED
        BY <1>1, <2>1, <4>1 DEF MoveDir
    <3> QED
      BY <3>2, <3>3
  <2>2. CASE w \in DOMAIN dirWorkers /\ dirWorkers'[w] = dirWorkers[w]
    <3>1. PICK i \in DOMAIN events : IsEnd(events[i], w)
      BY <1>1, <2>2 DEF EndsComing
    <3>2. CASE \E k \in DOMAIN events' : events'[k] = events[i]
      BY <3>1, <3>2
    <3>3. CASE \A k \in DOMAIN events' : events'[k] # events[i]
      <4>1. IsEnd(Head(events), w) /\ HandleDirFinished
        BY <3>1, <3>3, EventsThen DEF IsEnd, HandleProgress, HandleDirFinished, HandleResult,
           HandleFileFinished, Handling
      <4>2. dirWorkers' = MoveDir(w, "done", <<>>, <<>>)
        BY <4>1 DEF HandleDirFinished, CountDirFinish, IsEnd
      <4> QED
        BY <1>1, <2>2, <4>2 DEF MoveDir
    <3> QED
      BY <3>2, <3>3
  <2>3. QueuedDirWorker.pc # "posted"
    BY DEF QueuedDirWorker
  <2> QED
    BY <1>1, <2>1, <2>2, <2>3, WorkersThen
<1>2. ASSUME NEW j \in DOMAIN jobs', jobs'[j].pc = "posted"
      PROVE  \E i \in DOMAIN events' : IsJobEnd(events'[i], j)
  <2>1. CASE j \in DOMAIN jobs /\ JobStep(j)
    <3>1. j \in Nat
      BY <2>1, JobAt
    <3>2. CASE CheckToken(j) /\ Post(FileFinished(j))
      <4>4. FileFinished(j) \in AnyEvent /\ IsJobEnd(FileFinished(j), j)
        BY <3>1 DEF FileFinished, AnyEvent, JobEvents, IsJobEnd
      <4>1. PICK e \in AnyEvent : e = FileFinished(j) /\ IsJobEnd(e, j)
        BY <4>4
      <4>2. Post(e)
        BY <3>2, <4>1
      <4>3. Len(events) + 1 \in DOMAIN events' /\ events'[Len(events) + 1] = e
        BY <4>2, MoreEvents
      <4> QED
        BY <4>1, <4>3
    <3>3. CASE ~(CheckToken(j) /\ Post(FileFinished(j)))
      <4>1. \E p, b : p # "posted" /\ jobs' = MoveJob(j, p, b)
        BY <2>1, <3>3 DEF JobStep, StartJob, TakeBatch, ProcessPath, CheckToken
      <4> QED
        BY <1>2, <2>1, <4>1 DEF MoveJob
    <3> QED
      BY <3>2, <3>3
  <2>2. CASE j \in DOMAIN jobs /\ jobs'[j] = jobs[j]
    <3>1. PICK i \in DOMAIN events : IsJobEnd(events[i], j)
      BY <1>2, <2>2 DEF EndsComing
    <3>2. CASE \E k \in DOMAIN events' : events'[k] = events[i]
      BY <3>1, <3>2
    <3>3. CASE \A k \in DOMAIN events' : events'[k] # events[i]
      <4>1. IsJobEnd(Head(events), j) /\ HandleFileFinished
        BY <3>1, <3>3, EventsThen DEF IsJobEnd, HandleProgress, HandleDirFinished, HandleResult,
           HandleFileFinished, Handling
      <4>2. jobs' = EndJob(j, "done")
        BY <4>1 DEF HandleFileFinished, IsJobEnd
      <4> QED
        BY <1>2, <2>2, <4>2 DEF EndJob
    <3> QED
      BY <3>2, <3>3
  <2> QED
    BY <1>2, <2>1, <2>2, JobsThen
<1> QED
  BY <1>1, <1>2 DEF EndsComing

\* The main thread is back in its loop with a job launched, and as long as a job or the scan
\* runs who handles the end of the other does not finish.
LEMMA NextRuns ==
    ASSUME TypeOK, JobsInv, SomethingRuns, [Next]_vars
    PROVE  SomethingRuns'
<1> SUFFICES ASSUME mainPc' = "loop", phase' = "indexing"
             PROVE  runningWorkers' > 0 \/ scanning'
  BY DEF SomethingRuns
<1>1. runningWorkers \in Nat
  <2>1. IsFiniteSet(LiveJobs)
    BY LiveJobsFinite
  <2> QED
    BY <2>1, FS_CardinalityType DEF JobsInv, RunningWorkersExact
<1>2. CASE LaunchFileTargets
  BY <1>1, <1>2 DEF LaunchFileTargets, LaunchWorker
<1>3. CASE mainPc = "loop" /\ ~BeginIndexing
  <2>1. phase = "indexing"
    BY <1>3 DEF Next, MainStep, vars, mainVars, TypeOK, StopIndexing, NextArgument, StartScan,
       OpenDirectory, NextEntry, AnnounceFirstLevel, SpawnOrComplete, LaunchFileTargets,
       HandleProgress, HandleDirFinished, HandleResult, HandleFileFinished, LeaveEventLoop,
       EmitFinished, DoNotFinish, DirWorkerThread, JobStep
  <2>2. runningWorkers > 0 \/ scanning
    BY <1>3, <2>1 DEF SomethingRuns
  <2>3. CASE HandleProgress
    <3>1. scanning' = scanning /\ runningWorkers' \in {runningWorkers, runningWorkers + 1}
      BY <2>3 DEF HandleProgress, CountProgress, LaunchWorker
    <3> QED
      BY <1>1, <2>2, <3>1
  <2>4. CASE HandleDirFinished
    <3>1. /\ runningWorkers' = runningWorkers
          /\ ~(ScanIsComplete /\ runningWorkers = 0)
          /\ scanning' = IF ScanIsComplete THEN FALSE ELSE scanning
      BY <2>4 DEF HandleDirFinished, CountDirFinish, EmitFinished
    <3> QED
      BY <1>1, <2>2, <3>1
  <2>5. CASE HandleFileFinished
    <3>1. /\ runningWorkers' = runningWorkers - 1 /\ scanning' = scanning
          /\ ~(runningWorkers - 1 = 0 /\ ~scanning)
      BY <2>5 DEF HandleFileFinished, scanVars, EmitFinished
    <3> QED
      BY <1>1, <2>2, <3>1
  <2>6. CASE UNCHANGED <<runningWorkers, scanning>>
    BY <2>2, <2>6
  <2> QED
    BY <1>3, <2>3, <2>4, <2>5, <2>6 DEF Next, MainStep, vars, scanVars, jobVars, StopIndexing,
       NextArgument, StartScan, OpenDirectory, NextEntry, AnnounceFirstLevel, SpawnOrComplete,
       LaunchFileTargets, HandleResult, LeaveEventLoop, DirWorkerThread, DirWorkerStep,
       mainScanVars, JobStep
<1>4. CASE mainPc # "loop" \/ BeginIndexing
  <2>1. ~BeginIndexing
    BY DEF BeginIndexing
  <2>2. LaunchFileTargets
    BY <1>4, <2>1 DEF Next, MainStep, vars, mainVars, StopIndexing, NextArgument, StartScan,
       OpenDirectory, NextEntry, AnnounceFirstLevel, SpawnOrComplete, HandleProgress,
       HandleDirFinished, HandleResult, HandleFileFinished, Handling, LeaveEventLoop,
       DirWorkerThread, JobStep
  <2> QED
    BY <1>2, <2>2
<1> QED
  BY <1>3, <1>4

LEMMA GoesOnInvariant == Spec => []GoesOnInv
<1>1. Init => GoesOnInv
  <2> SUFFICES ASSUME Init PROVE GoesOnInv
    OBVIOUS
  <2>1. jobs = <<>> /\ dirWorkers = <<>> /\ phase = "idle"
    BY DEF Init, DirScannerInit
  <2>2. DOMAIN jobs = {} /\ DOMAIN dirWorkers = {}
    BY <2>1
  <2> QED
    BY <2>1, <2>2 DEF GoesOnInv, NoUnderflow, FoundFits, SomethingRuns, EndsComing
<1>2. TypeOK /\ JobsInv /\ QueuesInv /\ GoesOnInv /\ [Next]_vars => GoesOnInv'
  BY NextUnderflow, NextFits, NextComing, NextRuns DEF GoesOnInv
<1> QED
  BY <1>1, <1>2, FinishInvariant, PTL DEF Spec

\* While the main thread fills the queues nobody takes from them: what it has still to put
\* into one and what is in it are together what the arguments list for it.
FilledQueue(k) == CASE k = "files" -> fileTargets [] k = "results" -> results [] OTHER -> targets
FilledAlready(k) == Len(FilledQueue(k).items)
ToFill(k) ==
    CASE mainPc = "arguments" -> Weigh(ListedAt(k), todo) + Weigh(ListedIn(k), dirs)
      [] mainPc = "list" -> Weigh(ListedIn(k), todo) + Weigh(Listed(k), entries)
      [] OTHER -> 0
FilledNow == CASE mainPc = "arguments" -> {"files", "results", "targets"}
               [] mainPc = "list" -> {"results", "targets"}
               [] OTHER -> {}
FillInv ==
    /\ runs = 1 => \A k \in FilledNow : ToFill(k) + FilledAlready(k) = FilledAtFirst(k)
    /\ runs <= 1 /\ (runs = 0 \/ mainPc = "arguments") => targets = EmptyQueue
    /\ runs <= 1 /\ mainPc = "list" => targets.avail + Len(targets.items) = 2 * QueueSize

LEMMA ListedTypes ==
    ASSUME NEW k
    PROVE  /\ Listed(k) \in [Paths -> Nat] /\ ListedIn(k) \in [ArgDirs -> Nat]
           /\ ListedAt(k) \in [Paths -> Nat]
           /\ Listed(k) \in [Paths -> Int] /\ ListedIn(k) \in [ArgDirs -> Int]
           /\ ListedAt(k) \in [Paths -> Int]
<1>1. Listed(k) \in [Paths -> Nat]
  BY DEF Listed
<1>2. ListedIn(k) \in [ArgDirs -> Nat]
  <2>1. \A d \in ArgDirs : Children[d] \in Seq(Paths)
    BY TreeAssumption DEF ArgDirs
  <2>2. \A d \in ArgDirs : Weigh(Listed(k), Children[d]) \in Nat
    BY <1>1, <2>1, Weights
  <2> QED
    BY <2>2 DEF ListedIn
<1>3. ListedAt(k) \in [Paths -> Nat]
  <2>1. \A a \in Paths : (IF a \in Ignored THEN 0
                          ELSE IF a \in DOMAIN Children THEN ListedIn(k)[a]
                          ELSE IF k = "files" THEN 1 ELSE 0) \in Nat
    BY <1>2 DEF ArgDirs
  <2> QED
    BY <2>1 DEF ListedAt
<1> QED
  BY <1>1, <1>2, <1>3, Weights

LEMMA FilledTypes ==
    ASSUME TypeOK, NEW k
    PROVE  FilledAlready(k) \in Nat /\ ToFill(k) \in Nat
<1>1. FilledAlready(k) \in Nat
  <2>1. /\ fileTargets.items \in Seq(Paths) /\ results.items \in Seq(Paths)
        /\ targets.items \in Seq(SubDirs)
    BY DEF TypeOK, QueueOf
  <2>2. Len(fileTargets.items) \in Nat /\ Len(results.items) \in Nat /\ Len(targets.items) \in Nat
    BY <2>1, LenProperties
  <2> QED
    BY <2>2 DEF FilledAlready, FilledQueue
<1>2. ToFill(k) \in Nat
  <2>1. /\ todo \in Seq(Paths) /\ dirs \in Seq(ArgDirs) /\ entries \in Seq(Paths)
        /\ mainPc = "list" => todo \in Seq(ArgDirs)
    BY DEF TypeOK, LoopsHaveWork
  <2>2. /\ Weigh(ListedAt(k), todo) \in Nat /\ Weigh(ListedIn(k), dirs) \in Nat
        /\ Weigh(Listed(k), entries) \in Nat
        /\ mainPc = "list" => Weigh(ListedIn(k), todo) \in Nat
    BY <2>1, ListedTypes, Weights
  <2>3. CASE mainPc = "arguments"
    BY <2>2, <2>3 DEF ToFill
  <2>4. CASE mainPc = "list"
    BY <2>2, <2>4 DEF ToFill
  <2>5. CASE mainPc \notin {"arguments", "list"}
    BY <2>5 DEF ToFill
  <2> QED
    BY <2>3, <2>4, <2>5
<1> QED
  BY <1>1, <1>2

LEMMA FillParts ==
    ASSUME NEW k
    PROVE  /\ mainPc = "arguments" =>
                ToFill(k) = Weigh(ListedAt(k), todo) + Weigh(ListedIn(k), dirs)
           /\ mainPc = "list" => ToFill(k) = Weigh(ListedIn(k), todo) + Weigh(Listed(k), entries)
<1>1. mainPc = "arguments" => ToFill(k) = Weigh(ListedAt(k), todo) + Weigh(ListedIn(k), dirs)
  BY DEF ToFill
<1>2. mainPc = "list" => ToFill(k) = Weigh(ListedIn(k), todo) + Weigh(Listed(k), entries)
  BY DEF ToFill
<1> QED
  BY <1>1, <1>2

LEMMA FillPartsThen ==
    ASSUME NEW CONSTANT k
    PROVE  /\ mainPc' = "arguments" =>
                ToFill(k)' = Weigh(ListedAt(k), todo') + Weigh(ListedIn(k), dirs')
           /\ mainPc' = "list" =>
                ToFill(k)' = Weigh(ListedIn(k), todo') + Weigh(Listed(k), entries')
<1>1. mainPc' = "arguments" =>
        ToFill(k)' = Weigh(ListedAt(k), todo') + Weigh(ListedIn(k), dirs')
  BY DEF ToFill
<1>2. mainPc' = "list" => ToFill(k)' = Weigh(ListedIn(k), todo') + Weigh(Listed(k), entries')
  BY DEF ToFill
<1> QED
  BY <1>1, <1>2

LEMMA QueueLonger ==
    ASSUME NEW T, NEW q \in QueueOf(T), NEW x \in T
    PROVE  /\ Len(q.items) \in Nat /\ q.avail \in Int
           /\ Len(EnqueueOne(q, x).items) = Len(q.items) + 1
           /\ EnqueueOne(q, x).avail = q.avail - 1
<1>1. q.items \in Seq(T) /\ q.avail \in Int
  BY DEF QueueOf
<1>2. Len(q.items) \in Nat /\ Len(Append(q.items, x)) = Len(q.items) + 1
  BY <1>1, AppendProperties, LenProperties
<1> QED
  BY <1>1, <1>2 DEF EnqueueOne

LEMMA ArgumentFills ==
    ASSUME TypeOK, NextArgument, NEW CONSTANT k \in {"files", "results", "targets"}
    PROVE  ToFill(k)' + FilledAlready(k)' = ToFill(k) + FilledAlready(k)
<1>1. /\ mainPc = "arguments" /\ mainPc' = "arguments" /\ todo # <<>> /\ todo' = Tail(todo)
      /\ UNCHANGED <<targets, results>>
  BY DEF NextArgument, scanVars
<1>2. todo \in Seq(Paths) /\ dirs \in Seq(ArgDirs) /\ fileTargets \in QueueOf(Paths)
  BY DEF TypeOK
<1>3. PICK a \in Paths, rest \in Seq(Paths) : a = Head(todo) /\ rest = Tail(todo)
  BY <1>1, <1>2, HeadTail
<1>4. /\ ListedAt(k) \in [Paths -> Nat] /\ ListedIn(k) \in [ArgDirs -> Nat]
      /\ ListedIn(k) \in [ArgDirs -> Int] /\ ListedAt(k) \in [Paths -> Int]
  BY ListedTypes
<1>5. Weigh(ListedAt(k), todo) = ListedAt(k)[a] + Weigh(ListedAt(k), rest)
  BY <1>1, <1>2, <1>3, <1>4, WeighTail
<1>6. PICK x, y, z, n \in Nat :
        /\ x = ListedAt(k)[a] /\ y = Weigh(ListedAt(k), rest) /\ z = Weigh(ListedIn(k), dirs)
        /\ n = FilledAlready(k)
  BY <1>2, <1>3, <1>4, Weights, FilledTypes
<1>7. ToFill(k) = (x + y) + z /\ ToFill(k)' = y + Weigh(ListedIn(k), dirs')
  BY <1>1, <1>3, <1>5, <1>6, FillParts, FillPartsThen
<1>8. fileTargets' = fileTargets => FilledAlready(k)' = n
  BY <1>1, <1>6 DEF FilledAlready, FilledQueue
<1>9. CASE a \in Ignored
  <2>1. UNCHANGED <<dirs, fileTargets>>
    BY <1>3, <1>9 DEF NextArgument
  <2>2. x = 0
    BY <1>6, <1>9 DEF ListedAt
  <2> QED
    BY <1>6, <1>7, <1>8, <2>1, <2>2
<1>10. CASE a \notin Ignored /\ a \in DOMAIN Children
  <2>1. dirs' = Append(dirs, a) /\ fileTargets' = fileTargets
    BY <1>3, <1>10 DEF NextArgument
  <2>2. a \in ArgDirs
    BY <1>10 DEF ArgDirs
  <2>3. x = ListedIn(k)[a]
    BY <1>6, <1>10 DEF ListedAt
  <2>4. Weigh(ListedIn(k), Append(dirs, a)) = Weigh(ListedIn(k), dirs) + ListedIn(k)[a]
    BY <1>2, <1>4, <2>2, WeighAppend
  <2>5. ToFill(k)' = y + (z + x)
    BY <1>6, <1>7, <2>1, <2>3, <2>4
  <2>6. FilledAlready(k)' = n
    BY <1>8, <2>1
  <2> QED
    BY <1>6, <1>7, <2>5, <2>6
<1>11. CASE a \notin Ignored /\ a \notin DOMAIN Children
  <2>1. dirs' = dirs /\ fileTargets' = EnqueueOne(fileTargets, a)
    BY <1>3, <1>11 DEF NextArgument
  <2>2. x = IF k = "files" THEN 1 ELSE 0
    BY <1>6, <1>11 DEF ListedAt
  <2>3. FilledAlready(k)' = IF k = "files" THEN n + 1 ELSE n
    BY <1>1, <1>2, <1>6, <2>1, QueueLonger DEF FilledAlready, FilledQueue
  <2>4. ToFill(k)' = y + z
    BY <1>6, <1>7, <2>1
  <2>5. CASE k = "files"
    BY <1>6, <1>7, <2>2, <2>3, <2>4, <2>5
  <2>6. CASE k # "files"
    BY <1>6, <1>7, <2>2, <2>3, <2>4, <2>6
  <2> QED
    BY <2>5, <2>6
<1> QED
  BY <1>9, <1>10, <1>11

LEMMA EntryFills ==
    ASSUME TypeOK, NextEntry, NEW CONSTANT k \in {"results", "targets"}
    PROVE  /\ ToFill(k)' + FilledAlready(k)' = ToFill(k) + FilledAlready(k)
           /\ targets'.avail + Len(targets'.items) = targets.avail + Len(targets.items)
<1>1. /\ mainPc = "list" /\ mainPc' = "list" /\ entries # <<>> /\ entries' = Tail(entries)
      /\ todo' = todo /\ ListEntry(Head(entries))
  BY DEF NextEntry
<1>2. /\ entries \in Seq(Paths) /\ todo \in Seq(ArgDirs)
      /\ targets \in QueueOf(SubDirs) /\ results \in QueueOf(Paths)
  BY <1>1 DEF TypeOK, LoopsHaveWork
<1>3. PICK e \in Paths, rest \in Seq(Paths) : e = Head(entries) /\ rest = Tail(entries)
  BY <1>1, <1>2, HeadTail
<1>4. /\ Listed(k) \in [Paths -> Nat] /\ ListedIn(k) \in [ArgDirs -> Nat]
      /\ Listed(k) \in [Paths -> Int]
  BY ListedTypes
<1>5. Weigh(Listed(k), entries) = Listed(k)[e] + Weigh(Listed(k), rest)
  BY <1>1, <1>2, <1>3, <1>4, WeighTail
<1>6. PICK x, y, z, n \in Nat :
        /\ x = Listed(k)[e] /\ y = Weigh(Listed(k), rest) /\ z = Weigh(ListedIn(k), todo)
        /\ n = FilledAlready(k)
  BY <1>2, <1>3, <1>4, Weights, FilledTypes
<1>7. ToFill(k) = z + (x + y) /\ ToFill(k)' = z + y
  BY <1>1, <1>3, <1>5, <1>6, FillParts, FillPartsThen
<1>8. CASE e \in Ignored \cup Links
  <2>1. UNCHANGED <<targets, results>>
    BY <1>1, <1>3, <1>8 DEF ListEntry
  <2>2. x = 0
    BY <1>6, <1>8 DEF Listed
  <2>3. FilledAlready(k)' = n
    BY <1>6, <2>1 DEF FilledAlready, FilledQueue
  <2> QED
    BY <1>6, <1>7, <2>1, <2>2, <2>3
<1>9. CASE e \notin Ignored \cup Links /\ e \in SubDirs
  <2>1. targets' = EnqueueOne(targets, e) /\ results' = results
    BY <1>1, <1>3, <1>9 DEF ListEntry
  <2>2. x = IF k = "targets" THEN 1 ELSE 0
    BY <1>6, <1>9 DEF Listed
  <2>3. FilledAlready(k)' = IF k = "targets" THEN n + 1 ELSE n
    BY <1>2, <1>6, <1>9, <2>1, QueueLonger DEF FilledAlready, FilledQueue
  <2>4. targets'.avail + Len(targets'.items) = targets.avail + Len(targets.items)
    <3>1. PICK m \in Nat, v \in Int : m = Len(targets.items) /\ v = targets.avail
      BY <1>2, <1>9, QueueLonger
    <3>2. targets'.avail = v - 1 /\ Len(targets'.items) = m + 1
      BY <1>2, <1>9, <2>1, <3>1, QueueLonger
    <3> QED
      BY <3>1, <3>2
  <2>5. CASE k = "targets"
    BY <1>6, <1>7, <2>2, <2>3, <2>4, <2>5
  <2>6. CASE k # "targets"
    BY <1>6, <1>7, <2>2, <2>3, <2>4, <2>6
  <2> QED
    BY <2>5, <2>6
<1>10. CASE e \notin Ignored \cup Links /\ e \notin SubDirs
  <2>1. targets' = targets /\ results' = EnqueueOne(results, e)
    BY <1>1, <1>3, <1>10 DEF ListEntry
  <2>2. x = IF k = "results" THEN 1 ELSE 0
    BY <1>6, <1>10 DEF Listed
  <2>3. FilledAlready(k)' = IF k = "results" THEN n + 1 ELSE n
    BY <1>2, <1>6, <2>1, QueueLonger DEF FilledAlready, FilledQueue
  <2>5. CASE k = "results"
    BY <1>6, <1>7, <2>1, <2>2, <2>3, <2>5
  <2>6. CASE k # "results"
    BY <1>6, <1>7, <2>1, <2>2, <2>3, <2>6
  <2> QED
    BY <2>5, <2>6
<1> QED
  BY <1>8, <1>9, <1>10

LEMMA OpenFills ==
    ASSUME TypeOK, OpenDirectory, NEW CONSTANT k
    PROVE  ToFill(k)' + FilledAlready(k)' = ToFill(k) + FilledAlready(k)
<1>1. /\ mainPc = "list" /\ mainPc' = "list" /\ entries = <<>> /\ todo # <<>>
      /\ entries' = Children[Head(todo)] /\ todo' = Tail(todo)
      /\ UNCHANGED <<fileTargets, targets, results>>
  BY DEF OpenDirectory, scanVars, jobVars
<1>2. todo \in Seq(ArgDirs) /\ ListedIn(k) \in [ArgDirs -> Nat] /\ ListedIn(k) \in [ArgDirs -> Int]
  BY <1>1, ListedTypes DEF TypeOK, LoopsHaveWork
<1>3. /\ Head(todo) \in ArgDirs /\ Tail(todo) \in Seq(ArgDirs)
      /\ Weigh(ListedIn(k), todo) = ListedIn(k)[Head(todo)] + Weigh(ListedIn(k), Tail(todo))
  BY <1>1, <1>2, WeighTail
<1>4. PICK y, n \in Nat : y = Weigh(ListedIn(k), Tail(todo)) /\ n = FilledAlready(k)
  BY <1>2, <1>3, Weights, FilledTypes
<1>5. PICK s \in Seq(Paths) : s = Children[Head(todo)]
  BY <1>3, TreeAssumption DEF ArgDirs
<1>6. PICK x \in Nat : x = Weigh(Listed(k), s)
  BY ListedTypes, Weights
<1>7. ListedIn(k)[Head(todo)] = x
  BY <1>3, <1>5, <1>6 DEF ListedIn
<1>8. ToFill(k) = (x + y) + 0
  <2>1. Weigh(Listed(k), entries) = 0
    BY <1>1, WeighEmpty
  <2> QED
    BY <1>1, <1>3, <1>4, <1>7, <2>1, FillParts
<1>9. ToFill(k)' = y + x
  BY <1>1, <1>4, <1>5, <1>6, FillPartsThen
<1>10. FilledAlready(k)' = n
  BY <1>1, <1>4 DEF FilledAlready, FilledQueue
<1> QED
  BY <1>4, <1>6, <1>8, <1>9, <1>10

LEMMA BeginFills ==
    ASSUME TypeOK, QueuesInv, PlacesInv, FillInv, BeginIndexing
    PROVE  FillInv'
<1>1. /\ mainPc' = "arguments" /\ todo' = Args /\ runs' = runs + 1 /\ runs \in Nat
      /\ UNCHANGED <<dirs, targets, results, fileTargets>>
  BY DEF BeginIndexing, scanVars, TypeOK
<1>2. CASE runs # 0
  <2>1. ~(runs' <= 1) /\ runs' # 1
    BY <1>1, <1>2
  <2> QED
    BY <2>1 DEF FillInv
<1>3. CASE runs = 0
  <2>1. /\ dirs = <<>> /\ fileTargets.items = <<>> /\ results = EmptyQueue /\ targets = EmptyQueue
    BY <1>3 DEF PlacesInv, NothingGiven, QueuesInv, StagesInv, FillInv
  <2>2. ASSUME NEW k \in FilledNow' PROVE ToFill(k)' + FilledAlready(k)' = FilledAtFirst(k)
    <3>1. k \in {"files", "results", "targets"}
      BY <1>1, <2>2 DEF FilledNow
    <3>2. ToFill(k)' = Weigh(ListedAt(k), Args) + Weigh(ListedIn(k), <<>>)
      BY <1>1, <2>1 DEF ToFill
    <3>3. Weigh(ListedIn(k), <<>>) = 0
      BY WeighEmpty
    <3>4. FilledAlready(k)' = 0
      <4>1. Len(<<>>) = 0
        OBVIOUS
      <4> QED
        BY <1>1, <2>1, <3>1, <4>1 DEF FilledAlready, FilledQueue, EmptyQueue
    <3>5. Weigh(ListedAt(k), Args) \in Nat
      BY ListedTypes, Weights, TreeAssumption
    <3> QED
      BY <3>2, <3>3, <3>4, <3>5 DEF FilledAtFirst
  <2> QED
    BY <1>1, <2>1, <2>2 DEF FillInv
<1> QED
  BY <1>2, <1>3

LEMMA StartScanFills ==
    ASSUME TypeOK, QueuesInv, EntriesListed, FillInv, StartScan, runs # 0
    PROVE  FillInv'
<1>1. mainPc = "arguments" /\ todo = <<>> /\ runs' = runs /\ runs \in Nat
  BY DEF StartScan, clickVars, TypeOK
<1>2. CASE dirs = <<>>
  <2>2. FilledNow' = {} /\ UNCHANGED <<targets>>
    BY <1>2 DEF StartScan, FilledNow, scanVars
  <2>3. mainPc' = "launch"
    BY <1>2 DEF StartScan
  <2> QED
    BY <1>1, <2>2, <2>3 DEF FillInv
<1>3. CASE dirs # <<>> /\ runs <= 1
  <2>1. /\ mainPc' = "list" /\ todo' = dirs /\ UNCHANGED <<fileTargets, entries>>
        /\ targets' = Clear(targets) /\ results' = Clear(results)
    BY <1>3 DEF StartScan, BeginScan, jobVars
  <2>2. targets = EmptyQueue /\ results = EmptyQueue /\ entries = <<>>
    BY <1>1, <1>3 DEF FillInv, QueuesInv, StagesInv, EntriesListed
  <2>3. targets' = [items |-> <<>>, avail |-> QueueSize + QueueSize] /\ results'.items = <<>>
    BY <2>1, <2>2 DEF Clear, EmptyQueue
  <2>4. targets'.avail + Len(targets'.items) = 2 * QueueSize
    BY <2>3, QueueSizeAssumption
  <2>5. ASSUME runs = 1, NEW k \in FilledNow'
        PROVE  ToFill(k)' + FilledAlready(k)' = FilledAtFirst(k)
    <3>1. k \in {"results", "targets"} /\ k \in FilledNow
      BY <1>1, <2>1, <2>5 DEF FilledNow
    <3>2. ToFill(k) = Weigh(ListedAt(k), todo) + Weigh(ListedIn(k), dirs)
      BY <1>1, FillParts
    <3>3. ToFill(k)' = Weigh(ListedIn(k), dirs) + Weigh(Listed(k), <<>>)
      BY <2>1, <2>2, FillPartsThen
    <3>4. Weigh(ListedAt(k), todo) = 0 /\ Weigh(Listed(k), <<>>) = 0
      BY <1>1, WeighEmpty
    <3>5. FilledAlready(k)' = 0 /\ FilledAlready(k) = 0
      <4>1. Len(<<>>) = 0
        OBVIOUS
      <4> QED
        BY <2>2, <2>3, <3>1, <4>1 DEF FilledAlready, FilledQueue, EmptyQueue
    <3>6. ToFill(k) + FilledAlready(k) = FilledAtFirst(k)
      BY <2>5, <3>1 DEF FillInv
    <3>7. Weigh(ListedIn(k), dirs) \in Nat
      BY ListedTypes, Weights DEF TypeOK
    <3> QED
      BY <3>2, <3>3, <3>4, <3>5, <3>6, <3>7
  <2> QED
    BY <1>1, <2>1, <2>4, <2>5 DEF FillInv
<1>4. CASE ~(runs <= 1)
  BY <1>1, <1>4 DEF FillInv
<1> QED
  BY <1>2, <1>3, <1>4

LEMMA NextFill ==
    ASSUME TypeOK, JobsInv, QueuesInv, PlacesInv, FillInv, [Next]_vars
    PROVE  FillInv'
<1>1. CASE UNCHANGED vars
  BY <1>1 DEF FillInv, FilledNow, ToFill, FilledAlready, FilledQueue, vars, scanVars, jobVars,
     mainVars
<1>2. CASE BeginIndexing
  BY <1>2, BeginFills
<1>3. CASE StartScan
  <2>1. ~UNCHANGED vars /\ ~BeginIndexing
    BY <1>3 DEF StartScan, BeginIndexing, vars, mainVars
  <2>2. runs # 0
    BY <2>1, FirstIsBegin
  <2> QED
    BY <1>3, <2>2, StartScanFills DEF PlacesInv
<1>4. CASE NextArgument \/ OpenDirectory \/ NextEntry
  <2>1. /\ mainPc' = mainPc /\ runs' = runs /\ mainPc \in {"arguments", "list"}
        /\ mainPc = "arguments" => targets' = targets
    BY <1>4 DEF NextArgument, OpenDirectory, NextEntry, clickVars, scanVars
  <2>2. FilledNow' = FilledNow /\ FilledNow \subseteq {"files", "results", "targets"}
    BY <2>1 DEF FilledNow
  <2>3. ASSUME NEW CONSTANT k, k \in FilledNow
        PROVE  ToFill(k)' + FilledAlready(k)' = ToFill(k) + FilledAlready(k)
    <3>1. CASE NextArgument
      BY <2>2, <2>3, <3>1, ArgumentFills
    <3>2. CASE OpenDirectory
      BY <3>2, OpenFills
    <3>3. CASE NextEntry
      <4>1. k \in {"results", "targets"}
        BY <2>3, <3>3 DEF NextEntry, FilledNow
      <4> QED
        BY <3>3, <4>1, EntryFills
    <3> QED
      BY <1>4, <3>1, <3>2, <3>3
  <2>4. mainPc = "list" =>
          targets'.avail + Len(targets'.items) = targets.avail + Len(targets.items)
    <3>1. CASE NextEntry
      BY <3>1, EntryFills
    <3>2. CASE OpenDirectory
      BY <3>2 DEF OpenDirectory, scanVars
    <3> QED
      BY <1>4, <3>1, <3>2 DEF NextArgument
  <2>5. UNCHANGED vars \/ runs # 0
    <3>1. ~BeginIndexing
      BY <2>1 DEF BeginIndexing
    <3> QED
      BY <3>1, FirstIsBegin
  <2>6. ASSUME NEW CONSTANT k, k \in FilledNow, runs = 1
        PROVE  ToFill(k)' + FilledAlready(k)' = FilledAtFirst(k)
    <3>1. ToFill(k)' + FilledAlready(k)' = ToFill(k) + FilledAlready(k)
      BY <2>3, <2>6
    <3>2. ToFill(k) + FilledAlready(k) = FilledAtFirst(k)
      BY <2>6 DEF FillInv
    <3> QED
      BY <3>1, <3>2
  <2>7. runs = 1 => \A k \in FilledNow' : ToFill(k)' + FilledAlready(k)' = FilledAtFirst(k)
    BY <2>2, <2>6
  <2>8. runs <= 1 /\ mainPc' = "list" => targets'.avail + Len(targets'.items) = 2 * QueueSize
    BY <2>1, <2>4 DEF FillInv
  <2>9. runs <= 1 /\ mainPc' = "arguments" => targets' = EmptyQueue
    BY <2>1 DEF FillInv
  <2> QED
    BY <1>1, <2>1, <2>5, <2>7, <2>8, <2>9 DEF FillInv
<1>5. CASE /\ Next /\ ~BeginIndexing /\ ~StartScan
           /\ ~NextArgument /\ ~OpenDirectory /\ ~NextEntry
  <2>1. CASE runs <= 1
    <3>1. runs # 0 \/ UNCHANGED vars
      BY <1>5, FirstIsBegin
    <3>2. runs' = runs
      BY <1>5, StepKeepsRun
    <3>3. CASE mainPc \in {"arguments", "list"}
      <4>1. jobs = <<>> /\ dirWorkers = <<>>
        BY <2>1, <3>3 DEF QueuesInv, StagesInv, Nothing
      <4>2. DOMAIN jobs = {} /\ DOMAIN dirWorkers = {}
        BY <4>1
      <4>3. mainPc' \notin {"arguments", "list"}
        BY <1>5, <3>3, <4>2 DEF Next, MainStep, StopIndexing, AnnounceFirstLevel, SpawnOrComplete,
           LaunchFileTargets, HandleProgress, HandleDirFinished, HandleResult, HandleFileFinished,
           Handling, LeaveEventLoop
      <4> QED
        BY <3>1, <3>2, <4>3, <1>1 DEF FillInv, FilledNow
    <3>4. CASE mainPc \notin {"arguments", "list"}
      <4>1. mainPc' \notin {"arguments", "list"}
        BY <1>5, <3>4 DEF Next, MainStep, StopIndexing, AnnounceFirstLevel, SpawnOrComplete,
           LaunchFileTargets, HandleProgress, HandleDirFinished, HandleResult, HandleFileFinished,
           Handling, LeaveEventLoop, DirWorkerThread, JobStep, mainVars
      <4> QED
        BY <3>1, <3>2, <4>1, <1>1 DEF FillInv, FilledNow
    <3> QED
      BY <3>3, <3>4
  <2>2. CASE ~(runs <= 1)
    <3>1. runs' = runs /\ runs \in Nat
      BY <1>5, StepKeepsRun DEF TypeOK
    <3> QED
      BY <2>2, <3>1 DEF FillInv
  <2> QED
    BY <2>1, <2>2
<1> QED
  BY <1>1, <1>2, <1>3, <1>4, <1>5

\* A pool none of whose threads is busy starts the oldest of those that wait for it.
LEMMA OldestStarts ==
    ASSUME NEW T, NEW s \in Seq(T), NEW size \in Nat, size > 0,
           \A i \in DOMAIN s : s[i].pc \in {"queued", "done"},
           \A i \in DOMAIN s : s[i].pc = "queued" => ~NextToStart(s, i, size)
    PROVE  \A i \in DOMAIN s : s[i].pc = "done"
<1> DEFINE Waiting == {i \in DOMAIN s : s[i].pc = "queued"}
<1>1. DOMAIN s = 1..Len(s) /\ Len(s) \in Nat
  BY LenProperties
<1>2. Busy(s) = 0
  <2>1. {i \in DOMAIN s : s[i].pc \notin {"queued", "posted", "done"}} = {}
    OBVIOUS
  <2> QED
    BY <2>1, FS_EmptySet DEF Busy
<1>3. CASE Waiting # {}
  <2>1. Waiting \subseteq Nat
    BY <1>1
  <2> HIDE DEF Waiting
  <2>2. PICK m \in Waiting : \A n \in Waiting : m <= n
    BY <1>3, <2>1, LeastNatural
  <2> USE DEF Waiting
  <2>3. \A k \in 1..(m - 1) : s[k].pc # "queued"
    BY <1>1, <2>2
  <2>4. NextToStart(s, m, size)
    BY <1>2, <2>3 DEF NextToStart
  <2> QED
    BY <2>2, <2>4
<1>4. CASE Waiting = {}
  BY <1>4
<1> QED
  BY <1>3, <1>4

LEMMA FillInvariant ==
    Spec => [](TypeOK /\ JobsInv /\ EndsInv /\ QueuesInv /\ FinishInv /\ PlacesInv /\ FillInv)
<1>1. Init => PlacesInv
  BY InitHeld
<1>2. Init => FillInv
  BY DEF Init, DirScannerInit, FillInv
<1>3. TypeOK /\ JobsInv /\ EndsInv /\ QueuesInv /\ PlacesInv /\ [Next]_vars => PlacesInv'
  BY NextPlaces
<1>4. TypeOK /\ JobsInv /\ QueuesInv /\ PlacesInv /\ FillInv /\ [Next]_vars => FillInv'
  BY NextFill
<1> QED
  BY <1>1, <1>2, <1>3, <1>4, FinishInvariant, PTL DEF Spec

\* Nothing heavier than the whole of a queue is still to be put into it.
LEMMA HeadFills ==
    ASSUME NEW S, NEW g \in [S -> Nat], NEW s \in Seq(S), s # <<>>, g[Head(s)] = 1
    PROVE  Weigh(g, s) \in Nat /\ Weigh(g, s) >= 1
<1>1. g \in [S -> Int]
  BY Weights
<1>2. Tail(s) \in Seq(S) /\ Weigh(g, s) = g[Head(s)] + Weigh(g, Tail(s))
  BY <1>1, WeighTail
<1>3. Weigh(g, Tail(s)) \in Nat
  BY <1>2, Weights
<1> QED
  BY <1>2, <1>3

LEMMA NoneCollects ==
    ASSUME TypeOK, NEW pcs \in {Announcing, Reserving, {"append", "lastAppend"}},
           \A w \in DOMAIN dirWorkers : dirWorkers[w].pc \notin pcs
    PROVE  Sum(Collected(pcs)) = 0
<1> DEFINE g == Collections(pcs)
<1>1. dirWorkers \in Seq(DirWorker) /\ g \in [DirWorker -> Int]
  BY WeightTypes DEF TypeOK
<1>2. ASSUME NEW w \in DOMAIN dirWorkers PROVE g[dirWorkers[w]] = 0
  <2>1. dirWorkers[w] \in DirWorker /\ dirWorkers[w].pc \notin pcs
    BY WorkerAt
  <2> QED
    BY <2>1 DEF Collections, Collection
<1>3. Sum(Collected(pcs)) = Weigh(g, dirWorkers)
  BY <1>1, CollectionsWeigh DEF Collected
<1> HIDE DEF g
<1> QED
  BY <1>1, <1>2, <1>3, WeighNaturals

\* There is room for what the main thread puts into a queue.
LEMMA FillingMoves ==
    ASSUME TypeOK, QueuesInv, PlacesInv, FillInv, QueuesFit, runs = 1
    PROVE  /\ Fills("files") => CanAcquire(fileTargets, 1)
           /\ Fills("results") => CanAcquire(results, 1)
           /\ Fills("targets") => CanAcquire(targets, 1)
<1>1. /\ QueueSize \in Nat /\ Len(results.items) \in Nat /\ Len(fileTargets.items) \in Nat
      /\ results.avail \in Int /\ fileTargets.avail \in Int
  BY BalanceTypes
<1>2. targets.avail \in Int /\ Len(targets.items) \in Nat
  <2>1. targets.items \in Seq(SubDirs) /\ targets.avail \in Int
    BY DEF TypeOK, QueueOf
  <2> QED
    BY <2>1, LenProperties
<1>3. ASSUME mainPc \in {"arguments", "list"}
      PROVE  Freed("files") = 0 /\ Freed("results") = 0 /\ ReservedResults = 0
  <2>1. jobs = <<>> /\ dirWorkers = <<>>
    BY <1>3 DEF QueuesInv, StagesInv, Nothing
  <2>2. Freed("files") = 0 /\ Freed("results") = 0
    BY <2>1, NoneWaiting
  <2>3. DOMAIN dirWorkers = {}
    BY <2>1
  <2>4. ReservedResults = 0
    BY <2>3, NoneCollects DEF ReservedResults
  <2> QED
    BY <2>2, <2>4
<1>4. ASSUME Fills("files") PROVE CanAcquire(fileTargets, 1)
  <2>1. /\ mainPc = "arguments" /\ todo # <<>> /\ Head(todo) \notin Ignored \cup DOMAIN Children
        /\ todo \in Seq(Paths) /\ dirs \in Seq(ArgDirs)
    BY <1>4 DEF Fills, TypeOK
  <2>2. Head(todo) \in Paths
    BY <2>1, HeadTail
  <2>3. ListedAt("files")[Head(todo)] = 1
    BY <2>1, <2>2 DEF ListedAt
  <2>4. Weigh(ListedAt("files"), todo) \in Nat /\ Weigh(ListedAt("files"), todo) >= 1
    BY <2>1, <2>3, ListedTypes, HeadFills
  <2>5. Weigh(ListedIn("files"), dirs) \in Nat
    BY <2>1, ListedTypes, Weights
  <2>6. ToFill("files") + FilledAlready("files") = FilledAtFirst("files")
    BY <2>1 DEF FillInv, FilledNow
  <2>7. FilledAlready("files") = Len(fileTargets.items)
    BY DEF FilledAlready, FilledQueue
  <2>8. PICK t \in Nat : t = ToFill("files") /\ t >= 1
    BY <2>1, <2>4, <2>5, FillParts
  <2>9. t + Len(fileTargets.items) <= QueueSize
    BY <2>6, <2>7, <2>8 DEF QueuesFit
  <2>10. fileTargets.avail + Len(fileTargets.items) = QueueSize
    BY <1>1, <1>3, <2>1 DEF QueuesInv, PermitsInv, FilePermits
  <2> QED
    BY <1>1, <2>8, <2>9, <2>10 DEF CanAcquire
<1>5. ASSUME NEW k \in {"results", "targets"}, Fills(k)
      PROVE  /\ mainPc = "list"
             /\ \E t \in Nat : t >= 1 /\ t + FilledAlready(k) <= 2 * QueueSize
  <2>1. /\ mainPc = "list" /\ entries # <<>> /\ Head(entries) \notin Ignored \cup Links
        /\ k = IF Head(entries) \in SubDirs THEN "targets" ELSE "results"
        /\ entries \in Seq(Paths) /\ todo \in Seq(ArgDirs)
    BY <1>5 DEF Fills, TypeOK, LoopsHaveWork
  <2>2. Head(entries) \in Paths
    BY <2>1, HeadTail
  <2>3. Listed(k)[Head(entries)] = 1
    BY <2>1, <2>2 DEF Listed
  <2>4. Weigh(Listed(k), entries) \in Nat /\ Weigh(Listed(k), entries) >= 1
    BY <2>1, <2>3, ListedTypes, HeadFills
  <2>5. Weigh(ListedIn(k), todo) \in Nat
    BY <2>1, ListedTypes, Weights
  <2>6. ToFill(k) + FilledAlready(k) = FilledAtFirst(k)
    BY <1>5, <2>1 DEF FillInv, FilledNow
  <2>7. ToFill(k) \in Nat /\ ToFill(k) >= 1
    BY <2>1, <2>4, <2>5, FillParts
  <2>8. FilledAtFirst(k) <= 2 * QueueSize
    BY <1>5 DEF QueuesFit
  <2> QED
    BY <2>1, <2>6, <2>7, <2>8
<1>6. PICK q \in Nat : q = 2 * QueueSize
  BY <1>1
<1>7. ASSUME Fills("results") PROVE CanAcquire(results, 1)
  <2>1. mainPc = "list" /\ \E t \in Nat : t >= 1 /\ t + FilledAlready("results") <= 2 * QueueSize
    BY <1>5, <1>7
  <2>2. FilledAlready("results") = Len(results.items)
    BY DEF FilledAlready, FilledQueue
  <2>3. results.avail + Len(results.items) = q
    <3>1. paths # <<>> /\ runs <= 1
      BY <2>1 DEF QueuesInv, StagesInv
    <3>2. ResultPermits = q
      BY <1>6, <3>1 DEF QueuesInv, PermitsInv
    <3> QED
      BY <1>1, <1>3, <2>1, <3>2 DEF ResultPermits
  <2> QED
    BY <1>1, <1>6, <2>1, <2>2, <2>3 DEF CanAcquire
<1>8. ASSUME Fills("targets") PROVE CanAcquire(targets, 1)
  <2>1. mainPc = "list" /\ \E t \in Nat : t >= 1 /\ t + FilledAlready("targets") <= 2 * QueueSize
    BY <1>5, <1>8
  <2>2. FilledAlready("targets") = Len(targets.items)
    BY DEF FilledAlready, FilledQueue
  <2>3. targets.avail + Len(targets.items) = q
    BY <1>6, <2>1 DEF FillInv
  <2> QED
    BY <1>2, <1>6, <2>1, <2>2, <2>3 DEF CanAcquire
<1> QED
  BY <1>4, <1>7, <1>8

\* The first run of a window or of the command never stops before it is finished while nobody
\* stops it: no thread waits for another that waits for it, no count is short of the one that
\* ends the run, and no job waits for elements that do not come, however large the tree and the
\* pools, if the queues have room for what is put into them before the first job is launched
\* (indexer.cpp:50,87-94,161-169, paralleldirscanner.cpp:45,90-110, dirscanworker.cpp:54).
THEOREM FirstRunNeverStuck == Spec => []NeverStuck
<1>1. /\ TypeOK /\ JobsInv /\ EndsInv /\ QueuesInv /\ FinishInv /\ PlacesInv /\ FillInv
      /\ GoesOnInv
      => NeverStuck
  <2> SUFFICES ASSUME TypeOK, JobsInv, EndsInv, QueuesInv, FinishInv, PlacesInv, FillInv,
                      GoesOnInv, QueuesFit, runs = 1, phase = "indexing", ~stopToken,
                      ~MainCanMove,
                      \A w \in DOMAIN dirWorkers : ~DirWorkerCanMove(w),
                      \A j \in DOMAIN jobs : ~JobCanMove(j)
               PROVE  FALSE
    BY DEF NeverStuck
  <2>1. mainPc = "loop" /\ events = <<>>
    BY FillingMoves DEF MainCanMove
  <2>2. /\ \A j \in DOMAIN jobs : jobs[j].pc \notin {"posted", "underflow"}
        /\ \A w \in DOMAIN dirWorkers : dirWorkers[w].pc # "posted"
    <3>1. DOMAIN events = {}
      BY <2>1
    <3> QED
      BY <3>1 DEF GoesOnInv, EndsComing, NoUnderflow
  <2>3. \A j \in DOMAIN jobs : jobs[j].pc = "done"
    <3>1. \A j \in DOMAIN jobs : jobs[j].pc \in {"queued", "done"}
      BY <2>2 DEF JobCanMove, AtJob
    <3>2. \A j \in DOMAIN jobs : jobs[j].pc = "queued" => ~NextToStart(jobs, j, PoolThreads)
      BY <2>2 DEF JobCanMove, AtJob
    <3>3. jobs \in Seq(Job) /\ PoolThreads \in Nat /\ PoolThreads > 0
      BY IndexerAssumption DEF TypeOK
    <3> QED
      BY <3>1, <3>2, <3>3, OldestStarts
  <2>4. scanning
    <3>1. LiveJobs = {}
      BY <2>3 DEF LiveJobs
    <3>2. runningWorkers = 0
      BY <3>1, FS_EmptySet DEF JobsInv, RunningWorkersExact
    <3> QED
      BY <2>1, <3>2 DEF GoesOnInv, SomethingRuns
  <2>5. /\ Len(dirWorkers) = ThreadsNum /\ finishedWorkers = Cardinality(DoneWorkers)
        /\ finishedWorkers # ThreadsNum
    BY <2>1, <2>4 DEF FinishInv, ScanInv, ScanCount, ScanRuns
  <2>6. dirWorkers \in Seq(DirWorker) /\ Len(dirWorkers) \in Nat /\ DOMAIN dirWorkers = 1..Len(dirWorkers)
    BY LenProperties DEF TypeOK
  <2>7. PICK w \in DOMAIN dirWorkers : dirWorkers[w].pc # "done"
    <3>1. CASE \A v \in DOMAIN dirWorkers : dirWorkers[v].pc = "done"
      <4>1. DoneWorkers = 1..Len(dirWorkers)
        BY <2>6, <3>1 DEF DoneWorkers
      <4>2. Cardinality(DoneWorkers) = Len(dirWorkers)
        <5>1. PICK n \in Nat : n = Len(dirWorkers)
          BY <2>6
        <5>2. Cardinality(1..n) = n
          BY FS_Interval
        <5> QED
          BY <4>1, <5>1, <5>2
      <4> QED
        BY <2>5, <4>2
    <3> QED
      BY <3>1
  <2>8. ScanThreads \in Nat /\ ScanThreads > 0 /\ paths # <<>>
    <3>1. Len(dirWorkers) > 0
      BY <2>6, <2>7
    <3>2. paths \in Seq(ArgDirs) /\ Len(paths) \in Nat
      BY LenProperties DEF TypeOK
    <3>3. ScanThreads \in Nat
      BY TreeAssumption
    <3>4. ScanThreads > 0 /\ Len(paths) > 0
      BY <2>5, <3>1, <3>2, <3>3 DEF ThreadsNum
    <3> QED
      BY <3>2, <3>3, <3>4
  <2>9. PICK v \in DOMAIN dirWorkers :
          /\ dirWorkers[v].pc \in {"acquire", "lastAcquire"}
          /\ ~CanAcquire(results, Len(dirWorkers[v].found))
    <3>1. CASE \A v \in DOMAIN dirWorkers :
                 ~(/\ dirWorkers[v].pc \in {"acquire", "lastAcquire"}
                   /\ ~CanAcquire(results, Len(dirWorkers[v].found)))
      <4>1. \A v \in DOMAIN dirWorkers :
              /\ dirWorkers[v].pc \in {"queued", "done"}
              /\ dirWorkers[v].pc = "queued" => ~NextToStart(dirWorkers, v, ScanThreads)
        BY <2>2, <3>1 DEF DirWorkerCanMove, AtDir
      <4>2. \A v \in DOMAIN dirWorkers : dirWorkers[v].pc = "done"
        BY <2>6, <2>8, <4>1, OldestStarts
      <4> QED
        BY <2>7, <4>2
    <3> QED
      BY <3>1
  <2>10. \A u \in DOMAIN dirWorkers :
           dirWorkers[u].pc \in {"queued", "acquire", "lastAcquire", "done"}
    BY <2>2 DEF DirWorkerCanMove, AtDir
  <2>11. Claimed("results") = 0 /\ Freed("results") = 0
    BY <2>3, NoneWaiting
  <2>12. Sum(Collected(Announcing)) = 0 /\ ReservedResults = 0
    BY <2>10, NoneCollects DEF ReservedResults, Announcing
  <2>13. AnnouncedByEvents = 0
    <3>1. events \in Seq(AnyEvent) /\ DOMAIN events = {}
      BY <2>1 DEF TypeOK, AnyEvent
    <3>2. Counts \in [AnyEvent -> Int]
      BY WeightTypes
    <3>3. Weigh(Counts, events) = 0
      BY <2>1, WeighEmpty
    <3> QED
      BY <3>1, <3>3, CountsWeigh DEF AnnouncedByEvents, Announced
  <2>14. AboutToBeAnnounced = 0
    BY <2>1, <2>12, BalanceTypes
  <2>15. /\ QueueSize \in Nat /\ Len(results.items) \in Nat /\ results.avail \in Int
    BY BalanceTypes
  <2>16. Len(results.items) = 0
    BY <2>11, <2>13, <2>14, <2>15 DEF QueuesInv, PromisesInv, SpareResults
  <2>17. PICK q \in Nat : q = 2 * QueueSize
    BY <2>15
  <2>18. results.avail = q
    <3>1. ResultPermits = q
      BY <2>8, <2>17 DEF QueuesInv, PermitsInv
    <3> QED
      BY <2>11, <2>12, <2>15, <2>16, <3>1 DEF ResultPermits
  <2>19. Len(dirWorkers[v].found) <= q
    <3>1. Len(dirWorkers[v].found) \in Nat
      BY WorkerAt
    <3>2. Len(dirWorkers[v].found) <= Threshold /\ Threshold <= q /\ Threshold \in Nat
      BY <2>17, TreeAssumption DEF GoesOnInv, FoundFits, QueuesFit
    <3> QED
      BY <3>1, <3>2
  <2>20. Len(dirWorkers[v].found) \in Nat
    BY WorkerAt
  <2> QED
    BY <2>9, <2>15, <2>18, <2>19, <2>20 DEF CanAcquire
<1> QED
  BY <1>1, FillInvariant, GoesOnInvariant, PTL
=============================================================================
