---------------------------- MODULE UpkeepProofs ----------------------------
(***************************************************************************)
(* However many threads save files, whatever happens to the files on the   *)
(* disk and whenever the process dies: a row of the index that looks up to *)
(* date has the text of this version of its file.                          *)
(*                                                                         *)
(* sync and looqs delete page through the table they change.  For tables,  *)
(* pages, pools and options of any size: a sync that nothing disturbs      *)
(* leaves every row it has visited in agreement with its file, its dry run *)
(* tells of all rows that are not, and looqs delete leaves no row it was   *)
(* asked to remove.                                                        *)
(***************************************************************************)
EXTENDS IndexUpkeep, OrderLemmas, TLAPS

StoreInv == SaverTypeOK /\ StampsInv /\ UpToDateMeansIndexed

\* A task inside saveFile or on its way there is a Task record, one with a result an
\* Answer record.
LEMMA TaskShape ==
    ASSUME SaverTypeOK, NEW w \in Workers
    PROVE  /\ InFile(task[w]) => task[w] \in Task
           /\ task[w].pc = "answer" => task[w] \in Answer
BY DEF SaverTypeOK, InFile, Task, Answer, Idle

\* The initial index is one of files that have not gone back in time.
LEMMA StoreInit == Init => StoreInv
<1> SUFFICES ASSUME Init PROVE StoreInv
  OBVIOUS
<1>0. /\ disk \in [Paths -> Stat]
      /\ MaxMtime \in Nat \ {0}
      /\ MaxSame \in Nat \ {0}
  BY UpkeepAssumption, StoreAssumption DEF Init
<1>1. PICK index \in Indexes :
        /\ rows = {[id |-> i, path |-> index[i].path, mtime |-> 1, type |-> index[i].type] :
                     i \in DOMAIN index}
        /\ content = {[fileid |-> i, path |-> index[i].path, mtime |-> 1, nth |-> 1] :
                        i \in {k \in DOMAIN index : index[k].type = "c"}}
  BY DEF Init
<1>2. /\ DOMAIN index \subseteq Nat \ {0}
      /\ \A i \in DOMAIN index : index[i].path \in Paths /\ index[i].type \in {"c", "f", "d"}
      /\ \A i, k \in DOMAIN index : index[i].path = index[k].path => i = k
  <2>1. index \in Seq([path : Paths, type : {"c", "f", "d"}])
    BY UpkeepAssumption
  <2>2. DOMAIN index \subseteq Nat \ {0}
    BY <2>1
  <2>3. \A i \in DOMAIN index : index[i] \in [path : Paths, type : {"c", "f", "d"}]
    <3> DEFINE Entries == [path : Paths, type : {"c", "f", "d"}]
    <3>1. index \in Seq(Entries)
      BY <2>1
    <3> HIDE DEF Entries
    <3>2. \A i \in DOMAIN index : index[i] \in Entries
      BY <3>1
    <3> QED
      BY <3>2 DEF Entries
  <2>4. \A i, k \in DOMAIN index : index[i].path = index[k].path => i = k
    BY UpkeepAssumption
  <2> QED
    BY <2>2, <2>3, <2>4
<1>3. StoreTypeOK
  <2>1. rows \subseteq Row
    BY <1>0, <1>1, <1>2 DEF Row, Times
  <2>2. content \subseteq Text
    BY <1>0, <1>1, <1>2 DEF Text, Times, Nths
  <2>3. \A r, s \in rows : r.path = s.path => r = s
    BY <1>1, <1>2
  <2> QED
    BY <1>0, <2>1, <2>2, <2>3 DEF StoreTypeOK
<1>4. \A w \in Workers : task[w] = Idle
  BY DEF Init
<1>5. SaverTypeOK
  BY <1>3 DEF SaverTypeOK, Init
<1>6. StampsInv
  <2>1. RowsNotAhead
    BY <1>0, <1>1, <1>2 DEF RowsNotAhead, Stat, Times
  <2> QED
    BY <2>1, <1>4 DEF StampsInv, TasksNotAhead, HoldsTextOfStamp, InFile, Idle
<1>7. UpToDateMeansIndexed
  <2> SUFFICES ASSUME NEW r \in rows, r.type = "c"
               PROVE  [fileid |-> r.id, path |-> r.path, mtime |-> r.mtime, nth |-> 1]
                        \in content
    BY DEF UpToDateMeansIndexed
  <2>1. PICK i \in DOMAIN index :
          r = [id |-> i, path |-> index[i].path, mtime |-> 1, type |-> index[i].type]
    BY <1>1
  <2>2. /\ r.id = i
        /\ r.path = index[i].path
        /\ r.mtime = 1
        /\ index[i].type = "c"
    BY <2>1
  <2> QED
    BY <1>1, <2>2
<1> QED
  BY <1>5, <1>6, <1>7 DEF StoreInv

\* What neither touches files, tables nor tasks.
LEMMA StoreStutter ==
    ASSUME StoreInv, UNCHANGED <<storeVars, task, bare>>, adds' \in Nat
    PROVE  StoreInv'
BY DEF StoreInv, SaverTypeOK, StoreTypeOK, StampsInv, RowsNotAhead, TasksNotAhead,
       HoldsTextOfStamp, InFile, TypeOf, UpToDateMeansIndexed, storeVars

\* How another program may change what is found at a path.
IsLater(s, d) ==
    \/ d.mtime = s.mtime + 1 /\ d.nth = 1
    \/ d.mtime = s.mtime /\ d.nth = s.nth + 1
LEMMA DiskChange ==
    ASSUME NEW p \in Paths, Write(p) \/ Remove(p), disk \in [Paths -> Stat]
    PROVE  /\ disk' \in [Paths -> Stat]
           /\ \A q \in Paths : \/ disk'[q] = disk[q]
                               \/ IsLater(disk[q], disk'[q])
                               \/ /\ disk'[q].kind = "missing"
                                  /\ disk'[q].mtime = disk[q].mtime
                                  /\ disk'[q].nth = disk[q].nth
<1>1. CASE Write(p)
  <2>1. PICK kind \in Kinds, v \in LaterVersions(disk[p]) :
          disk' = [disk EXCEPT ![p] = [kind |-> kind, mtime |-> v.mtime, nth |-> v.nth]]
    BY <1>1 DEF Write
  <2>2. /\ v.mtime \in Times
        /\ v.nth \in Nths
        /\ IF v.mtime = disk[p].mtime THEN v.nth = disk[p].nth + 1
                                      ELSE v.mtime = disk[p].mtime + 1 /\ v.nth = 1
    BY DEF LaterVersions
  <2> DEFINE new == [kind |-> kind, mtime |-> v.mtime, nth |-> v.nth]
  <2>3. new \in Stat /\ IsLater(disk[p], new)
    BY <2>2, StoreAssumption DEF Stat, IsLater
  <2> HIDE DEF new
  <2> QED
    BY <2>1, <2>3 DEF new
<1>2. CASE Remove(p)
  BY <1>2 DEF Remove, Stat
<1> QED
  BY <1>1, <1>2

\* Versions of one path are in order, and the first one that has its modification time is
\* not after another that has it.
LEMMA BeforeLater ==
    ASSUME NEW s \in Stat, NEW d \in Stat, NEW e \in Stat, Before(s, d),
           \/ e = d
           \/ IsLater(d, e)
           \/ e.kind = "missing" /\ e.mtime = d.mtime /\ e.nth = d.nth
    PROVE  /\ Before(s, e)
           /\ s.mtime <= d.mtime
           /\ e.kind = "file" /\ e.mtime = s.mtime /\ e.nth = 1 => e = d /\ s.kind = "file"
<1>1. /\ s.mtime \in Nat /\ s.nth \in Nat \ {0}
      /\ d.mtime \in Nat /\ d.nth \in Nat \ {0}
      /\ e.mtime \in Nat /\ e.nth \in Nat \ {0}
  BY StoreAssumption DEF Stat, Times, Nths
<1> QED
  BY <1>1 DEF Before, IsLater

LEMMA BeforeNow ==
    ASSUME NEW s \in Stat
    PROVE  Before(s, s)
BY DEF Before

\* A file that changes only gets ahead of rows and tasks.
LEMMA DiskStep ==
    ASSUME StoreInv, NEW p \in Paths, Write(p) \/ Remove(p), UNCHANGED saverVars
    PROVE  StoreInv'
<1> USE DEF StoreInv
<1>0. disk \in [Paths -> Stat] /\ rows \subseteq Row
  BY DEF SaverTypeOK, StoreTypeOK
<1>1. disk' \in [Paths -> Stat]
  BY <1>0, DiskChange
<1>2. \A q \in Paths : \/ disk'[q] = disk[q]
                       \/ IsLater(disk[q], disk'[q])
                       \/ /\ disk'[q].kind = "missing"
                          /\ disk'[q].mtime = disk[q].mtime
                          /\ disk'[q].nth = disk[q].nth
  BY <1>0, DiskChange
<1>3. UNCHANGED <<rows, content, task, adds, bare>>
  BY DEF Write, Remove, saverVars
<1>4. SaverTypeOK'
  BY <1>1, <1>3 DEF SaverTypeOK, StoreTypeOK
<1>5. ASSUME NEW r \in rows
      PROVE  /\ r.mtime <= disk'[r.path].mtime
             /\ disk'[r.path].mtime = r.mtime /\ disk'[r.path].nth = 1
                  /\ disk'[r.path].kind = "file" => disk'[r.path] = disk[r.path]
  <2>1. r.path \in Paths /\ r.mtime \in Nat /\ r.mtime <= disk[r.path].mtime
    BY <1>0, StoreAssumption DEF StampsInv, RowsNotAhead, Row, Times
  <2>2. /\ disk[r.path].mtime \in Nat /\ disk'[r.path].mtime \in Nat
        /\ disk[r.path].nth \in Nat \ {0}
    BY <2>1, <1>0, <1>1, StoreAssumption DEF Stat, Times, Nths
  <2> QED
    BY <2>1, <2>2, <1>2 DEF IsLater
<1>6. RowsNotAhead'
  BY <1>3, <1>5 DEF RowsNotAhead
<1>7. ASSUME NEW w \in Workers, InFile(task[w]), task[w].stat # Unknown
      PROVE  /\ Before(task[w].stat, disk'[task[w].path])
             /\ /\ disk'[task[w].path].kind = "file"
                /\ disk'[task[w].path].mtime = task[w].stat.mtime
                /\ disk'[task[w].path].nth = 1
                => disk'[task[w].path] = disk[task[w].path]
  <2>1. task[w] \in Task
    BY <1>7, TaskShape
  <2>2. task[w].path \in Paths /\ task[w].stat \in Stat
    BY <1>7, <2>1 DEF Task
  <2>3. Before(task[w].stat, disk[task[w].path])
    BY <1>7 DEF StampsInv, TasksNotAhead
  <2>4. disk[task[w].path] \in Stat /\ disk'[task[w].path] \in Stat
    BY <2>2, <1>0, <1>1
  <2> QED
    BY <2>2, <2>3, <2>4, <1>2, BeforeLater
<1>8. TasksNotAhead'
  BY <1>7, <1>3 DEF TasksNotAhead, InFile
<1>9. ASSUME NEW w \in Workers PROVE HoldsTextOfStamp(task[w])'
  <2> SUFFICES ASSUME task[w].pc = "save", task[w].text # Withheld, TypeOf(task[w]) = "c",
                      disk'[task[w].path]
                        = [kind |-> "file", mtime |-> task[w].stat.mtime, nth |-> 1]
               PROVE  task[w].text = [mtime |-> task[w].stat.mtime, nth |-> 1]
    BY <1>3 DEF HoldsTextOfStamp, TypeOf
  <2>1. InFile(task[w])
    BY DEF InFile
  <2>2. task[w].stat # Unknown
    <3>1. task[w] \in Task
      BY <2>1, TaskShape
    <3> QED
      BY <3>1 DEF Task, Stat, Unknown
  <2>3. disk'[task[w].path] = disk[task[w].path]
    BY <1>7, <2>1, <2>2
  <2> QED
    BY <2>3 DEF StampsInv, HoldsTextOfStamp
<1>10. UpToDateMeansIndexed'
  <2> SUFFICES ASSUME NEW r \in rows, r.type = "c", r.path \notin bare,
                      disk'[r.path] = [kind |-> "file", mtime |-> r.mtime, nth |-> 1]
               PROVE  [fileid |-> r.id, path |-> r.path, mtime |-> r.mtime, nth |-> 1]
                        \in content
    BY <1>3 DEF UpToDateMeansIndexed
  <2>1. disk'[r.path] = disk[r.path]
    BY <1>5
  <2> QED
    BY <2>1 DEF UpToDateMeansIndexed
<1> QED
  BY <1>4, <1>6, <1>8, <1>9, <1>10 DEF StampsInv

\* The parts of the inductive invariant that speak of one task.
TaskFits(t) ==
    /\ t \in Task \cup Answer \cup {Idle}
    /\ InFile(t) => t.stat = Unknown \/ Before(t.stat, disk[t.path])
    /\ HoldsTextOfStamp(t)

\* A step of one task that leaves files and tables alone.
LEMMA TaskStep ==
    ASSUME StoreInv, UNCHANGED <<storeVars, bare>>, adds' \in Nat,
           NEW w \in Workers, NEW t, task' = [task EXCEPT ![w] = t], TaskFits(t)
    PROVE  StoreInv'
<1> USE DEF StoreInv, TaskFits
<1>1. UNCHANGED <<disk, rows, content, bare>>
  BY DEF storeVars
<1>2. task \in [Workers -> Task \cup Answer \cup {Idle}]
  BY DEF SaverTypeOK
<1>3. \A v \in Workers : task'[v] = t \/ task'[v] = task[v]
  BY <1>2
<1>4. SaverTypeOK'
  BY <1>1, <1>2 DEF SaverTypeOK, StoreTypeOK
<1>5. RowsNotAhead' /\ UpToDateMeansIndexed'
  BY <1>1 DEF StampsInv, RowsNotAhead, UpToDateMeansIndexed
<1>6. TasksNotAhead'
  BY <1>1, <1>3 DEF StampsInv, TasksNotAhead, InFile
<1>7. \A v \in Workers : HoldsTextOfStamp(task[v])'
  BY <1>1, <1>3 DEF StampsInv, HoldsTextOfStamp, TypeOf
<1> QED
  BY <1>4, <1>5, <1>6, <1>7 DEF StampsInv

\* A call that returns has no claim left.
LEMMA ReturnFits ==
    ASSUME SaverTypeOK, NEW w \in Workers, InFile(task[w]), NEW result \in Results
    PROVE  TaskFits([pc |-> "answer", for |-> task[w].for, path |-> task[w].path,
                     result |-> result])
<1>1. task[w] \in Task
  BY TaskShape
<1> QED
  BY <1>1 DEF Task, Answer, TaskFits, InFile, HoldsTextOfStamp

LEMMA ReturnStep ==
    ASSUME StoreInv, UNCHANGED <<storeVars, adds, bare>>, NEW w \in Workers,
           InFile(task[w]), NEW result \in Results, Return(w, result)
    PROVE  StoreInv'
<1>1. TaskFits([pc |-> "answer", for |-> task[w].for, path |-> task[w].path,
                result |-> result])
  BY ReturnFits DEF StoreInv
<1> QED
  BY <1>1, TaskStep DEF StoreInv, SaverTypeOK, Return

\* A call that goes on: its stamp is not ahead of the file, and the text it returns
\* with is that of the stamp.
LEMMA GoStep ==
    ASSUME StoreInv, UNCHANGED <<storeVars, adds, bare>>, NEW w \in Workers,
           InFile(task[w]),
           NEW pc \in {"decide", "extract", "save"}, NEW stat \in Stat \cup {Unknown},
           pc # "decide" => stat \in Stat,
           NEW text \in TextRead, Go(w, pc, stat, text),
           stat = Unknown \/ Before(stat, disk[task[w].path]),
           /\ pc = "save"
           /\ text # Withheld
           /\ task[w].mode # "metadata"
           /\ stat.kind # "dir"
           /\ disk[task[w].path] = [kind |-> "file", mtime |-> stat.mtime, nth |-> 1]
           => text = [mtime |-> stat.mtime, nth |-> 1]
    PROVE  StoreInv'
<1> DEFINE t == [pc |-> pc, for |-> task[w].for, path |-> task[w].path,
                 mode |-> task[w].mode, stat |-> stat, text |-> text]
<1>1. task[w] \in Task
  BY TaskShape DEF StoreInv
<1>2. t \in Task
  BY <1>1 DEF Task
<1>3. HoldsTextOfStamp(t)
  BY DEF HoldsTextOfStamp, TypeOf
<1>4. TaskFits(t)
  BY <1>2, <1>3 DEF TaskFits
<1>5. task' = [task EXCEPT ![w] = t] /\ adds' \in Nat
  BY DEF Go, StoreInv, SaverTypeOK
<1> HIDE DEF t
<1> QED
  BY <1>4, <1>5, TaskStep

\* A call that begins, and a thread that is free again.
LEMMA BeginStep ==
    ASSUME StoreInv, UNCHANGED <<storeVars, bare>>, adds' \in Nat, NEW w \in Workers,
           NEW pc \in {"lookup", "decide"}, NEW for \in {"add", "update"}, NEW p \in Paths,
           NEW mode \in Modes, NEW stat \in {disk[p], Unknown},
           Begin(w, pc, for, p, mode, stat)
    PROVE  StoreInv'
<1> DEFINE t == [pc |-> pc, for |-> for, path |-> p, mode |-> mode, stat |-> stat,
                 text |-> Nothing]
<1>1. disk[p] \in Stat
  BY DEF StoreInv, SaverTypeOK, StoreTypeOK
<1>2. t \in Task
  BY <1>1 DEF Task, TextRead
<1>3. stat = Unknown \/ Before(stat, disk[p])
  BY <1>1, BeforeNow
<1>4. TaskFits(t)
  BY <1>2, <1>3 DEF TaskFits, HoldsTextOfStamp
<1>5. task' = [task EXCEPT ![w] = t]
  BY DEF Begin
<1> HIDE DEF t
<1> QED
  BY <1>4, <1>5, TaskStep

LEMMA IdleStep ==
    ASSUME StoreInv, UNCHANGED <<storeVars, adds, bare>>, NEW w \in Workers,
           task' = [task EXCEPT ![w] = Idle]
    PROVE  StoreInv'
<1>1. TaskFits(Idle)
  BY DEF TaskFits, Idle, InFile, HoldsTextOfStamp
<1> QED
  BY <1>1, TaskStep DEF StoreInv, SaverTypeOK

LEMMA StartAddStep ==
    ASSUME StoreInv, NEW w \in Workers, NEW p \in Paths, StartAdd(w, p)
    PROVE  StoreInv'
<1>1. PICK mode \in AddModes : Begin(w, "lookup", "add", p, mode, disk[p])
  BY DEF StartAdd
<1>2. mode \in Modes
  BY SaverAssumption DEF Modes
<1>3. UNCHANGED <<storeVars, bare>> /\ adds' \in Nat
  BY DEF StartAdd, StoreInv, SaverTypeOK
<1> QED
  BY <1>1, <1>2, <1>3, BeginStep

LEMMA StartUpdateStep ==
    ASSUME StoreInv, NEW w \in Workers, NEW p \in Paths, StartUpdate(w, p)
    PROVE  StoreInv'
<1>1. Begin(w, "decide", "update", p, "content", Unknown)
  BY DEF StartUpdate
<1>2. UNCHANGED <<storeVars, bare>> /\ adds' \in Nat
  BY DEF StartUpdate, StoreInv, SaverTypeOK
<1>3. "content" \in Modes
  BY DEF Modes
<1> QED
  BY <1>1, <1>2, <1>3, BeginStep

\* What is known of a task between its first look and its transaction.
LEMMA InFileFacts ==
    ASSUME StoreInv, NEW w \in Workers, InFile(task[w])
    PROVE  /\ task[w] \in Task
           /\ task[w].path \in Paths
           /\ task[w].stat \in Stat \cup {Unknown}
           /\ task[w].pc \in {"extract", "save"} => task[w].stat \in Stat
           /\ task[w].stat = Unknown \/ Before(task[w].stat, disk[task[w].path])
           /\ disk[task[w].path] \in Stat
           /\ Nothing \in TextRead
           /\ Withheld \in TextRead
<1>1. task[w] \in Task
  BY TaskShape DEF StoreInv
<1>2. /\ task[w].path \in Paths /\ task[w].stat \in Stat \cup {Unknown}
      /\ task[w].pc \in {"extract", "save"} => task[w].stat \in Stat
  BY <1>1 DEF Task
<1>3. Nothing \in TextRead /\ Withheld \in TextRead
  BY DEF TextRead
<1> QED
  BY <1>1, <1>2, <1>3
     DEF StoreInv, SaverTypeOK, StoreTypeOK, StampsInv, TasksNotAhead

LEMMA LookupStep ==
    ASSUME StoreInv, NEW w \in Workers, Lookup(w)
    PROVE  StoreInv'
<1>1. InFile(task[w]) /\ UNCHANGED <<storeVars, adds, bare>>
  BY DEF Lookup, At, InFile
<1>2. CASE Return(w, "skipped") \/ Return(w, "processfail")
  BY <1>1, <1>2, ReturnStep DEF Results
<1>3. CASE Go(w, "decide", task[w].stat, Nothing)
  BY <1>1, <1>3, InFileFacts, GoStep
<1> QED
  BY <1>2, <1>3 DEF Lookup, AddQueryFails

\* What is known of the file when its fate is decided.
LEMMA KnownFacts ==
    ASSUME StoreInv, NEW w \in Workers, InFile(task[w])
    PROVE  /\ Known(task[w]) \in Stat
           /\ Before(Known(task[w]), disk[task[w].path])
BY InFileFacts, BeforeNow DEF Known

LEMMA DecideStep ==
    ASSUME StoreInv, NEW w \in Workers, Decide(w)
    PROVE  StoreInv'
<1> DEFINE t == task[w]
           stat == Known(t)
<1>1. InFile(t) /\ UNCHANGED <<storeVars, adds, bare>>
  BY DEF Decide, At, InFile
<1>2. stat \in Stat /\ Before(stat, disk[t.path])
  BY <1>1, KnownFacts
<1>3. \/ \E result \in LeavesOut(t) \cup {"processfail"} : Return(w, result)
      \/ Go(w, "extract", stat, Nothing)
      \/ Go(w, "save", stat, Withheld)
      \/ /\ stat.kind # "file" \/ t.mode = "metadata"
         /\ Go(w, "save", stat, Nothing)
  <2>1. CASE stat.kind = "file" /\ MustFillContent(t)
    BY <2>1 DEF Decide, AddQueryFails
  <2>2. CASE stat.kind = "file" /\ ~MustFillContent(t) /\ t.mode = "content"
    BY <2>2 DEF Decide, AddQueryFails
  <2>3. CASE /\ stat.kind # "file" \/ ~MustFillContent(t)
             /\ stat.kind # "file" \/ MustFillContent(t) \/ t.mode # "content"
    <3>1. stat.kind # "file" \/ t.mode = "metadata"
      <4>1. t.mode \in Modes
        BY <1>1, InFileFacts DEF Task
      <4> QED
        BY <2>3, <4>1 DEF MustFillContent, Modes
    <3>2. \/ \E result \in LeavesOut(t) \cup {"processfail"} : Return(w, result)
          \/ Go(w, "save", stat, Nothing)
      BY <2>3 DEF Decide, AddQueryFails
    <3> QED
      BY <3>1, <3>2
  <2> QED
    BY <2>1, <2>2, <2>3
<1>4. CASE \E result \in LeavesOut(t) \cup {"processfail"} : Return(w, result)
  <2>1. LeavesOut(t) \subseteq {"noaccess", "notfound", "skipped"}
    BY DEF LeavesOut
  <2>2. PICK result \in Results : Return(w, result)
    BY <1>4, <2>1 DEF Results
  <2> QED
    BY <1>1, <2>2, ReturnStep
<1>5. CASE Go(w, "extract", stat, Nothing)
  <2> HIDE DEF stat
  <2> QED
    BY <1>1, <1>2, <1>5, InFileFacts, GoStep
<1>6. CASE Go(w, "save", stat, Withheld)
  <2> HIDE DEF stat
  <2> QED
    BY <1>1, <1>2, <1>6, InFileFacts, GoStep
<1>7. CASE /\ stat.kind # "file" \/ t.mode = "metadata"
           /\ Go(w, "save", stat, Nothing)
  <2>1. ASSUME stat.kind # "file",
               disk[t.path] = [kind |-> "file", mtime |-> stat.mtime, nth |-> 1]
        PROVE  FALSE
    <3>1. disk[t.path] \in Stat
      BY <1>1, InFileFacts
    <3>2. /\ disk[t.path].kind = "file"
          /\ disk[t.path].mtime = stat.mtime
          /\ disk[t.path].nth = 1
      BY <2>1
    <3> HIDE DEF stat
    <3> QED
      BY <1>2, <2>1, <3>1, <3>2, BeforeLater
  <2> HIDE DEF stat
  <2> QED
    BY <1>1, <1>2, <1>7, <2>1, InFileFacts, GoStep
<1> QED
  BY <1>3, <1>4, <1>5, <1>6, <1>7

LEMMA ExtractStep ==
    ASSUME StoreInv, NEW w \in Workers, Extract(w)
    PROVE  StoreInv'
<1> DEFINE t == task[w]
           d == disk[t.path]
<1>1. t.pc = "extract" /\ InFile(t) /\ UNCHANGED <<storeVars, adds, bare>>
  BY DEF Extract, At, InFile
<1>2. PICK a \in ChildAnswers(t.path) \cup NoAnswers :
        IF a.result = "ok" THEN Go(w, "save", t.stat, a.text) ELSE Return(w, a.result)
  BY Zenon DEF Extract
<1>3. d \in Stat /\ d.kind \in {"missing", "dir", "empty", "file"}
  BY <1>1, InFileFacts DEF Stat
<1>4. /\ a.result \in {"ok", "noaccess", "processfail", "signal"}
      /\ a.text \in {Nothing, Withheld, [mtime |-> d.mtime, nth |-> d.nth]}
      /\ a.result = "ok" /\ d.kind = "file" /\ a.text # Withheld =>
           a.text = [mtime |-> d.mtime, nth |-> d.nth]
  <2>1. CASE a \in NoAnswers
    BY <2>1 DEF NoAnswers
  <2>2. CASE a \in ChildAnswers(t.path) /\ d.kind = "missing"
    BY <2>2 DEF ChildAnswers
  <2>3. CASE a \in ChildAnswers(t.path) /\ d.kind = "dir"
    BY <2>3 DEF ChildAnswers
  <2>4. CASE a \in ChildAnswers(t.path) /\ d.kind = "empty"
    BY <2>4 DEF ChildAnswers
  <2>5. CASE a \in ChildAnswers(t.path) /\ d.kind = "file"
    BY <2>5 DEF ChildAnswers
  <2> QED
    BY <1>2, <1>3, <2>1, <2>2, <2>3, <2>4, <2>5
<1>5. CASE a.result # "ok"
  BY <1>1, <1>2, <1>4, <1>5, ReturnStep DEF Results
<1>6. CASE a.result = "ok"
  <2>1. Go(w, "save", t.stat, a.text)
    BY <1>2, <1>6
  <2>2. a.text \in TextRead
    <3>1. [mtime |-> d.mtime, nth |-> d.nth] \in TextRead
      BY <1>3 DEF Stat, TextRead
    <3> QED
      BY <1>1, <1>4, <3>1, InFileFacts
  <2>3. a.text # Withheld /\ d = [kind |-> "file", mtime |-> t.stat.mtime, nth |-> 1]
          => a.text = [mtime |-> t.stat.mtime, nth |-> 1]
    BY <1>4, <1>6
  <2> QED
    BY <1>1, <2>1, <2>2, <2>3, InFileFacts, GoStep
<1> QED
  BY <1>5, <1>6

\* saveFile's transaction, by whatever task.  Its row is no further than the file, and
\* if it is of this version of the file, so is its text.
LEMMA SaveFileStep ==
    ASSUME StoreInv, NEW p \in Paths, NEW mtime \in Times, NEW type \in {"c", "f", "d"},
           NEW text \in TextRead, SaveFile(p, mtime, type, text), NoteText(p, text),
           UNCHANGED disk,
           mtime <= disk[p].mtime,
           /\ type = "c"
           /\ text # Withheld
           /\ disk[p] = [kind |-> "file", mtime |-> mtime, nth |-> 1]
           => text = [mtime |-> mtime, nth |-> 1]
    PROVE  StoreTypeOK' /\ RowsNotAhead' /\ UpToDateMeansIndexed'
<1> DEFINE others == {r \in rows : r.path # p}
           page_(id) == [fileid |-> id, path |-> p, mtime |-> text.mtime, nth |-> text.nth]
<1>1. PICK id \in NextIds(others) :
        /\ rows' = others \cup {[id |-> id, path |-> p, mtime |-> mtime, type |-> type]}
        /\ content' = IF text.mtime = 0 THEN content ELSE content \cup {page_(id)}
  BY DEF SaveFile, InsertText
<1>2. /\ rows \subseteq Row
      /\ content \subseteq Text
      /\ disk \in [Paths -> Stat]
      /\ \A r, s \in rows : r.path = s.path => r = s
  BY DEF StoreInv, SaverTypeOK, StoreTypeOK
<1>3. id \in Nat \ {0}
  BY <1>2 DEF NextIds, Row
<1> DEFINE row == [id |-> id, path |-> p, mtime |-> mtime, type |-> type]
<1>4. row \in Row
  BY <1>3 DEF Row
<1>5. text.mtime # 0 => page_(id) \in Text
  BY <1>3, StoreAssumption DEF Text, Times, TextRead, Nothing, Withheld
<1>6. \A r \in rows' : r = row \/ r \in others
  BY <1>1
<1>7. StoreTypeOK'
  <2>1. rows' \subseteq Row
    BY <1>1, <1>2, <1>4
  <2>2. content' \subseteq Text
    BY <1>1, <1>2, <1>5
  <2>3. ASSUME NEW r \in rows', NEW s \in rows', r.path = s.path
        PROVE  r = s
    <3>1. row.path = p
      OBVIOUS
    <3> HIDE DEF row
    <3> QED
      BY <1>2, <1>6, <2>3, <3>1
  <2> QED
    BY <1>2, <2>1, <2>2, <2>3 DEF StoreTypeOK
<1>8. RowsNotAhead'
  BY <1>6 DEF StoreInv, StampsInv, RowsNotAhead
<1>9. UpToDateMeansIndexed'
  <2> SUFFICES ASSUME NEW r \in rows', r.type = "c", r.path \notin bare',
                      disk[r.path] = [kind |-> "file", mtime |-> r.mtime, nth |-> 1]
               PROVE  [fileid |-> r.id, path |-> r.path, mtime |-> r.mtime, nth |-> 1]
                        \in content'
    BY DEF UpToDateMeansIndexed
  <2>1. CASE r = row
    <3>1. r.id = id /\ r.path = p /\ r.mtime = mtime /\ r.type = type
      BY <2>1
    <3>2. text # Withheld
      BY <3>1 DEF NoteText
    <3>3. text = [mtime |-> mtime, nth |-> 1]
      BY <3>1, <3>2
    <3>4. text.mtime = mtime /\ text.nth = 1 /\ mtime # 0
      BY <3>3, StoreAssumption DEF Times
    <3> QED
      BY <3>1, <3>4, <1>1
  <2>2. CASE r \in others
    <3>1. r \in rows /\ r.path \notin bare
      BY <2>2 DEF NoteText
    <3>2. [fileid |-> r.id, path |-> r.path, mtime |-> r.mtime, nth |-> 1] \in content
      BY <3>1 DEF StoreInv, UpToDateMeansIndexed
    <3> QED
      BY <3>2, <1>1
  <2> QED
    BY <1>6, <2>1, <2>2
<1> QED
  BY <1>7, <1>8, <1>9

LEMMA SaveStep ==
    ASSUME StoreInv, NEW w \in Workers, Save(w)
    PROVE  StoreInv'
<1> DEFINE t == task[w]
           answer(result) == [pc |-> "answer", for |-> t.for, path |-> t.path,
                              result |-> result]
<1>1. /\ t.pc = "save" /\ InFile(t)
      /\ UNCHANGED <<disk, adds>>
  BY DEF Save, At, InFile
<1>2. CASE SaveFails(w)
  BY <1>1, <1>2, ReturnStep DEF Results, storeVars, SaveFails
<1>3. CASE /\ SaveFile(t.path, t.stat.mtime, TypeOf(t), t.text)
           /\ NoteText(t.path, t.text)
           /\ Return(w, "ok")
  <2>1. t \in Task /\ t.path \in Paths /\ t.text \in TextRead
    BY <1>1, TaskShape DEF StoreInv, Task
  <2>2. t.stat \in Stat /\ t.stat.mtime \in Times
    BY <1>1, InFileFacts DEF Stat
  <2>3. StoreTypeOK' /\ RowsNotAhead' /\ UpToDateMeansIndexed'
    <3>1. TypeOf(t) \in {"c", "f", "d"}
      BY DEF TypeOf
    <3>2. t.stat.mtime <= disk[t.path].mtime
      <4>1. t.stat # Unknown
        BY <2>2 DEF Stat, Unknown
      <4> QED
        BY <1>1, <2>2, <4>1, InFileFacts, BeforeLater
    <3>3. /\ TypeOf(t) = "c"
          /\ t.text # Withheld
          /\ disk[t.path] = [kind |-> "file", mtime |-> t.stat.mtime, nth |-> 1]
          => t.text = [mtime |-> t.stat.mtime, nth |-> 1]
      BY <1>1 DEF StoreInv, StampsInv, HoldsTextOfStamp
    <3> QED
      BY <1>1, <1>3, <2>1, <2>2, <3>1, <3>2, <3>3, SaveFileStep
  <2>4. answer("ok") \in Answer
    BY <2>1 DEF Answer, Task, Results
  <2>5. /\ task' = [task EXCEPT ![w] = answer("ok")]
        /\ task \in [Workers -> Task \cup Answer \cup {Idle}]
    BY <1>3 DEF Return, StoreInv, SaverTypeOK
  <2>6. \A v \in Workers : task'[v] = answer("ok") \/ task'[v] = task[v]
    BY <2>5
  <2>7. SaverTypeOK'
    <3>1. bare' \subseteq Paths
      BY <1>3, <2>1 DEF NoteText, StoreInv, SaverTypeOK
    <3> QED
      BY <1>1, <2>3, <2>4, <2>5, <3>1 DEF SaverTypeOK, StoreInv
  <2>8. TasksNotAhead'
    BY <1>1, <2>6 DEF StoreInv, StampsInv, TasksNotAhead, InFile
  <2>9. \A v \in Workers : HoldsTextOfStamp(task[v])'
    BY <1>1, <2>6 DEF StoreInv, StampsInv, HoldsTextOfStamp, TypeOf
  <2> QED
    BY <2>3, <2>7, <2>8, <2>9 DEF StoreInv, StampsInv
<1> QED
  BY <1>2, <1>3 DEF Save

\* Deleting a row takes nothing from the others.
LEMMA DeleteFileStep ==
    ASSUME StoreInv, NEW p, DeleteFile(p), UNCHANGED <<disk, task, adds, bare>>
    PROVE  StoreInv'
BY DEF DeleteFile, StoreInv, SaverTypeOK, StoreTypeOK, StampsInv, RowsNotAhead,
       TasksNotAhead, HoldsTextOfStamp, InFile, TypeOf, UpToDateMeansIndexed

----------------------------------------------------------------------------
LEMMA EndUpdateStep ==
    ASSUME StoreInv, NEW w \in Workers, EndUpdate(w)
    PROVE  StoreInv'
BY IdleStep DEF EndUpdate

LEMMA TakeUpdateStep ==
    ASSUME StoreInv, NEW w \in Workers, TakeUpdate(w), pending \subseteq Paths
    PROVE  StoreInv'
<1>1. PICK p \in pending :
        IF terminate THEN At(w, "idle") /\ UNCHANGED <<storeVars, saverVars>>
                     ELSE StartUpdate(w, p)
  BY DEF TakeUpdate
<1>2. CASE UNCHANGED <<storeVars, saverVars>>
  BY <1>2, StoreStutter DEF saverVars, StoreInv, SaverTypeOK
<1>3. CASE StartUpdate(w, p)
  BY <1>3, StartUpdateStep
<1> QED
  BY <1>1, <1>2, <1>3

LEMMA SyncerStepStep ==
    ASSUME StoreInv, SyncerStep
    PROVE  StoreInv'
<1>1. CASE UNCHANGED <<storeVars, saverVars>>
  BY <1>1, StoreStutter DEF saverVars, StoreInv, SaverTypeOK
<1>2. CASE DeleteRow
  <2>1. UNCHANGED <<disk, task, adds, bare>>
    BY <1>2 DEF DeleteRow, saverVars
  <2>2. (\E p : DeleteFile(p)) \/ UNCHANGED <<rows, content>>
    BY <1>2 DEF DeleteRow
  <2>3. CASE \E p : DeleteFile(p)
    BY <2>1, <2>3, DeleteFileStep
  <2>4. CASE UNCHANGED <<rows, content>>
    BY <2>1, <2>4, StoreStutter DEF storeVars, StoreInv, SaverTypeOK
  <2> QED
    BY <2>2, <2>3, <2>4
<1> QED
  BY <1>1, <1>2 DEF SyncerStep, ReadPage, CheckRow, StartUpdates, CollectUpdates

LEMMA DeleteProcessStep ==
    ASSUME StoreInv, DeleteProcess
    PROVE  StoreInv'
<1>1. UNCHANGED <<task, adds, bare>>
  BY DEF DeleteProcess, saverVars
<1>2. UNCHANGED storeVars \/ (UNCHANGED disk /\ \E p : DeleteFile(p))
  BY DEF DeleteProcess, DeleterStep, VisitRow, DeleteVisited, NextDeletePage, FailDelete
<1>3. CASE UNCHANGED storeVars
  BY <1>1, <1>3, StoreStutter DEF StoreInv, SaverTypeOK
<1>4. CASE UNCHANGED disk /\ \E p : DeleteFile(p)
  BY <1>1, <1>4, DeleteFileStep
<1> QED
  BY <1>2, <1>3, <1>4

LEMMA AbortStep ==
    ASSUME StoreInv, Abort
    PROVE  StoreInv'
<1>1. UNCHANGED <<disk, rows, content, adds, bare>>
  BY DEF Abort, storeVars
<1>2. task \in [Workers -> Task \cup Answer \cup {Idle}]
  BY DEF StoreInv, SaverTypeOK
<1>3. PICK gone : task' = [w \in Workers |-> IF w \in gone THEN Idle ELSE task[w]]
  BY DEF Abort
<1>4. \A w \in Workers : task'[w] = Idle \/ task'[w] = task[w]
  BY <1>3
<1>5. SaverTypeOK'
  BY <1>1, <1>2, <1>3 DEF StoreInv, SaverTypeOK, StoreTypeOK
<1>6. RowsNotAhead' /\ UpToDateMeansIndexed'
  BY <1>1 DEF StoreInv, StampsInv, RowsNotAhead, UpToDateMeansIndexed
<1>7. TasksNotAhead'
  BY <1>1, <1>4 DEF StoreInv, StampsInv, TasksNotAhead, InFile, Idle
<1>8. \A w \in Workers : HoldsTextOfStamp(task[w])'
  BY <1>1, <1>4 DEF StoreInv, StampsInv, HoldsTextOfStamp, Idle, TypeOf
<1> QED
  BY <1>5, <1>6, <1>7, <1>8 DEF StoreInv, StampsInv

\* The paths the pool still has to update are paths: what the lemmas above need of the
\* syncer's state.
SelectionInv == page \subseteq Row /\ selected \subseteq Paths /\ pending \subseteq Paths

LEMMA SelectionInit == Init => SelectionInv
BY DEF Init, SelectionInv

LEMMA SelectionStep ==
    ASSUME StoreInv, SelectionInv, [Next]_vars
    PROVE  SelectionInv'
<1> USE DEF SelectionInv
<1>1. CASE UNCHANGED <<page, selected, pending>>
  BY <1>1
<1>2. CASE SyncerThread
  <2>1. CASE ReadPage
    BY <2>1 DEF ReadPage, GetFiles, StoreInv, SaverTypeOK, StoreTypeOK, mapVars
  <2>2. CASE CheckRow
    <3>1. PICK r \in page :
            /\ page' \subseteq page
            /\ selected' \subseteq selected \cup {r.path}
            /\ UNCHANGED pending
      BY <2>2 DEF CheckRow, mapVars
    <3> QED
      BY <3>1 DEF Row
  <2>3. CASE DeleteRow
    BY <2>3 DEF DeleteRow, mapVars
  <2>4. CASE StartUpdates
    BY <2>4 DEF StartUpdates, pageVars
  <2>5. CASE CollectUpdates
    BY <2>5 DEF CollectUpdates, mapVars
  <2> QED
    BY <1>2, <2>1, <2>2, <2>3, <2>4, <2>5 DEF SyncerThread, SyncerStep
<1>3. CASE \E w \in Workers : UpdateStep(w)
  BY <1>3 DEF UpdateStep, TakeUpdate, EndUpdate, pageVars
<1>4. CASE Crash \/ QueryFails
  BY <1>4 DEF Crash, QueryFails, Abort, pageVars
<1>5. CASE UNCHANGED vars
  BY <1>5, <1>1 DEF vars, syncVars, pageVars, mapVars
<1>6. CASE \/ OtherPrograms
           \/ \E w \in Workers : SaverSaveStep(w)
           \/ DeleteProcess
           \/ DeletePath
  BY <1>6, <1>1 DEF OtherPrograms, SaverSaveStep, DeleteProcess, DeletePath, SyncUndisturbed,
     pageVars, mapVars
<1>7. CASE \/ \E w \in Workers : Indexing(w) \/ SaverReadStep(w)
           \/ DeleteCall
  BY <1>7, <1>1 DEF Indexing, SaverReadStep, DeleteCall, syncVars, pageVars, mapVars
<1>8. CASE SyncClick
  BY <1>8, <1>1 DEF SyncClick, StartSync, Cancel, pageVars, mapVars
<1> QED
  BY <1>2, <1>3, <1>4, <1>5, <1>6, <1>7, <1>8 DEF Next, Threads

LEMMA StoreStep ==
    ASSUME StoreInv, SelectionInv, [Next]_vars
    PROVE  StoreInv'
<1>1. CASE OtherPrograms
  BY <1>1, DiskStep, StoreAssumption DEF OtherPrograms
<1>2. CASE \E w \in Workers : Indexing(w)
  BY <1>2, StartAddStep, StoreAssumption DEF Indexing
<1>3. CASE SyncerThread
  BY <1>3, SyncerStepStep DEF SyncerThread
<1>4. CASE \E w \in Workers : SaverReadStep(w)
  <2>1. PICK w \in Workers : SaverReads(w)
    BY <1>4 DEF SaverReadStep
  <2>2. CASE EndAdd(w)
    BY <2>2, IdleStep DEF EndAdd
  <2> QED
    BY <2>1, <2>2, LookupStep, DecideStep, ExtractStep DEF SaverReads
<1>5. CASE \E w \in Workers : SaverSaveStep(w)
  BY <1>5, SaveStep DEF SaverSaveStep
<1>6. CASE \E w \in Workers : UpdateStep(w)
  BY <1>6, TakeUpdateStep, EndUpdateStep DEF UpdateStep, SelectionInv
<1>7. CASE SyncClick \/ DeleteCall \/ UNCHANGED vars
  <2>1. UNCHANGED <<storeVars, saverVars>>
    BY <1>7 DEF SyncClick, StartSync, Cancel, DeleteCall, StartDelete, vars
  <2> QED
    BY <2>1, StoreStutter DEF saverVars, StoreInv, SaverTypeOK
<1>8. CASE DeletePath
  <2>1. UNCHANGED <<disk, task, adds, bare>> /\ \E p : DeleteFile(p)
    BY <1>8 DEF DeletePath, RemovePath, saverVars
  <2> QED
    BY <2>1, DeleteFileStep
<1>9. CASE DeleteProcess
  BY <1>9, DeleteProcessStep
<1>10. CASE Crash \/ QueryFails
  BY <1>10, AbortStep DEF Crash, QueryFails
<1> QED
  BY <1>1, <1>2, <1>3, <1>4, <1>5, <1>6, <1>7, <1>8, <1>9, <1>10 DEF Next, Threads

\* For any number of threads, paths, versions, calls, failures and crashes: a file that addFile
\* and sync leave alone as indexed with its content has its text in the index, of this
\* version (filesaver.cpp:27-44,153-192).  Excepted are a file written again within the
\* second of its stamp, as the stamp has no more than seconds, and one that was last saved
\* without asking the child for its text, as a row of its directory told, or without an
\* answer of a child that did not start or took too long.
THEOREM UpToDateCorrect == Spec => []UpToDateMeansIndexed
<1>1. Init => StoreInv /\ SelectionInv
  BY StoreInit, SelectionInit
<1>2. StoreInv /\ SelectionInv /\ [Next]_vars => (StoreInv /\ SelectionInv)'
  BY StoreStep, SelectionStep
<1>3. StoreInv => UpToDateMeansIndexed
  BY DEF StoreInv
<1> QED
  BY <1>1, <1>2, <1>3, PTL DEF Spec

----------------------------------------------------------------------------
(* Paging through the table. *)

\* file.id is the primary key, and the table is finite.
RowsInv ==
    /\ IsFiniteSet(rows)
    /\ \A r, s \in rows : r.id = s.id => r = s

\* Where the syncer may be, whoever interferes: only the pool of updateFiles runs updates,
\* a dry run selects nothing, and the token cannot be set while sync() runs.
IsUpdate(t) == t.pc # "idle" /\ t.for = "update"
ControlInv ==
    /\ IsFiniteSet(selected)
    /\ syncPc # "idle" => ~stopToken
    /\ syncPc \in {"check", "delete", "update"} /\ options.dryRun => selected = {}
    /\ syncPc = "delete" => ~options.dryRun
    /\ syncPc = "update" => pending \subseteq selected
    /\ \A w \in Workers : IsUpdate(task[w]) =>
         syncPc = "update" /\ ~options.dryRun /\ task[w].pc # "lookup"
           /\ (InFile(task[w]) => task[w].mode = "content")

\* What an update that is under way knows of its file while nobody interferes: it is the
\* one the row is compared with.
UpdateFits(t) ==
    /\ t.pc = "decide" => t.stat = Unknown
    /\ t.pc \in {"extract", "save"} =>
         t.stat = disk[t.path] /\ Exists(t.path)
    /\ t.pc = "answer" /\ t.result = "skipped" => t.path \in Excluded
    /\ t.pc = "answer" /\ t.result = "ok" => \A r \in rows : r.path = t.path => InSync(r)

\* Why a visited row need not agree with its file yet.
Underway(r) ==
    \/ syncPc \in {"check", "delete"} /\ r.path \in selected
    \/ syncPc = "delete" /\ IsFirst(r, page)
    \/ syncPc = "update" /\ r.path \in pending
    \/ \E w \in Workers : IsUpdate(task[w]) /\ task[w].path = r.path

PageInv ==
    syncPc \in {"check", "delete"} =>
        /\ page \subseteq rows
        /\ \A r \in page : r.path \in Matching
        /\ options.dryRun => page \subseteq GetFiles(offset, Limit)

\* The rows sync has dealt with in a dry run, and those it has to tell of.
Behind(r) ==
    \/ syncPc = "read" /\ Rank(r) < offset
    \/ syncPc = "check" /\ Rank(r) < offset + Limit /\ r \notin page
    \/ syncPc = "update" /\ Rank(r) < offset + Limit
    \/ syncPc = "idle"
Wanted(r) == r.path \in Matching \ Mounted /\ (IsStale(r) \/ IsGone(r))

UpdatesInv == \A w \in Workers : IsUpdate(task[w]) => UpdateFits(task[w])
TerminateInv == syncPc = "update" /\ terminate => failed
SeenInv ==
    ~failed /\ ~options.dryRun =>
        \A r \in rows : r.path \in seen => InSync(r) \/ Underway(r)
AnnouncedInv ==
    options.dryRun => announced = {r.path : r \in {s \in rows : Behind(s) /\ Wanted(s)}}

QuietInv == PageInv /\ UpdatesInv /\ TerminateInv /\ SeenInv /\ AnnouncedInv
SyncInv == ~interfered => QuietInv

\* looqs delete: its page holds no more rows than it may, however many of them have gone.
DeleteControl ==
    /\ deleteOffset \in Nat
    /\ deletePc # "idle" =>
         /\ IsFiniteSet(deletePage)
         /\ deleted + Cardinality(deletePage) <= DeleteLimit
         /\ deleteOptions.dryRun => deleted = 0
    /\ deletePc = "delete" => ~deleteOptions.dryRun

\* The rows it has dealt with are the first ones but for those it still has to visit: as
\* rows go, those behind them move up.
DealtWith(r) ==
    \/ deletePc = "idle"
    \/ r \notin deletePage /\ Rank(r) < deleteOffset + DeleteLimit - deleted
DeletePageInv ==
    deletePc # "idle" =>
        /\ deletePage \subseteq rows
        /\ \A r \in deletePage : r.path \in DeleteMatching
        /\ deleteOptions.dryRun => deletePage \subseteq GetFiles(deleteOffset, DeleteLimit)
ListedInv ==
    deleteOptions.dryRun =>
        listed = {r.path : r \in {s \in rows : DealtWith(s) /\ ToDelete(s)}}
RemovedInv ==
    ~deleteOptions.dryRun => \A r \in rows : DealtWith(r) => ~ToDelete(r)

DeleteInv == ~disturbed => DeletePageInv /\ ListedInv /\ RemovedInv

\* The types of the variables of IndexSyncer and of CommandDelete.
SyncTypeOK ==
    /\ syncPc \in {"idle", "read", "check", "delete", "update"}
    /\ options \in [dryRun : BOOLEAN, keepGoing : BOOLEAN, removeDeleted : BOOLEAN]
    /\ stopToken \in BOOLEAN
    /\ offset \in Nat
    /\ processed \in Nat
    /\ page \subseteq Row
    /\ selected \subseteq Paths
    /\ pending \subseteq Paths
    /\ terminate \in BOOLEAN
    /\ saved \in Nat
    /\ totals \in [updated : Nat, deleted : Nat, errored : Int]
    /\ syncs \in Nat
    /\ seen \subseteq Paths
    /\ announced \subseteq Paths
    /\ failed \in BOOLEAN
    /\ interfered \in BOOLEAN
DeleteTypeOK ==
    /\ deletePc \in {"idle", "visit", "delete"}
    /\ deleteOptions \in [dryRun : BOOLEAN, onlyDeleted : BOOLEAN]
    /\ deleteOffset \in Int
    /\ deletePage \subseteq Row
    /\ deleted \in Nat
    /\ deletes \in Nat
    /\ listed \subseteq Paths
    /\ disturbed \in BOOLEAN

\* The inductive invariant.  SyncTypeOK and DeleteTypeOK are TypeOK but for StoreInv's part.
UpkeepInv ==
    /\ StoreInv /\ SelectionInv /\ RowsInv
    /\ SyncTypeOK /\ ControlInv /\ SyncInv
    /\ DeleteTypeOK /\ DeleteControl /\ DeleteInv
----------------------------------------------------------------------------
(***************************************************************************)
(* Ranks: OFFSET and LIMIT count the rows with a smaller id.               *)
(***************************************************************************)
LEMMA RankType ==
    ASSUME RowsInv, NEW r
    PROVE  IsFiniteSet({s \in rows : s.id < r.id}) /\ Rank(r) \in Nat
<1> DEFINE before == {s \in rows : s.id < r.id}
<1>1. before \in SUBSET rows
  OBVIOUS
<1> HIDE DEF before
<1>2. IsFiniteSet(before) /\ Cardinality(before) \in Nat
  BY <1>1, FS_Subset, FS_CardinalityType DEF RowsInv
<1> QED
  BY <1>2 DEF before, Rank

LEMMA RankOrder ==
    ASSUME RowsInv, rows \subseteq Row, NEW r \in rows, NEW s \in rows, r.id < s.id
    PROVE  Rank(r) < Rank(s)
<1> DEFINE before(x) == {t \in rows : t.id < x.id}
<1>1. r.id \in Nat /\ s.id \in Nat /\ \A t \in rows : t.id \in Nat
  BY DEF Row
<1>2. before(r) \in SUBSET before(s)
  BY <1>1
<1>3. r \in before(s) /\ r \notin before(r)
  BY <1>1
<1>4. IsFiniteSet(before(s)) /\ Rank(r) \in Nat /\ Rank(s) \in Nat
  BY RankType
<1>5. Rank(r) = Cardinality(before(r)) /\ Rank(s) = Cardinality(before(s))
  BY DEF Rank
<1> HIDE DEF before
<1>6. Cardinality(before(r)) <= Cardinality(before(s))
      /\ Cardinality(before(s)) # Cardinality(before(r))
  BY <1>2, <1>3, <1>4, FS_Subset
<1> QED
  BY <1>4, <1>5, <1>6

\* A page that is empty is behind the last row: the ranks of the rows have no gap.
LEMMA NoGap ==
    ASSUME RowsInv, rows \subseteq Row, NEW start \in Nat, NEW limit \in Nat \ {0},
           GetFiles(start, limit) = {}, NEW r \in rows
    PROVE  Rank(r) < start
<1>0. \A u \in rows : Rank(u) \in Nat
  BY RankType
<1> SUFFICES ASSUME Rank(r) >= start PROVE FALSE
  BY <1>0
<1>1. \A t \in rows : t.id \in Nat
  BY DEF Row
<1> DEFINE far == {t.id : t \in {u \in rows : Rank(u) >= start}}
<1>2. far \subseteq Nat /\ far # {}
  BY <1>1
<1>3. PICK m \in far : \A n \in far : m <= n
  <2> HIDE DEF far
  <2> QED
    BY <1>2, LeastNatural
<1>4. PICK t \in rows : t.id = m /\ Rank(t) >= start
  OBVIOUS
<1>5. Rank(t) >= start + limit
  BY <1>0, <1>4 DEF GetFiles
<1> DEFINE before == {u \in rows : u.id < t.id}
<1>6. IsFiniteSet(before) /\ Cardinality(before) = Rank(t) /\ Rank(t) \in Nat
  BY RankType DEF Rank
<1>7. \A u \in before : Rank(u) < start
  <2> SUFFICES ASSUME NEW u \in before, Rank(u) >= start PROVE FALSE
    BY <1>0
  <2>1. u.id \in far /\ u.id \in Nat /\ m \in Nat
    BY <1>1, <1>4
  <2> QED
    BY <2>1, <1>3, <1>4
<1> DEFINE ids == {u.id : u \in before}
<1>8. before # {}
  <2> HIDE DEF before
  <2> QED
    BY <1>5, <1>6, FS_EmptySet
<1>9. before \subseteq rows
  OBVIOUS
<1>10. PICK u \in before : \A v \in before : v.id <= u.id
  <2>1. ids \subseteq 0..t.id /\ t.id \in Nat
    BY <1>1
  <2>2. IsFiniteSet(ids)
    <3> HIDE DEF ids
    <3>1. IsFiniteSet(0..t.id)
      BY <2>1, FS_Interval
    <3> QED
      BY <2>1, <3>1, FS_Subset
  <2>3. ids # {} /\ ids \subseteq Nat
    BY <1>1, <1>8
  <2>4. \E k \in ids : \A n \in ids : n <= k
    <3> HIDE DEF ids
    <3> QED
      BY <2>2, <2>3, LargestOfFinite
  <2> QED
    BY <2>4
<1> DEFINE first == {v \in rows : v.id < u.id}
<1>11. before = first \cup {u}
  <2>1. u \in rows /\ u.id \in Nat /\ u.id < t.id /\ t.id \in Nat
    BY <1>1
  <2>2. ASSUME NEW v \in before PROVE v \in first \cup {u}
    <3>1. v \in rows /\ v.id \in Nat /\ v.id <= u.id
      BY <1>1, <1>10
    <3>2. v.id = u.id => v = u
      BY <3>1, <2>1 DEF RowsInv
    <3> QED
      BY <2>1, <3>1, <3>2
  <2>3. ASSUME NEW v \in first \cup {u} PROVE v \in before
    <3>1. v \in rows /\ v.id \in Nat
      BY <1>1, <2>1
    <3> QED
      BY <2>1, <3>1
  <2> QED
    BY <2>2, <2>3
<1>12. IsFiniteSet(first) /\ Cardinality(first) = Rank(u) /\ Rank(u) \in Nat
  BY RankType DEF Rank
<1>13. u \notin first
  BY <1>1
<1>14. Cardinality(before) = Rank(u) + 1
  <2> HIDE DEF first, before
  <2> QED
    BY <1>11, <1>12, <1>13, FS_AddElement
<1> QED
  BY <1>5, <1>6, <1>7, <1>12, <1>14

\* A page has at most as many rows as it may have.
LEMMA PageSize ==
    ASSUME RowsInv, rows \subseteq Row, NEW start \in Nat, NEW limit \in Nat \ {0}
    PROVE  /\ IsFiniteSet(GetFiles(start, limit))
           /\ Cardinality(GetFiles(start, limit)) <= limit
<1> DEFINE got == GetFiles(start, limit)
           ranks == start..(start + limit - 1)
           f == [r \in got |-> Rank(r)]
<1>0. \A u \in rows : Rank(u) \in Nat
  BY RankType
<1>1. ASSUME NEW r \in got PROVE r \in rows /\ Rank(r) \in ranks
  BY <1>0 DEF GetFiles
<1>2. ASSUME NEW r \in got, NEW s \in got, Rank(r) = Rank(s) PROVE r = s
  <2>1. r \in rows /\ s \in rows /\ r.id \in Nat /\ s.id \in Nat
    BY <1>1 DEF Row
  <2>2. ~(r.id < s.id) /\ ~(s.id < r.id)
    BY <2>1, <1>0, <1>2, RankOrder
  <2> QED
    BY <2>1, <2>2 DEF RowsInv
<1>3. f \in Injection(got, ranks)
  BY <1>1, <1>2 DEF Injection, IsInjective
<1>4. IsFiniteSet(ranks) /\ Cardinality(ranks) = limit
  BY FS_Interval
<1> HIDE DEF got, ranks, f
<1>5. IsFiniteSet(got) /\ Cardinality(got) <= Cardinality(ranks)
  BY <1>3, <1>4, FS_Injection
<1> QED
  BY <1>4, <1>5 DEF got

\* When a row goes, those behind it move up by one.
LEMMA RankAfterDelete ==
    ASSUME RowsInv, rows \subseteq Row, NEW x \in rows, rows' = rows \ {x},
           NEW r \in rows, r # x
    PROVE  Rank(r)' = IF x.id < r.id THEN Rank(r) - 1 ELSE Rank(r)
<1> DEFINE before == {s \in rows : s.id < r.id}
           after == {s \in rows' : s.id < r.id}
<1>1. after = before \ {x}
  OBVIOUS
<1>2. IsFiniteSet(before) /\ Cardinality(before) = Rank(r) /\ Rank(r) \in Nat
  BY RankType DEF Rank
<1>3. Rank(r)' = Cardinality(after)
  BY DEF Rank
<1>4. x \in before <=> x.id < r.id
  OBVIOUS
<1> HIDE DEF before, after
<1> QED
  BY <1>1, <1>2, <1>3, <1>4, FS_RemoveElement

----------------------------------------------------------------------------
(***************************************************************************)
(* The table, whoever writes to it.                                        *)
(***************************************************************************)

\* A saved file's row has an id that no other row has.
LEMMA SaveFileRows ==
    ASSUME RowsInv, rows \subseteq Row, NEW p \in Paths, NEW mtime, NEW type, NEW text,
           SaveFile(p, mtime, type, text)
    PROVE  RowsInv'
<1> DEFINE others == {r \in rows : r.path # p}
<1>1. PICK id \in NextIds(others) :
        rows' = others \cup {[id |-> id, path |-> p, mtime |-> mtime, type |-> type]}
  BY DEF SaveFile
<1>2. \A r \in others : r \in rows /\ r.id # id
  BY <1>1 DEF NextIds, Row
<1>3. IsFiniteSet(rows')
  <2>1. others \in SUBSET rows
    OBVIOUS
  <2> HIDE DEF others
  <2>2. IsFiniteSet(others)
    BY <2>1, FS_Subset DEF RowsInv
  <2> QED
    BY <1>1, <2>2, FS_AddElement
<1>4. \A r \in rows' : r \in others \/ r = [id |-> id, path |-> p, mtime |-> mtime, type |-> type]
  BY <1>1
<1>5. [id |-> id, path |-> p, mtime |-> mtime, type |-> type].id = id
  OBVIOUS
<1> HIDE DEF others
<1> QED
  BY <1>2, <1>3, <1>4, <1>5 DEF RowsInv

LEMMA DeleteFileRows ==
    ASSUME RowsInv, NEW p, DeleteFile(p)
    PROVE  RowsInv'
<1>1. rows' \in SUBSET rows
  BY DEF DeleteFile
<1>2. IsFiniteSet(rows')
  BY <1>1, FS_Subset DEF RowsInv
<1> QED
  BY <1>1, <1>2 DEF RowsInv

\* The row of a path goes, and no other.
LEMMA DeleteFileRemoves ==
    ASSUME StoreTypeOK, NEW r \in rows, DeleteFile(r.path)
    PROVE  rows' = rows \ {r}
BY DEF DeleteFile, StoreTypeOK

\* All that may happen to the table in a step.
LEMMA RowsChange ==
    ASSUME StoreInv, [Next]_vars
    PROVE  \/ UNCHANGED rows
           \/ \E p : DeleteFile(p)
           \/ \E w \in Workers :
                /\ SaverSaveStep(w)
                /\ SaveFile(task[w].path, task[w].stat.mtime, TypeOf(task[w]), task[w].text)
<1>1. CASE OtherPrograms \/ SyncClick \/ DeleteCall \/ Crash \/ QueryFails \/ UNCHANGED vars
  BY <1>1 DEF OtherPrograms, Write, Remove, SyncClick, StartSync, Cancel, DeleteCall,
     StartDelete, Crash, QueryFails, Abort, vars, storeVars
<1>2. CASE \E w \in Workers : Indexing(w) \/ SaverReadStep(w)
  BY <1>2 DEF storeVars, Indexing, StartAdd, SaverReadStep, SaverReads, Lookup, Decide,
     Extract, EndAdd
<1>3. CASE \E w \in Workers : UpdateStep(w)
  BY <1>3 DEF storeVars, UpdateStep, TakeUpdate, StartUpdate, EndUpdate
<1>4. CASE SyncerThread
  BY <1>4 DEF SyncerThread, SyncerStep, ReadPage, CheckRow, DeleteRow, StartUpdates,
     CollectUpdates, storeVars
<1>5. CASE \E w \in Workers : SaverSaveStep(w)
  BY <1>5 DEF SaverSaveStep, Save, SaveFails
<1>6. CASE DeletePath \/ DeleteProcess
  BY <1>6 DEF DeletePath, RemovePath, DeleteProcess, DeleterStep, VisitRow, DeleteVisited,
     NextDeletePage, FailDelete, storeVars
<1> QED
  BY <1>1, <1>2, <1>3, <1>4, <1>5, <1>6 DEF Next, Threads

LEMMA RowsStep ==
    ASSUME StoreInv, RowsInv, [Next]_vars
    PROVE  RowsInv'
<1>1. CASE UNCHANGED rows
  BY <1>1 DEF RowsInv
<1>2. CASE \E p : DeleteFile(p)
  BY <1>2, DeleteFileRows
<1>3. CASE \E w \in Workers :
             /\ SaverSaveStep(w)
             /\ SaveFile(task[w].path, task[w].stat.mtime, TypeOf(task[w]), task[w].text)
  <2>1. PICK w \in Workers :
          /\ At(w, "save")
          /\ SaveFile(task[w].path, task[w].stat.mtime, TypeOf(task[w]), task[w].text)
    BY <1>3 DEF SaverSaveStep, Save
  <2>2. task[w].path \in Paths
    BY <2>1, InFileFacts DEF At, InFile
  <2> QED
    BY <2>1, <2>2, SaveFileRows DEF StoreInv, SaverTypeOK, StoreTypeOK
<1> QED
  BY <1>1, <1>2, <1>3, RowsChange

LEMMA RowsInit == Init => RowsInv
<1> SUFFICES ASSUME Init PROVE RowsInv
  OBVIOUS
<1> PICK index \in Indexes :
      rows = {[id |-> i, path |-> index[i].path, mtime |-> 1, type |-> index[i].type] :
                i \in DOMAIN index}
  BY DEF Init
<1> DEFINE row(i) == [id |-> i, path |-> index[i].path, mtime |-> 1, type |-> index[i].type]
           f == [i \in 1..Len(index) |-> row(i)]
<1>1. Len(index) \in Nat /\ DOMAIN index = 1..Len(index)
  <2>1. index \in Seq([path : Paths, type : {"c", "f", "d"}])
    BY UpkeepAssumption
  <2> QED
    BY <2>1
<1>2. rows = {row(i) : i \in 1..Len(index)}
  BY <1>1
<1>3. \A r \in rows : \E i \in 1..Len(index) : r = row(i) /\ r.id = i
  BY <1>2
<1>4. f \in Surjection(1..Len(index), rows)
  BY <1>2 DEF Surjection
<1>5. IsFiniteSet(rows)
  <2>1. IsFiniteSet(1..Len(index))
    BY <1>1, FS_Interval
  <2> HIDE DEF f, row
  <2> QED
    BY <2>1, <1>4, FS_Surjection
<1> QED
  BY <1>3, <1>5 DEF RowsInv

----------------------------------------------------------------------------
(***************************************************************************)
(* Types, and what goes on whoever interferes.                             *)
(***************************************************************************)
LEMMA TypeParts == TypeOK <=> SaverTypeOK /\ SyncTypeOK /\ DeleteTypeOK
BY DEF TypeOK, SyncTypeOK, DeleteTypeOK

LEMMA TypeInit == Init => SyncTypeOK /\ DeleteTypeOK
<1>1. NoTotals \in [updated : Nat, deleted : Nat, errored : Int]
  BY DEF NoTotals
<1>2. ASSUME Init PROVE SyncTypeOK
  <2>1. options \in [dryRun : BOOLEAN, keepGoing : BOOLEAN, removeDeleted : BOOLEAN]
    BY <1>2 DEF Init
  <2>2. totals \in [updated : Nat, deleted : Nat, errored : Int]
    BY <1>1, <1>2 DEF Init
  <2> QED
    BY <1>2, <2>1, <2>2 DEF Init, SyncTypeOK
<1>3. Init => DeleteTypeOK
  BY DEF Init, DeleteTypeOK
<1> QED
  BY <1>2, <1>3

\* Steps of the syncer's thread keep the types.
LEMMA SyncerTypes ==
    ASSUME StoreInv, RowsInv, IsFiniteSet(selected), SyncTypeOK, SyncerThread
    PROVE  SyncTypeOK'
<1> USE DEF SyncTypeOK
<1>1. CASE ReadPage
  <2> DEFINE got == GetFiles(offset, Limit)
  <2>1. got \in SUBSET rows
    BY DEF GetFiles
  <2>2. got \subseteq Row
    BY <2>1 DEF StoreInv, SaverTypeOK, StoreTypeOK
  <2> HIDE DEF got
  <2>3. Cardinality(got) \in Nat
    BY <2>1, FS_Subset, FS_CardinalityType DEF RowsInv
  <2>4. /\ page' = {r \in got : r.path \in Matching}
        /\ processed' = Cardinality(got)
        /\ syncPc' = IF got = {} THEN "idle" ELSE "check"
        /\ selected' = {}
        /\ UNCHANGED <<options, stopToken, offset, pending, terminate, saved, totals,
                       syncs, seen, announced, failed, interfered>>
    BY <1>1 DEF ReadPage, mapVars, got
  <2> QED
    BY <2>2, <2>3, <2>4
<1>2. CASE CheckRow
  <2>1. PICK r \in page :
          /\ syncPc' \in {"idle", "delete", "check"}
          /\ page' \subseteq page
          /\ seen' \subseteq seen \cup {r.path}
          /\ announced' \subseteq announced \cup {r.path}
          /\ selected' \subseteq selected \cup {r.path}
    BY <1>2 DEF CheckRow
  <2>2. r.path \in Paths
    BY DEF Row
  <2>3. UNCHANGED <<options, stopToken, offset, processed, pending, terminate, saved,
                    totals, syncs, failed, interfered>>
    BY <1>2 DEF CheckRow, mapVars
  <2> QED
    BY <2>1, <2>2, <2>3
<1>3. CASE DeleteRow
  <2>1. /\ syncPc' \in {"idle", "check"}
        /\ page' \subseteq page
        /\ failed' \in BOOLEAN
        /\ totals' = totals \/ totals' = [totals EXCEPT !.deleted = @ + 1]
    BY <1>3 DEF DeleteRow
  <2>2. UNCHANGED <<options, stopToken, offset, processed, selected, pending, terminate, saved,
                    syncs, seen, announced, interfered>>
    BY <1>3 DEF DeleteRow, mapVars
  <2> QED
    BY <2>1, <2>2
<1>4. CASE StartUpdates
  BY <1>4 DEF StartUpdates, pageVars
<1>5. CASE CollectUpdates
  <2>1. Cardinality(selected) \in Nat
    BY FS_CardinalityType
  <2>2. /\ offset' = offset + Limit
        /\ totals' = [totals EXCEPT !.updated = @ + saved,
                                    !.errored = @ + Cardinality(selected) - saved]
        /\ syncPc' = "read"
        /\ UNCHANGED <<options, stopToken, processed, page, selected, pending, terminate, saved,
                       syncs, seen, announced, failed, interfered>>
    BY <1>5 DEF CollectUpdates, Advance, mapVars
  <2>3. totals.updated + saved \in Nat /\ totals.errored + Cardinality(selected) - saved \in Int
    BY <2>1
  <2>4. totals' \in [updated : Nat, deleted : Nat, errored : Int]
    BY <2>2, <2>3
  <2>5. offset' \in Nat
    BY <2>2, SyncerAssumption
  <2> QED
    BY <2>2, <2>4, <2>5
<1> QED
  BY <1>1, <1>2, <1>3, <1>4, <1>5 DEF SyncerThread, SyncerStep

LEMMA SyncTypeStep ==
    ASSUME StoreInv, RowsInv, IsFiniteSet(selected), SyncTypeOK, [Next]_vars
    PROVE  SyncTypeOK'
<1>1. CASE SyncerThread
  BY <1>1, SyncerTypes
<1>2. CASE \E w \in Workers : UpdateStep(w)
  <2> PICK w \in Workers : TakeUpdate(w) \/ EndUpdate(w)
    BY <1>2 DEF UpdateStep
  <2>1. CASE TakeUpdate(w)
    <3>1. pending' \subseteq pending
      BY <2>1 DEF TakeUpdate
    <3> QED
      BY <2>1, <3>1 DEF TakeUpdate, SyncTypeOK, pageVars
  <2>2. CASE EndUpdate(w)
    <3>1. terminate' \in BOOLEAN /\ saved' \in Nat /\ failed' \in BOOLEAN
      BY <2>2 DEF EndUpdate, SyncTypeOK
    <3> QED
      BY <2>2, <3>1 DEF EndUpdate, SyncTypeOK, pageVars
  <2> QED
    BY <2>1, <2>2
<1>3. CASE SyncClick
  <2>1. CASE StartSync
    <3>1. options' \in [dryRun : BOOLEAN, keepGoing : BOOLEAN, removeDeleted : BOOLEAN]
      BY <2>1, SyncerAssumption DEF StartSync
    <3>2. totals' \in [updated : Nat, deleted : Nat, errored : Int]
      BY <2>1 DEF StartSync, NoTotals
    <3>3. /\ syncPc' = "read" /\ stopToken' = FALSE /\ offset' = 0 /\ syncs' = syncs + 1
          /\ seen' = {} /\ announced' = {} /\ failed' = FALSE /\ interfered' = FALSE
          /\ UNCHANGED <<processed, page, selected, pending, terminate, saved>>
      BY <2>1 DEF StartSync, mapVars
    <3>4. /\ (syncPc \in {"idle", "read", "check", "delete", "update"})'
          /\ (stopToken \in BOOLEAN)'
          /\ (offset \in Nat)'
          /\ (processed \in Nat)'
          /\ (page \subseteq Row)'
          /\ (selected \subseteq Paths)'
          /\ (pending \subseteq Paths)'
      BY <3>3 DEF SyncTypeOK
    <3>5. /\ (saved \in Nat)'
          /\ (syncs \in Nat)'
          /\ (seen \subseteq Paths)'
          /\ (announced \subseteq Paths)'
      BY <3>3 DEF SyncTypeOK
    <3>6. (terminate \in BOOLEAN /\ failed \in BOOLEAN /\ interfered \in BOOLEAN)'
      BY <3>3 DEF SyncTypeOK
    <3> QED
      BY <3>1, <3>2, <3>4, <3>5, <3>6 DEF SyncTypeOK
  <2>2. CASE Cancel
    BY <2>2 DEF Cancel, SyncTypeOK, pageVars, mapVars
  <2> QED
    BY <1>3, <2>1, <2>2 DEF SyncClick
<1>4. CASE Crash \/ QueryFails
  BY <1>4 DEF Crash, QueryFails, Abort, Disturb, SyncTypeOK, pageVars
<1>5. CASE \/ OtherPrograms \/ DeleteProcess \/ DeletePath
           \/ \E w \in Workers : SaverSaveStep(w)
  <2>1. SyncUndisturbed /\ interfered' \in BOOLEAN
    BY <1>5 DEF OtherPrograms, Disturb, DeleteProcess, DeletePath, SaverSaveStep, SyncTypeOK
  <2> QED
    BY <2>1 DEF SyncUndisturbed, SyncTypeOK, pageVars, mapVars
<1>6. CASE \/ DeleteCall \/ UNCHANGED vars
           \/ \E w \in Workers : Indexing(w) \/ SaverReadStep(w)
  <2>1. UNCHANGED syncVars
    BY <1>6 DEF DeleteCall, vars, Indexing, SaverReadStep
  <2> QED
    BY <2>1 DEF syncVars, SyncTypeOK, pageVars, mapVars
<1> QED
  BY <1>1, <1>2, <1>3, <1>4, <1>5, <1>6 DEF Next, Threads

LEMMA DeleteTypeStep ==
    ASSUME StoreInv, RowsInv, DeleteTypeOK, [Next]_vars
    PROVE  DeleteTypeOK'
<1> USE DEF DeleteTypeOK
<1>1. rows \subseteq Row
  BY DEF StoreInv, SaverTypeOK, StoreTypeOK
<1>2. CASE DeleteCall
  <2>1. deleteOptions' \in [dryRun : BOOLEAN, onlyDeleted : BOOLEAN]
    BY <1>2, DeleteAssumption DEF DeleteCall, StartDelete
  <2>2. deletePage' \subseteq rows /\ deletePc' \in {"idle", "visit"}
    BY <1>2 DEF DeleteCall, StartDelete, DeletePageAt, GetFiles
  <2>3. /\ deleteOffset' = 0 /\ deleted' = 0 /\ deletes' = deletes + 1
        /\ listed' = {} /\ disturbed' = FALSE
    BY <1>2 DEF DeleteCall, StartDelete
  <2>4. deletePage' \subseteq Row
    BY <1>1, <2>2
  <2>5. /\ (deletePc \in {"idle", "visit", "delete"})'
        /\ (deleteOffset \in Int)'
        /\ (deleted \in Nat)'
        /\ (deletes \in Nat)'
        /\ (listed \subseteq Paths)'
    BY <2>2, <2>3
  <2>6. (disturbed \in BOOLEAN)'
    BY <2>3
  <2> QED
    BY <2>1, <2>4, <2>5, <2>6
<1>3. CASE DeleteProcess
  <2>1. CASE VisitRow
    <3>1. PICK r \in deletePage :
            /\ deletePc' \in {"visit", "delete"}
            /\ deletePage' \subseteq deletePage
            /\ listed' \subseteq listed \cup {r.path}
      BY <2>1 DEF VisitRow
    <3>2. r.path \in Paths
      BY DEF Row
    <3>3. UNCHANGED <<deleteOptions, deleteOffset, deleted, deletes, disturbed>>
      BY <2>1 DEF VisitRow
    <3> QED
      BY <3>1, <3>2, <3>3
  <2>2. CASE DeleteVisited
    BY <2>2 DEF DeleteVisited
  <2>3. CASE NextDeletePage
    <3>1. NextOffset \in Int
      BY DeleteAssumption DEF NextOffset
    <3> QED
      BY <1>1, <2>3, <3>1 DEF NextDeletePage, DeletePageAt, GetFiles
  <2>4. CASE FailDelete
    BY <2>4 DEF FailDelete
  <2> QED
    BY <1>3, <2>1, <2>2, <2>3, <2>4 DEF DeleteProcess, DeleterStep
<1>4. CASE DeletePath
  BY <1>4 DEF DeletePath, RemovePath
<1>5. CASE \/ OtherPrograms \/ Crash \/ QueryFails \/ SyncerThread
           \/ \E w \in Workers : SaverSaveStep(w)
  <2>1. DeleteUndisturbed /\ disturbed' \in BOOLEAN
    BY <1>5 DEF OtherPrograms, Disturb, Crash, QueryFails, Abort, SyncerThread, SaverSaveStep
  <2> QED
    BY <2>1 DEF DeleteUndisturbed
<1>6. CASE \/ SyncClick \/ UNCHANGED vars
           \/ \E w \in Workers : Indexing(w) \/ SaverReadStep(w) \/ UpdateStep(w)
  <2>1. UNCHANGED deleteVars
    BY <1>6 DEF SyncClick, vars, Indexing, SaverReadStep, UpdateStep
  <2> QED
    BY <2>1 DEF deleteVars
<1> QED
  BY <1>2, <1>3, <1>4, <1>5, <1>6 DEF Next, Threads

\* A thread inside FileSaver touches its own task only.
LEMMA OtherTasks ==
    ASSUME StoreInv, NEW w \in Workers,
           \/ SaverReads(w) \/ Save(w) \/ TakeUpdate(w) \/ EndUpdate(w)
           \/ \E p \in Paths : StartAdd(w, p),
           NEW v \in Workers, v # w
    PROVE  task'[v] = task[v]
<1>1. task \in [Workers -> Task \cup Answer \cup {Idle}]
  BY DEF StoreInv, SaverTypeOK
<1>2. task' = task \/ \E t : task' = [task EXCEPT ![w] = t]
  <2>1. CASE SaverReads(w)
    <3>1. CASE Lookup(w)
      BY <3>1 DEF Lookup, AddQueryFails, Return, Go
    <3>2. CASE Decide(w)
      BY <3>2 DEF Decide, AddQueryFails, Return, Go
    <3>3. CASE Extract(w) \/ EndAdd(w)
      BY <3>3 DEF Extract, EndAdd, Return, Go
    <3> QED
      BY <2>1, <3>1, <3>2, <3>3 DEF SaverReads
  <2>2. CASE Save(w)
    BY <2>2 DEF Save, SaveFails, Return
  <2>3. CASE TakeUpdate(w)
    BY <2>3 DEF TakeUpdate, StartUpdate, Begin, saverVars
  <2>4. CASE EndUpdate(w) \/ \E p \in Paths : StartAdd(w, p)
    BY <2>4 DEF EndUpdate, StartAdd, Begin
  <2> QED
    BY <2>1, <2>2, <2>3, <2>4
<1> QED
  BY <1>1, <1>2

\* An update stays one, of the same file, until syncer takes its answer, and no other
\* call becomes one.
LEMMA UpdateMoves ==
    ASSUME StoreInv, NEW w \in Workers, SaverReads(w) \/ Save(w)
    PROVE  /\ IsUpdate(task[w]) <=> IsUpdate(task'[w])
           /\ IsUpdate(task'[w]) =>
                /\ task'[w].path = task[w].path
                /\ task'[w].pc # "lookup"
                /\ InFile(task'[w]) => InFile(task[w]) /\ task'[w].mode = task[w].mode
<1> DEFINE t == task[w]
           returned(result) == [pc |-> "answer", for |-> t.for, path |-> t.path,
                                result |-> result]
<1>1. task \in [Workers -> Task \cup Answer \cup {Idle}]
  BY DEF StoreInv, SaverTypeOK
<1>2. CASE EndAdd(w)
  <2>1. task'[w] = Idle /\ t.for = "add"
    BY <1>1, <1>2 DEF EndAdd
  <2> QED
    BY <2>1 DEF IsUpdate, Idle
<1>3. CASE Lookup(w) \/ Decide(w) \/ Extract(w) \/ Save(w)
  <2>1. InFile(t) /\ t.pc # "idle"
    BY <1>3 DEF Lookup, Decide, Extract, Save, At, InFile
  <2>2. \/ \E result : Return(w, result)
        \/ \E pc \in {"decide", "extract", "save"} : \E stat, text : Go(w, pc, stat, text)
    <3>1. CASE Lookup(w) \/ Save(w)
      BY <3>1 DEF Lookup, AddQueryFails, Save, SaveFails
    <3>2. CASE Decide(w)
      BY <3>2 DEF Decide, AddQueryFails
    <3>3. CASE Extract(w)
      BY <3>3 DEF Extract
    <3> QED
      BY <1>3, <3>1, <3>2, <3>3
  <2>3. CASE \E result : Return(w, result)
    <3>1. PICK result : task'[w] = returned(result)
      BY <1>1, <2>3 DEF Return
    <3>2. task'[w].pc = "answer" /\ task'[w].for = t.for /\ task'[w].path = t.path
      BY <3>1
    <3> QED
      BY <2>1, <3>2 DEF IsUpdate, InFile
  <2>4. CASE \E pc \in {"decide", "extract", "save"} : \E stat, text : Go(w, pc, stat, text)
    <3>1. PICK pc \in {"decide", "extract", "save"} : \E stat, text : Go(w, pc, stat, text)
      BY <2>4
    <3>2. PICK stat, text : Go(w, pc, stat, text)
      BY <3>1
    <3>3. task'[w] = [pc |-> pc, for |-> t.for, path |-> t.path, mode |-> t.mode,
                      stat |-> stat, text |-> text]
      BY <1>1, <3>2 DEF Go
    <3>4. /\ task'[w].pc = pc /\ task'[w].for = t.for /\ task'[w].path = t.path
          /\ task'[w].mode = t.mode
      BY <3>3
    <3> QED
      BY <2>1, <3>4 DEF IsUpdate, InFile
  <2> QED
    BY <2>2, <2>3, <2>4
<1> QED
  BY <1>2, <1>3 DEF SaverReads

LEMMA ControlInit == Init => ControlInv
<1> SUFFICES ASSUME Init PROVE ControlInv
  OBVIOUS
<1>1. IsFiniteSet(selected)
  BY FS_EmptySet DEF Init
<1>2. \A w \in Workers : ~IsUpdate(task[w])
  BY DEF Init, Idle, IsUpdate
<1> QED
  BY <1>1, <1>2 DEF Init, ControlInv

LEMMA ControlStep ==
    ASSUME StoreInv, ControlInv, [Next]_vars
    PROVE  ControlInv'
<1> USE DEF ControlInv
<1>1. CASE /\ UNCHANGED <<syncPc, options, selected, pending>>
           /\ stopToken' = stopToken \/ syncPc = "idle"
           /\ \A w \in Workers : IsUpdate(task'[w]) =>
                /\ IsUpdate(task[w])
                /\ task'[w].pc # "lookup"
                /\ InFile(task'[w]) => InFile(task[w]) /\ task'[w].mode = task[w].mode
  BY <1>1
<1>2. CASE \/ OtherPrograms \/ DeletePath \/ DeleteProcess \/ DeleteCall
           \/ UNCHANGED vars \/ (SyncClick /\ Cancel)
  <2>1. UNCHANGED <<syncPc, options, selected, pending, task>>
        /\ (stopToken' = stopToken \/ syncPc = "idle")
    BY <1>2 DEF OtherPrograms, DeletePath, DeleteProcess, DeleteCall, vars, Cancel,
       SyncUndisturbed, syncVars, pageVars, mapVars, saverVars
  <2> QED
    BY <1>1, <2>1
<1>3. ASSUME NEW w \in Workers, SaverReadStep(w) \/ SaverSaveStep(w)
      PROVE  ControlInv'
  <2>1. UNCHANGED <<syncPc, options, selected, pending, stopToken>>
    BY <1>3 DEF SaverReadStep, SaverSaveStep, SyncUndisturbed, syncVars, pageVars, mapVars
  <2>2. SaverReads(w) \/ Save(w)
    BY <1>3 DEF SaverReadStep, SaverSaveStep
  <2>3. \A v \in Workers : v # w => task'[v] = task[v]
    BY <2>2, OtherTasks
  <2> QED
    BY <1>1, <2>1, <2>2, <2>3, UpdateMoves
<1>4. ASSUME NEW w \in Workers, Indexing(w) PROVE ControlInv'
  <2>1. UNCHANGED <<syncPc, options, selected, pending, stopToken>>
    BY <1>4 DEF Indexing, syncVars, pageVars, mapVars
  <2>2. \A v \in Workers : v # w => task'[v] = task[v]
    BY <1>4, OtherTasks, StoreAssumption DEF Indexing
  <2>3. ~IsUpdate(task'[w])
    <3>1. task \in [Workers -> Task \cup Answer \cup {Idle}]
      BY DEF StoreInv, SaverTypeOK
    <3> QED
      BY <1>4, <3>1 DEF Indexing, StartAdd, Begin, IsUpdate
  <2> QED
    BY <1>1, <2>1, <2>2, <2>3
<1>5. ASSUME NEW w \in Workers, UpdateStep(w) PROVE ControlInv'
  <2>1. \A v \in Workers : v # w => task'[v] = task[v]
    BY <1>5, OtherTasks DEF UpdateStep
  <2>2. UNCHANGED <<syncPc, options, selected, stopToken>> /\ pending' \subseteq pending
    BY <1>5 DEF UpdateStep, TakeUpdate, EndUpdate, pageVars
  <2>3. task \in [Workers -> Task \cup Answer \cup {Idle}]
    BY DEF StoreInv, SaverTypeOK
  <2>4. CASE EndUpdate(w)
    <3>1. ~IsUpdate(task'[w])
      BY <2>3, <2>4 DEF EndUpdate, IsUpdate, Idle
    <3> QED
      BY <2>1, <2>2, <3>1
  <2>5. CASE TakeUpdate(w)
    <3>1. syncPc = "update" /\ ~options.dryRun
      BY <2>5 DEF TakeUpdate
    <3>2. \/ task' = task
          \/ /\ task'[w].pc = "decide"
             /\ task'[w].mode = "content"
      BY <2>3, <2>5 DEF TakeUpdate, StartUpdate, Begin, saverVars
    <3> QED
      BY <2>1, <2>2, <3>1, <3>2
  <2> QED
    BY <1>5, <2>4, <2>5 DEF UpdateStep
<1>6. CASE SyncClick /\ StartSync
  <2>1. syncPc = "idle" /\ syncPc' = "read" /\ ~stopToken' /\ UNCHANGED <<selected, task>>
    BY <1>6 DEF StartSync, saverVars
  <2> QED
    BY <2>1
<1>7. CASE Crash \/ QueryFails
  <2>1. syncPc' = "idle" /\ UNCHANGED selected
    BY <1>7 DEF Crash, QueryFails, Abort, pageVars
  <2>2. PICK gone \in {Updating, Workers} :
          task' = [w \in Workers |-> IF w \in gone THEN Idle ELSE task[w]]
    BY <1>7 DEF Crash, QueryFails, Abort
  <2>3. ASSUME NEW w \in Workers PROVE ~IsUpdate(task'[w])
    <3>1. CASE w \in gone
      BY <2>2, <3>1 DEF IsUpdate, Idle
    <3>2. CASE w \notin gone
      BY <2>2, <3>2 DEF IsUpdate, Updating, At
    <3> QED
      BY <3>1, <3>2
  <2> QED
    BY <2>1, <2>3
<1>8. CASE SyncerThread
  <2>1. UNCHANGED <<task, options, stopToken>>
    BY <1>8 DEF SyncerThread, SyncerStep, ReadPage, CheckRow, DeleteRow, StartUpdates,
       CollectUpdates, saverVars
  <2>2. CASE ReadPage
    <3>1. syncPc = "read" /\ syncPc' \in {"idle", "check"} /\ selected' = {}
      BY <2>2 DEF ReadPage
    <3> QED
      BY <2>1, <3>1, FS_EmptySet
  <2>3. CASE CheckRow
    <3>1. PICK r \in page :
            /\ syncPc' \in {"idle", "delete", "check"}
            /\ syncPc' = "delete" => ~options.dryRun
            /\ selected' \subseteq selected \cup {r.path}
            /\ options.dryRun => selected' = selected
      BY <2>3 DEF CheckRow
    <3>2. IsFiniteSet(selected \cup {r.path})
      BY FS_AddElement
    <3>3. IsFiniteSet(selected')
      BY <3>1, <3>2, FS_Subset
    <3>4. syncPc = "check"
      BY <2>3 DEF CheckRow
    <3> QED
      BY <2>1, <3>1, <3>3, <3>4
  <2>4. CASE DeleteRow
    <3>1. syncPc = "delete" /\ syncPc' \in {"idle", "check"} /\ UNCHANGED selected
      BY <2>4 DEF DeleteRow
    <3> QED
      BY <2>1, <3>1
  <2>5. CASE StartUpdates
    <3>1. syncPc = "check" /\ syncPc' = "update" /\ pending' = selected /\ UNCHANGED selected
      BY <2>5 DEF StartUpdates, pageVars
    <3> QED
      BY <2>1, <3>1
  <2>6. CASE CollectUpdates
    <3>1. syncPc' = "read" /\ UNCHANGED selected /\ Updating = {} /\ syncPc = "update"
      BY <2>6 DEF CollectUpdates
    <3>2. \A w \in Workers : ~IsUpdate(task[w])
      BY <3>1 DEF Updating, IsUpdate, At
    <3> QED
      BY <2>1, <3>1, <3>2
  <2> QED
    BY <1>8, <2>2, <2>3, <2>4, <2>5, <2>6 DEF SyncerThread, SyncerStep
<1> QED
  BY <1>2, <1>3, <1>4, <1>5, <1>6, <1>7, <1>8 DEF Next, Threads, SyncClick

----------------------------------------------------------------------------
(***************************************************************************)
(* A sync that nothing disturbs.                                           *)
(***************************************************************************)

\* What changes nothing of the files, the table, the sync and its updates.
LEMMA QuietStutter ==
    ASSUME QuietInv,
           UNCHANGED <<disk, rows, syncPc, options, offset, page, selected, pending,
                       terminate, seen, announced, failed>>,
           \A w \in Workers : IsUpdate(task[w]) \/ IsUpdate(task'[w]) => task'[w] = task[w]
    PROVE  QuietInv'
<1>1. PageInv'
  BY DEF QuietInv, PageInv, GetFiles, Rank
<1>2. \A r : InSync(r)' = InSync(r)
  BY DEF InSync, IsStale, IsGone, IsFile, Exists
<1>3. UpdatesInv'
  BY <1>2 DEF QuietInv, UpdatesInv, UpdateFits, Exists
<1>4. TerminateInv'
  BY DEF QuietInv, TerminateInv
<1>5. SeenInv'
  BY <1>2 DEF QuietInv, SeenInv, Underway, IsFirst
<1>6. AnnouncedInv'
  BY DEF QuietInv, AnnouncedInv, Behind, Rank, Wanted, IsStale, IsGone, IsFile, Exists
<1> QED
  BY <1>1, <1>3, <1>4, <1>5, <1>6 DEF QuietInv

\* A step of one update that leaves the table alone.
LEMMA UpdateMovesOn ==
    ASSUME QuietInv,
           UNCHANGED <<disk, rows, syncPc, options, offset, page, selected, pending,
                       terminate, seen, announced, failed>>,
           NEW w \in Workers, IsUpdate(task[w]), IsUpdate(task'[w]),
           task'[w].path = task[w].path, UpdateFits(task'[w]),
           \A v \in Workers : v # w => task'[v] = task[v]
    PROVE  QuietInv'
<1>1. PageInv'
  BY DEF QuietInv, PageInv, GetFiles, Rank
<1>2. \A r : InSync(r)' = InSync(r)
  BY DEF InSync, IsStale, IsGone, IsFile, Exists
<1>3. UpdatesInv'
  BY <1>2 DEF QuietInv, UpdatesInv, UpdateFits, Exists
<1>4. TerminateInv'
  BY DEF QuietInv, TerminateInv
<1>5. SeenInv'
  BY <1>2 DEF QuietInv, SeenInv, Underway, IsFirst
<1>6. AnnouncedInv'
  BY DEF QuietInv, AnnouncedInv, Behind, Rank, Wanted, IsStale, IsGone, IsFile, Exists
<1> QED
  BY <1>1, <1>3, <1>4, <1>5, <1>6 DEF QuietInv

\* An update looks at its file: while nobody interferes, what it sees is what the row is
\* compared with.
LEMMA QuietReads ==
    ASSUME StoreInv, ControlInv, QuietInv, NEW w \in Workers, SaverReadStep(w)
    PROVE  QuietInv'
<1> DEFINE t == task[w]
<1>1. UNCHANGED <<disk, rows, syncPc, options, offset, page, selected, pending,
                  terminate, seen, announced, failed>>
  BY DEF SaverReadStep, SaverReads, Lookup, Decide, Extract, EndAdd, storeVars, syncVars,
     pageVars, mapVars
<1>2. SaverReads(w)
  BY DEF SaverReadStep
<1>3. \A v \in Workers : v # w => task'[v] = task[v]
  BY <1>2, OtherTasks
<1>4. CASE ~IsUpdate(t)
  <2>1. ~IsUpdate(task'[w])
    BY <1>2, <1>4, UpdateMoves
  <2> QED
    BY <1>1, <1>3, <1>4, <2>1, QuietStutter
<1>5. CASE IsUpdate(t)
  <2>1. IsUpdate(task'[w]) /\ task'[w].path = t.path
    BY <1>2, <1>5, UpdateMoves
  <2>2. t.pc # "lookup" /\ (InFile(t) => t.mode = "content") /\ UpdateFits(t)
    BY <1>5 DEF ControlInv, QuietInv, UpdatesInv
  <2>3. task \in [Workers -> Task \cup Answer \cup {Idle}]
    BY DEF StoreInv, SaverTypeOK
  <2>4. UpdateFits(task'[w])
    <3>1. CASE Lookup(w) \/ EndAdd(w)
      BY <1>5, <2>2, <3>1 DEF Lookup, EndAdd, At, IsUpdate
    <3>2. CASE Decide(w)
      <4>1. t.pc = "decide" /\ t.stat = Unknown /\ t.mode = "content"
        BY <2>2, <3>2 DEF Decide, At, UpdateFits, InFile
      <4>2. \/ \E result \in {"noaccess", "notfound"} : Return(w, result)
            \/ Return(w, "skipped") /\ t.path \in Excluded
            \/ /\ Exists(t.path)
               /\ \E text \in {Nothing, Withheld} :
                    \/ Go(w, "extract", disk[t.path], text)
                    \/ Go(w, "save", disk[t.path], text)
        <5>1. Known(t) = disk[t.path]
          BY <4>1 DEF Known
        <5>2. LeavesOut(t) \subseteq {"noaccess", "notfound", "skipped"}
              /\ ("skipped" \in LeavesOut(t) => t.path \in Excluded)
              /\ (LeavesOut(t) = {} => Exists(t.path))
          BY DEF LeavesOut
        <5>3. ~AddQueryFails(w)
          <6>1. t.for = "update"
            BY <1>5 DEF IsUpdate
          <6> QED
            BY <6>1 DEF AddQueryFails
        <5> HIDE DEF t
        <5>4. \/ \E result \in LeavesOut(t) : Return(w, result)
              \/ /\ LeavesOut(t) = {}
                 /\ \E text \in {Nothing, Withheld} :
                      Go(w, "extract", Known(t), text) \/ Go(w, "save", Known(t), text)
          BY <3>2, <5>3 DEF Decide, t
        <5> QED
          BY <5>1, <5>2, <5>4
      <4>3. CASE \E result \in {"noaccess", "notfound"} : Return(w, result)
        BY <2>3, <4>3 DEF Return, UpdateFits
      <4>4. CASE Return(w, "skipped") /\ t.path \in Excluded
        BY <2>3, <4>4 DEF Return, UpdateFits
      <4>5. CASE /\ Exists(t.path)
                 /\ \E text \in {Nothing, Withheld} :
                      \/ Go(w, "extract", disk[t.path], text)
                      \/ Go(w, "save", disk[t.path], text)
        BY <2>3, <4>5 DEF Go, UpdateFits
      <4> QED
        BY <4>2, <4>3, <4>4, <4>5
    <3>3. CASE Extract(w)
      <4>1. t.pc = "extract" /\ t.stat = disk[t.path] /\ Exists(t.path)
        BY <2>2, <3>3 DEF Extract, At, UpdateFits
      <4>2. PICK a \in ChildAnswers(t.path) \cup NoAnswers :
              \/ \E text : Go(w, "save", t.stat, text)
              \/ Return(w, a.result) /\ a.result # "ok"
        BY <3>3 DEF Extract
      <4>3. a.result # "skipped"
        <5>1. disk[t.path].kind \in {"missing", "dir", "empty", "file"}
          BY <4>1, InFileFacts DEF InFile, Stat
        <5> QED
          BY <5>1 DEF ChildAnswers, NoAnswers
      <4>4. CASE \E text : Go(w, "save", t.stat, text)
        <5>1. PICK text : Go(w, "save", t.stat, text)
          BY <4>4
        <5> QED
          BY <2>3, <4>1, <5>1 DEF Go, UpdateFits
      <4>5. CASE Return(w, a.result) /\ a.result # "ok"
        BY <2>3, <4>3, <4>5 DEF Return, UpdateFits
      <4> QED
        BY <4>2, <4>4, <4>5
    <3> QED
      BY <1>2, <3>1, <3>2, <3>3 DEF SaverReads
  <2> QED
    BY <1>1, <1>3, <1>5, <2>1, <2>4, UpdateMovesOn
<1> QED
  BY <1>4, <1>5

\* What saveFile wrote is in sync; the other rows are what they were.
LEMMA QuietSave ==
    ASSUME StoreInv, ControlInv, QuietInv, NEW w \in Workers, SaverSaveStep(w), ~interfered'
    PROVE  QuietInv'
<1> DEFINE t == task[w]
<1>1. UNCHANGED <<disk, syncPc, options, offset, page, selected, pending, terminate, seen,
                  announced, failed>>
  BY DEF SaverSaveStep, Save, SyncUndisturbed, pageVars, mapVars
<1>2. Save(w) /\ t.for = "update"
  <2>1. Save(w) /\ t.for # "add"
    BY DEF SaverSaveStep
  <2>2. t \in Task
    BY <2>1, TaskShape DEF StoreInv, Save, At, InFile
  <2> QED
    BY <2>1, <2>2 DEF Task
<1>3. \A v \in Workers : v # w => task'[v] = task[v]
  BY <1>2, OtherTasks
<1>4. t.pc = "save" /\ IsUpdate(t)
  BY <1>2 DEF Save, At, IsUpdate
<1>5. syncPc = "update" /\ ~options.dryRun /\ UpdateFits(t)
  BY <1>4 DEF ControlInv, QuietInv, UpdatesInv
<1>6. t.stat = disk[t.path] /\ Exists(t.path)
  BY <1>4, <1>5 DEF UpdateFits
<1>7. IsUpdate(task'[w]) /\ task'[w].path = t.path
  BY <1>2, <1>4, UpdateMoves
<1>8. task \in [Workers -> Task \cup Answer \cup {Idle}]
  BY DEF StoreInv, SaverTypeOK
<1>9. CASE SaveFails(w)
  <2>1. Return(w, "dbfail") /\ UNCHANGED rows
    BY <1>9 DEF SaveFails
  <2>2. UpdateFits(task'[w])
    BY <1>8, <2>1 DEF Return, UpdateFits
  <2> QED
    BY <1>1, <1>3, <1>4, <1>7, <2>1, <2>2, UpdateMovesOn
<1>10. CASE SaveFile(t.path, t.stat.mtime, TypeOf(t), t.text) /\ Return(w, "ok")
  <2>1. PICK id :
          rows' = {r \in rows : r.path # t.path}
                    \cup {[id |-> id, path |-> t.path, mtime |-> t.stat.mtime, type |-> TypeOf(t)]}
    BY <1>10 DEF SaveFile
  <2>2. \A r \in rows' : \/ r \in rows /\ r.path # t.path
                         \/ r.path = t.path /\ r.mtime = t.stat.mtime
    BY <2>1
  <2>3. \A r : InSync(r)' = InSync(r)
    BY <1>1 DEF InSync, IsStale, IsGone, IsFile, Exists
  <2>4. \A r \in rows' : r.path = t.path => InSync(r)
    BY <1>6, <2>2 DEF InSync, IsStale, IsGone, IsFile, Exists
  <2>5. task'[w].pc = "answer" /\ task'[w].result = "ok"
    BY <1>8, <1>10 DEF Return
  <2>6. UpdateFits(task[w])'
    BY <1>7, <2>3, <2>4, <2>5 DEF UpdateFits
  <2>7. ASSUME NEW v \in Workers, v # w, IsUpdate(task[v]) PROVE UpdateFits(task[v])'
    <3>1. task'[v] = task[v] /\ UpdateFits(task[v])
      BY <1>3, <2>7 DEF QuietInv, UpdatesInv
    <3>2. \A r \in rows' : r \in rows \/ InSync(r)
      BY <2>2, <2>4
    <3>3. task[v].pc = "answer" /\ task[v].result = "ok"
          => \A r \in rows' : r.path = task[v].path => InSync(r)'
      BY <2>3, <3>1, <3>2 DEF UpdateFits
    <3> QED
      BY <1>1, <3>1, <3>3 DEF UpdateFits, Exists
  <2>8. UpdatesInv'
    BY <1>3, <2>6, <2>7 DEF UpdatesInv
  <2>9. SeenInv'
    <3>1. \A r \in rows : Underway(r) => Underway(r)'
      BY <1>1, <1>3, <1>4, <1>7 DEF Underway, IsFirst
    <3> QED
      BY <1>1, <2>2, <2>3, <2>4, <3>1 DEF QuietInv, SeenInv
  <2> QED
    BY <1>1, <1>5, <2>8, <2>9 DEF QuietInv, PageInv, TerminateInv, AnnouncedInv
<1> QED
  BY <1>2, <1>9, <1>10 DEF Save

\* The pool takes a path, or leaves it alone after a failure.
LEMMA QuietTake ==
    ASSUME StoreInv, ControlInv, QuietInv, NEW w \in Workers, TakeUpdate(w)
    PROVE  QuietInv'
<1>1. /\ UNCHANGED <<disk, rows, syncPc, options, offset, page, selected, terminate, seen,
                     announced, failed>>
      /\ syncPc = "update" /\ ~options.dryRun
  BY DEF TakeUpdate, StartUpdate, pageVars, storeVars, ControlInv
<1>2. PICK p \in pending :
        /\ pending' = pending \ {p}
        /\ IF terminate THEN At(w, "idle") /\ UNCHANGED <<storeVars, saverVars>>
                        ELSE StartUpdate(w, p)
  BY DEF TakeUpdate
<1>3. \A v \in Workers : v # w => task'[v] = task[v]
  BY OtherTasks
<1>4. task \in [Workers -> Task \cup Answer \cup {Idle}]
  BY DEF StoreInv, SaverTypeOK
<1>5. \A r : InSync(r)' = InSync(r)
  BY <1>1 DEF InSync, IsStale, IsGone, IsFile, Exists
<1>6. PageInv' /\ TerminateInv' /\ AnnouncedInv'
  BY <1>1 DEF QuietInv, PageInv, TerminateInv, AnnouncedInv
<1>7. CASE terminate
  <2>1. task' = task /\ failed
    BY <1>1, <1>2, <1>7 DEF saverVars, QuietInv, TerminateInv
  <2>2. UpdatesInv'
    BY <1>1, <1>5, <2>1 DEF QuietInv, UpdatesInv, UpdateFits, Exists
  <2> QED
    BY <1>1, <1>6, <2>1, <2>2 DEF QuietInv, SeenInv
<1>8. CASE ~terminate
  <2>1. ~IsUpdate(task[w])
    BY <1>2, <1>8 DEF StartUpdate, At, IsUpdate
  <2>2. task'[w].pc = "decide" /\ task'[w].stat = Unknown /\ task'[w].path = p
        /\ task'[w].for = "update"
    BY <1>2, <1>4, <1>8 DEF StartUpdate, Begin
  <2>3. UpdateFits(task[w])' /\ IsUpdate(task'[w])
    BY <2>2 DEF UpdateFits, IsUpdate
  <2>4. UpdatesInv'
    BY <1>1, <1>3, <1>5, <2>3 DEF QuietInv, UpdatesInv, UpdateFits, Exists
  <2>5. \A r \in rows : Underway(r) => Underway(r)'
    BY <1>1, <1>2, <1>3, <2>1, <2>2, <2>3 DEF Underway
  <2>6. SeenInv'
    BY <1>1, <1>5, <2>5 DEF QuietInv, SeenInv
  <2> QED
    BY <1>6, <2>4, <2>6 DEF QuietInv
<1> QED
  BY <1>7, <1>8

\* An update that ended well has brought its row in agreement with the file; any other
\* counts as a failure.
LEMMA QuietEnd ==
    ASSUME StoreInv, ControlInv, QuietInv, NEW w \in Workers, EndUpdate(w)
    PROVE  QuietInv'
<1>1. /\ UNCHANGED <<disk, rows, syncPc, options, offset, page, selected, pending, seen,
                     announced>>
      /\ failed' = (failed \/ task[w].result \notin {"ok", "skipped"})
      /\ terminate' => terminate \/ task[w].result \in {"dbfail", "processfail"}
  BY DEF EndUpdate, pageVars, storeVars
<1>2. IsUpdate(task[w]) /\ task[w].pc = "answer"
  BY DEF EndUpdate, At, IsUpdate
<1>3. syncPc = "update" /\ ~options.dryRun /\ UpdateFits(task[w])
  BY <1>2 DEF ControlInv, QuietInv, UpdatesInv
<1>4. \A v \in Workers : v # w => task'[v] = task[v]
  BY OtherTasks
<1>5. ~IsUpdate(task'[w])
  BY DEF EndUpdate, IsUpdate, Idle, StoreInv, SaverTypeOK
<1>6. \A r : InSync(r)' = InSync(r)
  BY <1>1 DEF InSync, IsStale, IsGone, IsFile, Exists
<1>7. PageInv' /\ AnnouncedInv'
  BY <1>1, <1>3 DEF PageInv, AnnouncedInv
<1>8. TerminateInv'
  BY <1>1 DEF QuietInv, TerminateInv
<1>9. UpdatesInv'
  BY <1>1, <1>4, <1>5, <1>6 DEF QuietInv, UpdatesInv, UpdateFits, Exists
<1>10. SeenInv'
  <2> SUFFICES ASSUME ~failed', NEW r \in rows, r.path \in seen, ~InSync(r)
               PROVE  Underway(r)'
    BY <1>1, <1>6 DEF SeenInv
  <2>1. ~failed /\ task[w].result \in {"ok", "skipped"}
    BY <1>1
  <2>2. Underway(r)
    BY <1>3, <2>1 DEF QuietInv, SeenInv
  <2>3. r.path # task[w].path
    BY <1>2, <1>3, <2>1 DEF UpdateFits, InSync
  <2> QED
    BY <1>1, <1>3, <1>4, <2>2, <2>3 DEF Underway
<1> QED
  BY <1>7, <1>8, <1>9, <1>10 DEF QuietInv

\* A sync begins: nothing is seen, nothing said, no update runs.
LEMMA QuietStart ==
    ASSUME RowsInv, ControlInv, StartSync
    PROVE  QuietInv'
<1>1. /\ syncPc = "idle" /\ syncPc' = "read" /\ offset' = 0 /\ seen' = {} /\ announced' = {}
      /\ UNCHANGED <<rows, task>>
  BY DEF StartSync, storeVars, saverVars
<1>2. \A w \in Workers : ~IsUpdate(task'[w])
  BY <1>1 DEF ControlInv
<1>3. \A r : Rank(r)' = Rank(r) /\ Rank(r) \in Nat
  BY <1>1, RankType DEF Rank
<1>4. \A r : ~Behind(r)'
  BY <1>1, <1>3 DEF Behind
<1>5. AnnouncedInv'
  BY <1>1, <1>4 DEF AnnouncedInv
<1> QED
  BY <1>1, <1>2, <1>5 DEF QuietInv, PageInv, UpdatesInv, TerminateInv, SeenInv

\* While the syncer's thread is not in updateFiles no update runs.
LEMMA NoUpdates ==
    ASSUME ControlInv, syncPc # "update", UNCHANGED task
    PROVE  UpdatesInv' /\ \A w \in Workers : ~IsUpdate(task[w])
BY DEF ControlInv, UpdatesInv

LEMMA QuietReadPage ==
    ASSUME StoreInv, RowsInv, SyncTypeOK, ControlInv, QuietInv, ReadPage
    PROVE  QuietInv'
<1> DEFINE got == GetFiles(offset, Limit)
<1>1. /\ UNCHANGED <<disk, rows, task, options, offset, seen, announced, failed>>
      /\ syncPc = "read" /\ syncPc' = IF got = {} THEN "idle" ELSE "check"
      /\ page' = {r \in got : r.path \in Matching}
  BY DEF ReadPage, storeVars, saverVars
<1>2. UpdatesInv' /\ \A w \in Workers : ~IsUpdate(task[w])
  BY <1>1, NoUpdates
<1>3. \A r : InSync(r)' = InSync(r) /\ Wanted(r)' = Wanted(r) /\ Rank(r)' = Rank(r)
  BY <1>1 DEF InSync, Wanted, IsStale, IsGone, IsFile, Exists, Rank
<1>4. got' = got
  BY <1>1 DEF GetFiles, Rank
<1>5. PageInv'
  BY <1>1, <1>4 DEF PageInv, GetFiles
<1>6. TerminateInv'
  BY <1>1 DEF TerminateInv
<1>7. SeenInv'
  BY <1>1, <1>2, <1>3 DEF QuietInv, SeenInv, Underway
<1>8. AnnouncedInv'
  <2>1. ASSUME NEW r \in rows, Wanted(r) PROVE Behind(r)' <=> Behind(r)
    <3>0. Rank(r) \in Nat /\ offset \in Nat /\ Limit \in Nat \ {0}
      BY RankType, SyncerAssumption DEF SyncTypeOK
    <3>1. CASE got = {}
      <4>1. Rank(r) < offset
        BY <3>0, <3>1, NoGap DEF StoreInv, SaverTypeOK, StoreTypeOK
      <4> QED
        BY <1>1, <3>1, <4>1 DEF Behind
    <3>2. CASE got # {}
      <4>1. r \in page' <=> Rank(r) >= offset /\ Rank(r) < offset + Limit
        BY <1>1, <2>1 DEF GetFiles, Wanted
      <4>2. Behind(r)' <=> Rank(r) < offset + Limit /\ r \notin page'
        BY <1>1, <1>3, <3>2 DEF Behind
      <4> QED
        BY <1>1, <3>0, <4>1, <4>2 DEF Behind
    <3> QED
      BY <3>1, <3>2
  <2>2. {s \in rows : Behind(s) /\ Wanted(s)} = {s \in rows : Behind(s) /\ Wanted(s)}'
    BY <1>1, <1>3, <2>1
  <2> QED
    BY <1>1, <2>2 DEF QuietInv, AnnouncedInv
<1> QED
  BY <1>2, <1>5, <1>6, <1>7, <1>8 DEF QuietInv

\* One row is looked at: the token is down, so sync goes on behind it.
LEMMA QuietCheckRow ==
    ASSUME StoreInv, RowsInv, ControlInv, QuietInv, CheckRow
    PROVE  QuietInv'
<1>1. /\ UNCHANGED <<disk, rows, task, options, offset, failed>>
      /\ syncPc = "check" /\ ~stopToken
  BY DEF CheckRow, storeVars, saverVars, ControlInv
<1>2. /\ page \subseteq rows
      /\ \A r \in page : r.path \in Matching
      /\ options.dryRun => page \subseteq GetFiles(offset, Limit)
  BY <1>1 DEF QuietInv, PageInv
<1>3. PICK r \in page :
        LET change == r.path \notin Mounted /\ (IsStale(r) \/ IsGone(r))
            delete == IsGone(r) /\ ~options.dryRun
        IN /\ IsFirst(r, page)
           /\ syncPc' = IF change /\ delete THEN "delete" ELSE "check"
           /\ page' = IF change /\ delete THEN page ELSE page \ {r}
           /\ seen' = seen \cup {r.path}
           /\ announced' = announced \cup {p \in {r.path} : change /\ options.dryRun}
           /\ selected' = selected \cup
                            {p \in {r.path} : change /\ IsStale(r) /\ ~options.dryRun}
  BY <1>1 DEF CheckRow
<1> DEFINE change == r.path \notin Mounted /\ (IsStale(r) \/ IsGone(r))
           delete == IsGone(r) /\ ~options.dryRun
<1>4. UpdatesInv' /\ \A w \in Workers : ~IsUpdate(task[w])
  BY <1>1, NoUpdates
<1>5. \A s : InSync(s)' = InSync(s) /\ Wanted(s)' = Wanted(s) /\ Rank(s)' = Rank(s)
  BY <1>1 DEF InSync, Wanted, IsStale, IsGone, IsFile, Exists, Rank
<1>6. syncPc' \in {"check", "delete"} /\ page' \subseteq page
  BY <1>3
<1>7. PageInv'
  BY <1>1, <1>2, <1>6 DEF PageInv, GetFiles, Rank
<1>8. TerminateInv'
  BY <1>6 DEF TerminateInv
<1>9. r \in rows /\ \A s \in rows : s.path = r.path => s = r
  BY <1>2 DEF StoreInv, SaverTypeOK, StoreTypeOK
<1>10. SeenInv'
  <2> SUFFICES ASSUME ~failed, ~options.dryRun, NEW s \in rows, s.path \in seen', ~InSync(s)
               PROVE  Underway(s)'
    BY <1>1, <1>5 DEF SeenInv
  <2>1. CASE s.path \in seen
    <3>1. s.path \in selected
      BY <1>1, <1>4, <2>1 DEF QuietInv, SeenInv, Underway
    <3> QED
      BY <1>3, <1>6, <3>1 DEF Underway
  <2>2. CASE s.path \notin seen
    <3>1. s = r
      BY <1>3, <1>9, <2>2
    <3>2. change
      BY <3>1 DEF InSync
    <3>3. CASE IsStale(r)
      <4>1. r.path \in selected'
        BY <1>3, <3>2, <3>3
      <4> QED
        BY <1>6, <3>1, <4>1 DEF Underway
    <3>4. CASE ~IsStale(r)
      <4>1. IsFirst(r, page') /\ syncPc' = "delete"
        BY <1>3, <3>2, <3>4
      <4> QED
        BY <3>1, <4>1 DEF Underway, IsFirst
    <3> QED
      BY <3>3, <3>4
  <2> QED
    BY <2>1, <2>2
<1>11. AnnouncedInv'
  <2> SUFFICES ASSUME options.dryRun
               PROVE  announced' = {s.path : s \in {u \in rows : Behind(u)' /\ Wanted(u)}}
    BY <1>1, <1>5 DEF AnnouncedInv
  <2>1. syncPc' = "check" /\ page' = page \ {r}
    BY <1>3
  <2>2. Rank(r) < offset + Limit
    BY <1>2 DEF GetFiles
  <2>3. ASSUME NEW s \in rows PROVE Behind(s)' <=> Behind(s) \/ s = r
    <3>1. Behind(s)' <=> Rank(s) < offset + Limit /\ s \notin page'
      BY <1>1, <1>5, <2>1 DEF Behind
    <3>2. Behind(s) <=> Rank(s) < offset + Limit /\ s \notin page
      BY <1>1 DEF Behind
    <3> QED
      BY <2>1, <2>2, <3>1, <3>2
  <2>4. Wanted(r) <=> change
    BY <1>2 DEF Wanted
  <2>5. announced' = announced \cup {p \in {r.path} : Wanted(r)}
    BY <1>3, <2>4
  <2>6. announced = {s.path : s \in {u \in rows : Behind(u) /\ Wanted(u)}}
    BY DEF QuietInv, AnnouncedInv
  <2>7. {u \in rows : Behind(u)' /\ Wanted(u)}
          = {u \in rows : Behind(u) /\ Wanted(u)} \cup {u \in {r} : Wanted(u)}
    BY <1>9, <2>3
  <2> QED
    BY <2>5, <2>6, <2>7
<1> QED
  BY <1>4, <1>7, <1>8, <1>10, <1>11 DEF QuietInv

\* The row goes, or sync has failed.
LEMMA QuietDeleteRow ==
    ASSUME StoreInv, RowsInv, ControlInv, QuietInv, DeleteRow
    PROVE  QuietInv'
<1>1. /\ UNCHANGED <<disk, task, options, selected, seen, announced>>
      /\ syncPc = "delete" /\ ~options.dryRun
      /\ syncPc' \in {"idle", "check"}
  BY DEF DeleteRow, saverVars, ControlInv
<1>2. /\ page \subseteq rows
      /\ \A r \in page : r.path \in Matching
  BY <1>1 DEF QuietInv, PageInv
<1>3. PICK r \in page :
        /\ IsFirst(r, page)
        /\ page' = page \ {r}
        /\ \/ DeleteFile(r.path) /\ syncPc' = "check" /\ UNCHANGED failed
           \/ failed' /\ UNCHANGED <<rows, content>>
  BY DEF DeleteRow
<1>4. UpdatesInv' /\ \A w \in Workers : ~IsUpdate(task[w])
  BY <1>1, NoUpdates
<1>5. \A s : InSync(s)' = InSync(s)
  BY <1>1 DEF InSync, IsStale, IsGone, IsFile, Exists
<1>6. TerminateInv' /\ AnnouncedInv'
  BY <1>1 DEF TerminateInv, AnnouncedInv
<1>7. CASE failed' /\ UNCHANGED <<rows, content>>
  <2>1. PageInv'
    BY <1>1, <1>2, <1>3, <1>7 DEF PageInv
  <2>2. SeenInv'
    BY <1>7 DEF SeenInv
  <2> QED
    BY <1>4, <1>6, <2>1, <2>2 DEF QuietInv
<1>8. CASE DeleteFile(r.path) /\ syncPc' = "check" /\ UNCHANGED failed
  <2>1. rows' = rows \ {r}
    BY <1>2, <1>8, DeleteFileRemoves DEF StoreInv, SaverTypeOK
  <2>2. PageInv'
    BY <1>1, <1>2, <1>3, <2>1 DEF PageInv
  <2>3. SeenInv'
    <3> SUFFICES ASSUME ~failed, NEW s \in rows, s # r, s.path \in seen, ~InSync(s)
                 PROVE  Underway(s)'
      BY <1>1, <1>5, <1>8, <2>1 DEF SeenInv
    <3>1. Underway(s)
      BY <1>1 DEF QuietInv, SeenInv
    <3>2. ~IsFirst(s, page)
      <4> SUFFICES ASSUME IsFirst(s, page) PROVE FALSE
        OBVIOUS
      <4>1. s \in page /\ s.id <= r.id /\ r.id <= s.id /\ s.id \in Nat /\ r.id \in Nat
        BY <1>2, <1>3 DEF IsFirst, StoreInv, SaverTypeOK, StoreTypeOK, Row
      <4>2. s.id = r.id
        BY <4>1
      <4> QED
        BY <1>2, <4>2 DEF RowsInv
    <3> QED
      BY <1>1, <1>4, <1>8, <3>1, <3>2 DEF Underway
  <2> QED
    BY <1>4, <1>6, <2>2, <2>3 DEF QuietInv
<1> QED
  BY <1>3, <1>7, <1>8

LEMMA QuietStartUpdates ==
    ASSUME ControlInv, QuietInv, StartUpdates
    PROVE  QuietInv'
<1>1. /\ UNCHANGED <<disk, rows, task, options, offset, page, selected, seen, announced, failed>>
      /\ syncPc = "check" /\ syncPc' = "update" /\ pending' = selected
      /\ page = {} /\ ~terminate'
  BY DEF StartUpdates, storeVars, saverVars, pageVars
<1>2. UpdatesInv' /\ \A w \in Workers : ~IsUpdate(task[w])
  BY <1>1, NoUpdates
<1>3. \A s : InSync(s)' = InSync(s) /\ Wanted(s)' = Wanted(s) /\ Rank(s)' = Rank(s)
  BY <1>1 DEF InSync, Wanted, IsStale, IsGone, IsFile, Exists, Rank
<1>4. PageInv' /\ TerminateInv'
  BY <1>1 DEF PageInv, TerminateInv
<1>5. SeenInv'
  BY <1>1, <1>2, <1>3 DEF QuietInv, SeenInv, Underway
<1>6. \A s : Behind(s)' = Behind(s)
  BY <1>1, <1>3 DEF Behind
<1>7. AnnouncedInv'
  BY <1>1, <1>3, <1>6 DEF QuietInv, AnnouncedInv
<1> QED
  BY <1>2, <1>4, <1>5, <1>7 DEF QuietInv

LEMMA QuietCollect ==
    ASSUME ControlInv, QuietInv, CollectUpdates
    PROVE  QuietInv'
<1>1. /\ UNCHANGED <<disk, rows, task, options, page, selected, seen, announced, failed>>
      /\ syncPc = "update" /\ syncPc' = "read" /\ offset' = offset + Limit
      /\ pending = {} /\ Updating = {}
  BY DEF CollectUpdates, Advance, storeVars, saverVars
<1>2. \A w \in Workers : ~IsUpdate(task[w])
  BY <1>1 DEF Updating, At, IsUpdate
<1>3. \A s : InSync(s)' = InSync(s) /\ Wanted(s)' = Wanted(s) /\ Rank(s)' = Rank(s)
  BY <1>1 DEF InSync, Wanted, IsStale, IsGone, IsFile, Exists, Rank
<1>4. PageInv' /\ TerminateInv' /\ UpdatesInv'
  BY <1>1, <1>2 DEF PageInv, TerminateInv, UpdatesInv
<1>5. SeenInv'
  BY <1>1, <1>2, <1>3 DEF QuietInv, SeenInv, Underway
<1>6. \A s : Behind(s)' = Behind(s)
  BY <1>1, <1>3 DEF Behind
<1>7. AnnouncedInv'
  BY <1>1, <1>3, <1>6 DEF QuietInv, AnnouncedInv
<1> QED
  BY <1>4, <1>5, <1>7 DEF QuietInv

LEMMA SyncInit == Init => SyncInv
BY DEF Init, SyncInv

LEMMA SyncStep ==
    ASSUME StoreInv, RowsInv, SyncTypeOK, ControlInv, SyncInv, [Next]_vars
    PROVE  SyncInv'
<1> SUFFICES ASSUME ~interfered' PROVE QuietInv'
  BY DEF SyncInv
<1>1. CASE SyncClick /\ StartSync
  BY <1>1, QuietStart
<1>2. CASE OtherPrograms \/ DeletePath \/ Crash \/ QueryFails
  BY <1>2 DEF OtherPrograms, DeletePath, Crash, QueryFails, Abort, Disturb
<1>3. CASE SyncerThread
  <2>1. QuietInv
    BY <1>3 DEF SyncInv, SyncerThread, SyncerStep, ReadPage, CheckRow, DeleteRow,
       StartUpdates, CollectUpdates
  <2> QED
    BY <1>3, <2>1, QuietReadPage, QuietCheckRow, QuietDeleteRow, QuietStartUpdates,
       QuietCollect DEF SyncerThread, SyncerStep
<1>4. ASSUME NEW w \in Workers, SaverReadStep(w) PROVE QuietInv'
  <2>1. QuietInv
    BY <1>4 DEF SyncInv, SaverReadStep, syncVars
  <2> QED
    BY <1>4, <2>1, QuietReads
<1>5. ASSUME NEW w \in Workers, SaverSaveStep(w) PROVE QuietInv'
  <2>1. QuietInv
    BY <1>5 DEF SyncInv, SaverSaveStep
  <2> QED
    BY <1>5, <2>1, QuietSave
<1>6. ASSUME NEW w \in Workers, UpdateStep(w) PROVE QuietInv'
  <2>1. QuietInv
    BY <1>6 DEF SyncInv, UpdateStep, TakeUpdate, EndUpdate
  <2> QED
    BY <1>6, <2>1, QuietTake, QuietEnd DEF UpdateStep
<1>7. ASSUME NEW w \in Workers, Indexing(w) PROVE QuietInv'
  <2>1. UNCHANGED <<disk, rows, syncVars>>
    BY <1>7 DEF Indexing, StartAdd, storeVars
  <2>2. PICK p \in Paths : StartAdd(w, p)
    BY <1>7, StoreAssumption DEF Indexing
  <2>3. ~IsUpdate(task[w]) /\ ~IsUpdate(task'[w])
    BY <2>2 DEF StartAdd, Begin, At, IsUpdate, StoreInv, SaverTypeOK
  <2>4. \A v \in Workers : v # w => task'[v] = task[v]
    BY <2>2, OtherTasks
  <2> QED
    BY <2>1, <2>3, <2>4, QuietStutter DEF SyncInv, syncVars, pageVars, mapVars
<1>8. CASE DeleteProcess \/ DeleteCall \/ UNCHANGED vars \/ (SyncClick /\ Cancel)
  <2>1. UNCHANGED <<disk, rows, task, interfered>>
    BY <1>8 DEF DeleteProcess, DeleterStep, VisitRow, DeleteVisited, NextDeletePage,
       FailDelete, DeleteCall, StartDelete, vars, Cancel, storeVars, saverVars, syncVars
  <2>2. UNCHANGED <<syncPc, options, offset, page, selected, pending, terminate, seen,
                    announced, failed>>
    BY <1>8 DEF DeleteProcess, DeleteCall, vars, Cancel, SyncUndisturbed, syncVars,
       pageVars, mapVars
  <2> QED
    BY <2>1, <2>2, QuietStutter DEF SyncInv
<1> QED
  BY <1>1, <1>2, <1>3, <1>4, <1>5, <1>6, <1>7, <1>8 DEF Next, Threads, SyncClick

----------------------------------------------------------------------------
(***************************************************************************)
(* looqs delete.                                                           *)
(***************************************************************************)

\* A page that is read has at most DeleteLimit rows.
LEMMA DeletePageSize ==
    ASSUME StoreTypeOK, RowsInv, NEW start \in Nat, DeletePageAt(start)
    PROVE  IsFiniteSet(deletePage') /\ Cardinality(deletePage') <= DeleteLimit
<1> DEFINE got == GetFiles(start, DeleteLimit)
<1>1. IsFiniteSet(got) /\ Cardinality(got) <= DeleteLimit
  BY PageSize, DeleteAssumption DEF StoreTypeOK
<1>2. deletePage' \in SUBSET got
  BY DEF DeletePageAt
<1> HIDE DEF got
<1>3. IsFiniteSet(deletePage') /\ Cardinality(deletePage') <= Cardinality(got)
      /\ Cardinality(got) \in Nat /\ Cardinality(deletePage') \in Nat
  BY <1>1, <1>2, FS_Subset, FS_CardinalityType
<1> QED
  BY <1>1, <1>3, DeleteAssumption

\* The offset of the next page is no less than that of this one.
LEMMA NextOffsetType ==
    ASSUME DeleteTypeOK, DeleteControl, deletePc # "idle"
    PROVE  /\ NextOffset \in Nat
           /\ NextOffset = deleteOffset + DeleteLimit - deleted
<1>1. Cardinality(deletePage) \in Nat /\ deleted \in Nat /\ deleteOffset \in Nat
  BY FS_CardinalityType DEF DeleteControl, DeleteTypeOK
<1>2. deleted <= DeleteLimit /\ DeleteLimit \in Nat
  BY <1>1, DeleteAssumption DEF DeleteControl
<1> QED
  BY <1>1, <1>2 DEF NextOffset, DeleteControl

LEMMA DeleteInit == Init => DeleteControl /\ DeleteInv
BY DEF Init, DeleteControl, DeleteInv

LEMMA DeleteControlStep ==
    ASSUME StoreInv, RowsInv, DeleteTypeOK, DeleteControl, [Next]_vars
    PROVE  DeleteControl'
<1> USE DEF DeleteControl
<1>0. StoreTypeOK
  BY DEF StoreInv, SaverTypeOK
<1>1. CASE UNCHANGED <<deletePc, deleteOptions, deleteOffset, deletePage, deleted>>
  BY <1>1
<1>2. CASE DeleteCall
  <2>1. /\ deleteOffset' = 0 /\ deleted' = 0 /\ deletePc' \in {"idle", "visit"}
        /\ DeletePageAt(0)
    BY <1>2 DEF DeleteCall, StartDelete, DeletePageAt
  <2>2. IsFiniteSet(deletePage') /\ Cardinality(deletePage') <= DeleteLimit
    BY <1>0, <2>1, DeletePageSize
  <2>3. Cardinality(deletePage') \in Nat
    BY <2>2, FS_CardinalityType
  <2> QED
    BY <2>1, <2>2, <2>3, DeleteAssumption
<1>3. CASE NextDeletePage
  <2>1. NextOffset \in Nat
    BY <1>3, NextOffsetType DEF NextDeletePage
  <2>2. /\ deleteOffset' = NextOffset /\ deleted' = 0 /\ deletePc' \in {"idle", "visit"}
        /\ DeletePageAt(NextOffset)
    BY <1>3 DEF NextDeletePage, DeletePageAt
  <2>3. IsFiniteSet(deletePage') /\ Cardinality(deletePage') <= DeleteLimit
    BY <1>0, <2>1, <2>2, DeletePageSize
  <2>4. Cardinality(deletePage') \in Nat
    BY <2>3, FS_CardinalityType
  <2> QED
    BY <2>1, <2>2, <2>3, <2>4, DeleteAssumption
<1>4. ASSUME NEW r \in deletePage, deletePage' = deletePage \/ deletePage' = deletePage \ {r},
             deletePc # "idle"
      PROVE  /\ IsFiniteSet(deletePage') /\ Cardinality(deletePage') \in Nat
             /\ Cardinality(deletePage) \in Nat
             /\ Cardinality(deletePage') <= Cardinality(deletePage)
             /\ deletePage' = deletePage \ {r} =>
                  Cardinality(deletePage') = Cardinality(deletePage) - 1
  <2>1. IsFiniteSet(deletePage) /\ Cardinality(deletePage) \in Nat
    BY <1>4, FS_CardinalityType
  <2>2. CASE deletePage' = deletePage \ {r}
    <3>1. /\ IsFiniteSet(deletePage')
          /\ Cardinality(deletePage') = Cardinality(deletePage) - 1
      BY <2>1, <2>2, FS_RemoveElement
    <3>2. Cardinality(deletePage') \in Nat
      BY <3>1, FS_CardinalityType
    <3> QED
      BY <2>1, <3>1, <3>2
  <2>3. CASE deletePage' = deletePage /\ deletePage' # deletePage \ {r}
    BY <2>1, <2>3
  <2> QED
    BY <1>4, <2>2, <2>3
<1>5. CASE VisitRow
  <2>1. PICK r \in deletePage :
          /\ deletePage' = deletePage \/ deletePage' = deletePage \ {r}
          /\ deletePc' \in {"visit", "delete"}
          /\ deletePc' = "delete" => ~deleteOptions.dryRun
    BY <1>5 DEF VisitRow
  <2>2. deletePc = "visit" /\ UNCHANGED <<deleteOptions, deleteOffset, deleted>>
    BY <1>5 DEF VisitRow
  <2>3. /\ IsFiniteSet(deletePage') /\ Cardinality(deletePage') \in Nat
        /\ Cardinality(deletePage) \in Nat
        /\ Cardinality(deletePage') <= Cardinality(deletePage)
    BY <1>4, <2>1, <2>2
  <2> QED
    BY <2>1, <2>2, <2>3, DeleteAssumption DEF DeleteTypeOK
<1>6. CASE DeleteVisited
  <2>1. PICK r \in deletePage : deletePage' = deletePage \ {r}
    BY <1>6 DEF DeleteVisited
  <2>2. /\ deletePc = "delete" /\ deletePc' = "visit" /\ deleted' = deleted + 1
        /\ UNCHANGED <<deleteOptions, deleteOffset>>
    BY <1>6 DEF DeleteVisited
  <2>3. /\ IsFiniteSet(deletePage')
        /\ Cardinality(deletePage) \in Nat
        /\ Cardinality(deletePage') = Cardinality(deletePage) - 1
    BY <1>4, <2>1, <2>2
  <2> QED
    BY <2>2, <2>3, DeleteAssumption DEF DeleteTypeOK
<1>7. CASE FailDelete
  BY <1>7 DEF FailDelete
<1>8. CASE DeletePath
  BY <1>1, <1>8 DEF DeletePath, RemovePath
<1>9. CASE \/ OtherPrograms \/ Crash \/ QueryFails \/ SyncerThread \/ SyncClick
           \/ UNCHANGED vars
           \/ \E w \in Workers :
                Indexing(w) \/ SaverReadStep(w) \/ SaverSaveStep(w) \/ UpdateStep(w)
  BY <1>1, <1>9 DEF OtherPrograms, Crash, QueryFails, Abort, SyncerThread, SaverSaveStep,
     DeleteUndisturbed,
     SyncClick, vars, Indexing, SaverReadStep, UpdateStep, deleteVars
<1> QED
  BY <1>2, <1>3, <1>5, <1>6, <1>7, <1>8, <1>9 DEF Next, Threads, DeleteProcess, DeleterStep

\* What reading a page leaves undone: all rows behind its start.
LEMMA DeletePageRead ==
    ASSUME StoreTypeOK, RowsInv, NEW start \in Nat, DeletePageAt(start), UNCHANGED storeVars,
           deleteOffset' = start, deleted' = 0
    PROVE  /\ DeletePageInv'
           /\ \A r \in rows : ToDelete(r)' => (DealtWith(r)' <=> Rank(r) < start)
<1> DEFINE got == GetFiles(start, DeleteLimit)
<1>1. /\ deletePage' = {r \in got : r.path \in DeleteMatching}
      /\ deletePc' = IF got = {} THEN "idle" ELSE "visit"
      /\ UNCHANGED <<disk, rows>>
  BY DEF DeletePageAt, storeVars
<1>2. \A r : Rank(r)' = Rank(r)
  BY <1>1 DEF Rank
<1>3. got' = got
  BY <1>1, <1>2 DEF GetFiles
<1>4. DeletePageInv'
  BY <1>1, <1>3 DEF DeletePageInv, GetFiles
<1>5. ASSUME NEW r \in rows, ToDelete(r)' PROVE DealtWith(r)' <=> Rank(r) < start
  <2>1. r.path \in DeleteMatching
    BY <1>5 DEF ToDelete
  <2>2. Rank(r) \in Nat /\ DeleteLimit \in Nat \ {0}
    BY RankType, DeleteAssumption
  <2>3. CASE got = {}
    <3>1. Rank(r) < start
      BY <2>2, <2>3, NoGap DEF StoreTypeOK
    <3> QED
      BY <1>1, <2>3, <3>1 DEF DealtWith
  <2>4. CASE got # {}
    <3>1. r \in deletePage' <=> Rank(r) >= start /\ Rank(r) < start + DeleteLimit
      BY <1>1, <2>1 DEF GetFiles
    <3>2. DealtWith(r)' <=> r \notin deletePage' /\ Rank(r) < start + DeleteLimit - 0
      BY <1>1, <1>2, <2>4 DEF DealtWith
    <3> QED
      BY <2>2, <3>1, <3>2
  <2> QED
    BY <2>3, <2>4
<1> QED
  BY <1>4, <1>5

\* The command begins: nothing is listed, and nothing is before the first row.
LEMMA DeleteBegins ==
    ASSUME StoreTypeOK, RowsInv, StartDelete
    PROVE  DeletePageInv' /\ ListedInv' /\ RemovedInv'
<1>1. /\ DeletePageAt(0) /\ deleteOffset' = 0 /\ deleted' = 0 /\ listed' = {}
      /\ UNCHANGED <<disk, rows, content>>
  BY DEF StartDelete, storeVars
<1>2. DeletePageInv' /\ \A r \in rows : ToDelete(r)' => (DealtWith(r)' <=> Rank(r) < 0)
  BY <1>1, DeletePageRead DEF storeVars
<1>3. ASSUME NEW r \in rows PROVE ~(DealtWith(r)' /\ ToDelete(r)')
  <2>1. Rank(r) \in Nat
    BY RankType
  <2> QED
    BY <1>2, <2>1
<1> QED
  BY <1>1, <1>2, <1>3 DEF ListedInv, RemovedInv

\* The page is dealt with: what was behind its end is behind the start of the next.
LEMMA DeletePageTurned ==
    ASSUME StoreTypeOK, RowsInv, DeleteTypeOK, DeleteControl, DeleteInv, ~disturbed,
           NextDeletePage
    PROVE  DeletePageInv' /\ ListedInv' /\ RemovedInv'
<1>1. /\ DeletePageAt(NextOffset) /\ deleteOffset' = NextOffset /\ deleted' = 0
      /\ UNCHANGED <<disk, rows, content, deleteOptions, listed>>
      /\ deletePc = "visit" /\ deletePage = {}
  BY DEF NextDeletePage, storeVars
<1>2. NextOffset \in Nat /\ NextOffset = deleteOffset + DeleteLimit - deleted
  BY <1>1, NextOffsetType
<1>3. DeletePageInv' /\ \A r \in rows : ToDelete(r)' => (DealtWith(r)' <=> Rank(r) < NextOffset)
  BY <1>1, <1>2, DeletePageRead DEF storeVars
<1>4. \A r : ToDelete(r)' = ToDelete(r)
  BY <1>1 DEF ToDelete, Exists
<1>5. \A r \in rows : DealtWith(r) <=> Rank(r) < NextOffset
  BY <1>1, <1>2 DEF DealtWith
<1>6. {s \in rows : DealtWith(s) /\ ToDelete(s)} = {s \in rows : DealtWith(s)' /\ ToDelete(s)'}
  BY <1>3, <1>4, <1>5
<1>7. ListedInv'
  BY <1>1, <1>6 DEF DeleteInv, ListedInv
<1>8. RemovedInv'
  BY <1>1, <1>3, <1>4, <1>5 DEF DeleteInv, RemovedInv
<1> QED
  BY <1>3, <1>7, <1>8

\* A row is listed, kept, or about to go.
LEMMA RowVisited ==
    ASSUME StoreTypeOK, RowsInv, DeleteControl, DeleteInv, ~disturbed, VisitRow
    PROVE  DeletePageInv' /\ ListedInv' /\ RemovedInv'
<1>1. /\ UNCHANGED <<disk, rows, deleteOptions, deleteOffset, deleted>>
      /\ deletePc = "visit"
  BY DEF VisitRow, storeVars
<1>2. /\ deletePage \subseteq rows
      /\ \A r \in deletePage : r.path \in DeleteMatching
      /\ deleteOptions.dryRun => deletePage \subseteq GetFiles(deleteOffset, DeleteLimit)
  BY <1>1 DEF DeleteInv, DeletePageInv
<1>3. PICK r \in deletePage :
        LET keep == deleteOptions.onlyDeleted /\ Exists(r.path) IN
        /\ listed' = listed \cup {p \in {r.path} : ~keep /\ deleteOptions.dryRun}
        /\ IF keep \/ deleteOptions.dryRun
           THEN deletePage' = deletePage \ {r} /\ UNCHANGED deletePc
           ELSE deletePc' = "delete" /\ UNCHANGED deletePage
  BY DEF VisitRow
<1> DEFINE keep == deleteOptions.onlyDeleted /\ Exists(r.path)
<1>4. ToDelete(r) <=> ~keep
  BY <1>2 DEF ToDelete
<1>5. \A s : Rank(s)' = Rank(s) /\ ToDelete(s)' = ToDelete(s)
  BY <1>1 DEF Rank, ToDelete, Exists
<1>6. DeletePageInv'
  BY <1>1, <1>2, <1>3 DEF DeletePageInv, GetFiles, Rank
<1>7. deletePc' # "idle" /\ deletePc # "idle"
  BY <1>1, <1>3
<1>8. ListedInv'
  <2> SUFFICES ASSUME deleteOptions.dryRun
               PROVE  listed' = {s.path : s \in {u \in rows : DealtWith(u)' /\ ToDelete(u)}}
    BY <1>1, <1>5 DEF ListedInv
  <2>1. Rank(r) < deleteOffset + DeleteLimit - deleted
    <3>1. Rank(r) < deleteOffset + DeleteLimit
      BY <1>2 DEF GetFiles
    <3>2. deleted = 0 /\ deleteOffset \in Nat /\ DeleteLimit \in Nat /\ Rank(r) \in Nat
      BY <1>1, RankType, DeleteAssumption DEF DeleteControl
    <3> QED
      BY <3>1, <3>2
  <2>2. deletePage' = deletePage \ {r}
        /\ listed' = listed \cup {p \in {r.path} : ToDelete(r)}
    BY <1>3, <1>4
  <2>3. ASSUME NEW s \in rows PROVE DealtWith(s)' <=> DealtWith(s) \/ s = r
    BY <1>1, <1>5, <1>7, <2>1, <2>2 DEF DealtWith
  <2>4. {u \in rows : DealtWith(u)' /\ ToDelete(u)}
          = {u \in rows : DealtWith(u) /\ ToDelete(u)} \cup {u \in {r} : ToDelete(u)}
    BY <1>2, <2>3
  <2>5. listed = {s.path : s \in {u \in rows : DealtWith(u) /\ ToDelete(u)}}
    BY DEF DeleteInv, ListedInv
  <2> QED
    BY <2>2, <2>4, <2>5
<1>9. RemovedInv'
  <2> SUFFICES ASSUME ~deleteOptions.dryRun, NEW s \in rows, DealtWith(s)', ToDelete(s)
               PROVE  FALSE
    BY <1>1, <1>5 DEF RemovedInv
  <2>1. ~DealtWith(s)
    BY DEF DeleteInv, RemovedInv
  <2>2. s = r /\ deletePage' = deletePage \ {r}
    BY <1>1, <1>3, <1>5, <1>7, <2>1 DEF DealtWith
  <2>3. keep
    BY <1>3, <2>2
  <2> QED
    BY <1>4, <2>2, <2>3
<1> QED
  BY <1>6, <1>8, <1>9

\* A row goes: those behind it move up by one, and so does the end of the page.
LEMMA RowDeleted ==
    ASSUME StoreTypeOK, RowsInv, DeleteTypeOK, DeleteControl, DeleteInv, ~disturbed,
           DeleteVisited
    PROVE  DeletePageInv' /\ ListedInv' /\ RemovedInv'
<1>1. /\ UNCHANGED <<disk, deleteOptions, deleteOffset, listed>>
      /\ deletePc = "delete" /\ deletePc' = "visit" /\ deleted' = deleted + 1
      /\ ~deleteOptions.dryRun
  BY DEF DeleteVisited, DeleteControl
<1>2. /\ deletePage \subseteq rows
      /\ \A r \in deletePage : r.path \in DeleteMatching
  BY <1>1 DEF DeleteInv, DeletePageInv
<1>3. PICK r \in deletePage : deletePage' = deletePage \ {r} /\ DeleteFile(r.path)
  BY DEF DeleteVisited
<1>4. rows' = rows \ {r} /\ r \in rows
  BY <1>2, <1>3, DeleteFileRemoves
<1>5. DeletePageInv' /\ ListedInv'
  BY <1>1, <1>2, <1>3, <1>4 DEF DeletePageInv, ListedInv
<1>6. RemovedInv'
  <2>1. \A s : ToDelete(s)' = ToDelete(s)
    BY <1>1 DEF ToDelete, Exists
  <2> SUFFICES ASSUME NEW s \in rows, s # r, DealtWith(s)' PROVE ~ToDelete(s)
    BY <1>4, <2>1 DEF RemovedInv
  <2>2. Rank(s)' = IF r.id < s.id THEN Rank(s) - 1 ELSE Rank(s)
    BY <1>4, RankAfterDelete DEF StoreTypeOK
  <2>3. s \notin deletePage' /\ Rank(s)' < deleteOffset + DeleteLimit - (deleted + 1)
    BY <1>1 DEF DealtWith
  <2>4. Rank(s) \in Nat /\ deleteOffset \in Nat /\ DeleteLimit \in Nat /\ deleted \in Nat
    BY RankType, DeleteAssumption DEF DeleteControl, DeleteTypeOK
  <2>5. s \notin deletePage /\ Rank(s) < deleteOffset + DeleteLimit - deleted
    BY <1>3, <2>2, <2>3, <2>4
  <2>6. DealtWith(s)
    BY <2>5 DEF DealtWith
  <2> QED
    BY <1>1, <2>6 DEF DeleteInv, RemovedInv
<1> QED
  BY <1>5, <1>6

LEMMA DeleteStep ==
    ASSUME StoreInv, RowsInv, DeleteTypeOK, DeleteControl, DeleteInv, [Next]_vars
    PROVE  DeleteInv'
<1> SUFFICES ASSUME ~disturbed' PROVE DeletePageInv' /\ ListedInv' /\ RemovedInv'
  BY DEF DeleteInv
<1>0. StoreTypeOK
  BY DEF StoreInv, SaverTypeOK
<1>1. CASE DeleteCall
  BY <1>0, <1>1, DeleteBegins DEF DeleteCall
<1>2. CASE DeleteProcess
  <2>1. ~disturbed
    BY <1>2 DEF DeleteProcess, DeleterStep, VisitRow, DeleteVisited, NextDeletePage, FailDelete
  <2>2. ~FailDelete
    BY DEF FailDelete
  <2> QED
    BY <1>0, <1>2, <2>1, <2>2, DeletePageTurned, RowVisited, RowDeleted
       DEF DeleteProcess, DeleterStep
<1>3. CASE \/ OtherPrograms \/ DeletePath \/ Crash \/ QueryFails
           \/ \E w \in Workers : SaverSaveStep(w)
  BY <1>3 DEF OtherPrograms, DeletePath, RemovePath, Crash, QueryFails, Abort, SaverSaveStep,
     Disturb
<1>4. CASE \/ SyncerThread \/ SyncClick \/ UNCHANGED vars
           \/ \E w \in Workers : Indexing(w) \/ SaverReadStep(w) \/ UpdateStep(w)
  <2>1. UNCHANGED <<deletePc, deleteOptions, deleteOffset, deletePage, deleted, listed,
                    disturbed>>
    BY <1>4 DEF SyncerThread, DeleteUndisturbed, SyncClick, vars, Indexing,
       SaverReadStep, UpdateStep, deleteVars
  <2>2. UNCHANGED <<disk, rows>>
    <3>1. CASE SyncerThread
      BY <3>1 DEF SyncerThread, SyncerStep, ReadPage, CheckRow, DeleteRow, StartUpdates,
         CollectUpdates, storeVars
    <3>2. CASE SyncClick \/ UNCHANGED vars
      BY <3>2 DEF SyncClick, StartSync, Cancel, vars, storeVars
    <3>3. CASE \E w \in Workers : Indexing(w) \/ SaverReadStep(w)
      BY <3>3 DEF Indexing, StartAdd, SaverReadStep, SaverReads, Lookup, Decide, Extract,
         EndAdd, storeVars
    <3>4. CASE \E w \in Workers : UpdateStep(w)
      BY <3>4 DEF UpdateStep, TakeUpdate, StartUpdate, EndUpdate, storeVars
    <3> QED
      BY <1>4, <3>1, <3>2, <3>3, <3>4
  <2>3. \A r : Rank(r)' = Rank(r) /\ ToDelete(r)' = ToDelete(r)
    BY <2>1, <2>2 DEF Rank, ToDelete, Exists
  <2>4. DeletePageInv /\ ListedInv /\ RemovedInv
    BY <2>1 DEF DeleteInv
  <2>5. DeletePageInv'
    BY <2>1, <2>2, <2>4 DEF DeletePageInv, GetFiles, Rank
  <2>6. \A r : DealtWith(r)' = DealtWith(r)
    BY <2>1, <2>3 DEF DealtWith
  <2> QED
    BY <2>1, <2>2, <2>3, <2>4, <2>5, <2>6 DEF ListedInv, RemovedInv
<1> QED
  BY <1>1, <1>2, <1>3, <1>4 DEF Next, Threads

----------------------------------------------------------------------------
LEMMA UpkeepInit == Init => UpkeepInv
BY StoreInit, SelectionInit, RowsInit, TypeInit, ControlInit, SyncInit, DeleteInit
   DEF UpkeepInv

LEMMA UpkeepStep == UpkeepInv /\ [Next]_vars => UpkeepInv'
<1> SUFFICES ASSUME UpkeepInv, [Next]_vars PROVE UpkeepInv'
  OBVIOUS
<1>1. StoreInv'
  BY StoreStep DEF UpkeepInv
<1>2. SelectionInv'
  BY SelectionStep DEF UpkeepInv
<1>3. IsFiniteSet(selected)
  BY DEF UpkeepInv, ControlInv
<1> QED
  BY <1>1, <1>2, <1>3, RowsStep, SyncTypeStep, DeleteTypeStep, ControlStep, SyncStep,
     DeleteControlStep, DeleteStep DEF UpkeepInv

\* For any table, pool, page size and options, whoever writes to files and table and
\* whenever the process dies: every variable of FileSaver, IndexSyncer and CommandDelete
\* keeps its type, the offset of a deletion among them, which never gets negative.
THEOREM UpkeepTypes == Spec => []TypeOK
<1>1. UpkeepInv => TypeOK
  BY TypeParts DEF UpkeepInv, StoreInv
<1> QED
  BY <1>1, UpkeepInit, UpkeepStep, PTL DEF Spec

\* Whenever a sync that nobody disturbed and in which nothing failed turns to the next
\* page or ends, each row it has visited agrees with its file: updateFiles has waited for
\* all threads, and what they stored is the version that the row was compared with
\* (indexsyncer.cpp:104, filesaver.cpp:67).
THEOREM CheckedCorrect == Spec => []CheckedMeansInSync
<1>1. UpkeepInv => CheckedMeansInSync
  <2> SUFFICES ASSUME UpkeepInv, SyncIsOver \/ syncPc = "read", SyncWasQuiet,
                      ~options.dryRun, NEW r \in rows, r.path \in seen
               PROVE  InSync(r)
    BY DEF CheckedMeansInSync
  <2>1. syncPc \in {"idle", "read"} /\ ~interfered /\ ~failed
    BY DEF SyncIsOver, SyncWasQuiet
  <2>2. InSync(r) \/ Underway(r)
    BY <2>1 DEF UpkeepInv, SyncInv, QuietInv, SeenInv
  <2>3. ~Underway(r)
    BY <2>1 DEF Underway, UpkeepInv, ControlInv
  <2> QED
    BY <2>2, <2>3
<1> QED
  BY <1>1, UpkeepInit, UpkeepStep, PTL DEF Spec

\* A dry run tells of exactly the rows a sync would have to do something about, however
\* many pages the table has: the ranks of the rows have no gap, so an empty page is behind
\* the last of them (indexsyncer.cpp:43-45, sqlitedbservice.cpp:66-75).
THEOREM DryRunCorrect == Spec => []DryRunIsComplete
<1>1. UpkeepInv => DryRunIsComplete
  <2> SUFFICES ASSUME UpkeepInv, SyncIsOver, SyncWasQuiet, options.dryRun
               PROVE  announced =
                        {r.path : r \in {s \in rows : s.path \in Matching \ Mounted
                                                        /\ (IsStale(s) \/ IsGone(s))}}
    BY DEF DryRunIsComplete
  <2>1. syncPc = "idle" /\ ~interfered
    BY DEF SyncIsOver, SyncWasQuiet
  <2>2. announced = {r.path : r \in {s \in rows : Behind(s) /\ Wanted(s)}}
    BY <2>1 DEF UpkeepInv, SyncInv, QuietInv, AnnouncedInv
  <2>3. \A r : Behind(r)
    BY <2>1 DEF Behind
  <2> QED
    BY <2>2, <2>3 DEF Wanted
<1> QED
  BY <1>1, UpkeepInit, UpkeepStep, PTL DEF Spec

\* looqs delete leaves no row it was asked to remove, and its dry run lists exactly those,
\* for any table and page size: for each row that goes the end of the page and the rows
\* behind it move by one (commanddelete.cpp:52-63).
THEOREM DeleteCorrect == Spec => []DeleteLeavesNothing
<1>1. UpkeepInv => DeleteLeavesNothing
  <2> SUFFICES ASSUME UpkeepInv, deletePc = "idle", ~disturbed
               PROVE  IF deleteOptions.dryRun
                      THEN listed = {r.path : r \in {s \in rows : ToDelete(s)}}
                      ELSE \A r \in rows : ~ToDelete(r)
    BY DEF DeleteLeavesNothing
  <2>1. \A r : DealtWith(r)
    BY DEF DealtWith
  <2> QED
    BY <2>1 DEF UpkeepInv, DeleteInv, ListedInv, RemovedInv
<1> QED
  BY <1>1, UpkeepInit, UpkeepStep, PTL DEF Spec
=============================================================================
