----------------------------- MODULE FileSaver -----------------------------
(***************************************************************************)
(* FileSaver: addFile, for the indexing jobs, and updateFile, for the      *)
(* syncer, run by any number of threads at once.  A call looks at the file *)
(* and at the database at different moments; a child process reads the     *)
(* file at yet another one.                                                *)
(***************************************************************************)
EXTENDS FileStore

CONSTANTS
    Workers,    \* threads that may be inside FileSaver
    Excluded,   \* paths below Common::excludedPaths()
    AddModes,   \* options add is used with: "content", "metadata", "fill"
    MaxAdds     \* bound on the calls of addFile

ASSUME SaverAssumption ==
    /\ AddModes \subseteq {"content", "metadata", "fill"}
    /\ MaxAdds \in Nat

VARIABLES
    task,       \* what each thread is doing
    adds,       \* calls of addFile so far
    bare        \* history: paths last saved without the text they may have

saverVars == <<task, adds, bare>>

Results == {"ok", "skipped", "notfound", "noaccess", "dbfail", "processfail", "signal"}
Modes == {"content", "metadata", "fill"}
\* stat: what the QFileInfo has cached; text: the version the child returned.
Unknown == [kind |-> "unknown", mtime |-> 0, nth |-> 0]
TextRead == [mtime : Times, nth : Nths] \cup {Nothing, Withheld}
Task == [pc : {"lookup", "decide"}, for : {"add", "update"}, path : Paths,
         mode : Modes, stat : Stat \cup {Unknown}, text : TextRead]
        \cup [pc : {"extract", "save"}, for : {"add", "update"}, path : Paths,
              mode : Modes, stat : Stat, text : TextRead]
Answer == [pc : {"answer"}, for : {"add", "update"}, path : Paths, result : Results]
Idle == [pc |-> "idle"]

At(w, pc) == task[w].pc = pc
Begin(w, pc, for, p, mode, stat) ==
    task' = [task EXCEPT ![w] = [pc |-> pc, for |-> for, path |-> p, mode |-> mode,
                                 stat |-> stat, text |-> Nothing]]
Go(w, pc, stat, text) ==
    task' = [task EXCEPT ![w] = [pc |-> pc, for |-> task[w].for, path |-> task[w].path,
                                 mode |-> task[w].mode, stat |-> stat, text |-> text]]
Return(w, result) ==
    task' = [task EXCEPT ![w] = [pc |-> "answer", for |-> task[w].for,
                                 path |-> task[w].path, result |-> result]]

\* addFile: QFileInfo::lastModified() caches what stat(2) says now.
StartAdd(w, p) ==
    /\ At(w, "idle")
    /\ adds < MaxAdds
    /\ \E mode \in AddModes : Begin(w, "lookup", "add", p, mode, disk[p])
    /\ adds' = adds + 1
    /\ UNCHANGED <<storeVars, bare>>

\* updateFile: a QFileInfo that has not looked yet.
StartUpdate(w, p) ==
    /\ At(w, "idle")
    /\ Begin(w, "decide", "update", p, "content", Unknown)
    /\ UNCHANGED <<storeVars, adds, bare>>

\* Is this version of the file stored, with its text if --fill-content asks for it?
\* The modification time of a missing file is 0, which no row has.
AlreadyStored(t) ==
    /\ t.stat.kind # "missing"
    /\ IF t.mode = "fill" THEN IsStoredAs(t.path, t.stat.mtime, "c")
                          ELSE IsStored(t.path, t.stat.mtime)

\* A query that fails throws, and the FileScanWorker reports an error.
AddQueryFails(w) ==
    /\ "dbfail" \in Failures
    /\ task[w].for = "add"
    /\ Return(w, "processfail")

Lookup(w) ==
    /\ At(w, "lookup")
    /\ \/ AlreadyStored(task[w]) /\ Return(w, "skipped")
       \/ ~AlreadyStored(task[w]) /\ Go(w, "decide", task[w].stat, Nothing)
       \/ AddQueryFails(w)
    /\ UNCHANGED <<storeVars, adds, bare>>

\* What saveFile knows of the file: isReadable() asks the system now; the rest is
\* cached, unless this QFileInfo has not looked before.
Known(t) == IF t.stat = Unknown THEN disk[t.path] ELSE t.stat
LeavesOut(t) ==
    CASE ~Exists(t.path) -> {"noaccess"}
      [] Exists(t.path) /\ Known(t).kind = "missing" -> {"notfound"}
      [] Exists(t.path) /\ Known(t).kind \in {"file", "empty"} /\ t.path \in Excluded -> {"skipped"}
      [] OTHER -> {}
\* mustFillContent: a row of the directory that is not of type 'c', as it has when the
\* path was saved as a directory or without content, keeps the texts of its files out.
AsksForType(t) == LeavesOut(t) = {} /\ Known(t).kind \in {"file", "empty"} /\ t.mode = "content"
MustFillContent(t) ==
    \/ t.mode = "fill"
    \/ t.mode = "content" /\ FileTypes(DirOf[t.path]) \subseteq {"c"}

\* saveFile up to the child process.
Decide(w) ==
    /\ At(w, "decide")
    /\ LET t == task[w] IN
         \/ \E result \in LeavesOut(t) : Return(w, result)
         \/ /\ LeavesOut(t) = {}
            /\ CASE Known(t).kind = "file" /\ MustFillContent(t) ->
                      Go(w, "extract", Known(t), Nothing)
                 [] Known(t).kind = "file" /\ ~MustFillContent(t) /\ t.mode = "content" ->
                      Go(w, "save", Known(t), Withheld)
                 [] OTHER -> Go(w, "save", Known(t), Nothing)
         \/ AsksForType(t) /\ AddQueryFails(w)
    /\ UNCHANGED <<storeVars, adds, bare>>

\* What the child process may answer for a path when it opens it: its exit code and
\* the version of the text it printed.  It opens what the path is now: no processor
\* is found for what became a directory, which is no failure, or it cannot be read.
\* A processor that throws, and a child that is killed, print nothing.  A child that
\* cannot be started, or has not ended after waitForFinished's 30 s, has exit code 0.
ChildAnswers(p) ==
    CASE disk[p].kind = "missing" -> [result : {"noaccess"}, text : {Nothing}]
      [] disk[p].kind = "dir" -> [result : {"ok", "processfail"}, text : {Nothing}]
      [] disk[p].kind = "empty" -> [result : {"ok"}, text : {Nothing}]
      [] disk[p].kind = "file" ->
           [result : {"ok"}, text : {[mtime |-> disk[p].mtime, nth |-> disk[p].nth]}]
NoAnswers ==
    [result : Failures \cap {"processfail", "signal"}, text : {Nothing}]
      \cup [result : {r \in {"ok"} : "silent" \in Failures}, text : {Withheld}]

\* saveFile waits for the child, and returns the failure it reports.
Extract(w) ==
    /\ At(w, "extract")
    /\ \E child \in ChildAnswers(task[w].path) \cup NoAnswers :
         IF child.result = "ok" THEN Go(w, "save", task[w].stat, child.text)
                                ELSE Return(w, child.result)
    /\ UNCHANGED <<storeVars, adds, bare>>

\* file.filetype: 'd', 'f' with --no-content, 'c'.
TypeOf(t) == IF t.mode = "metadata" THEN "f" ELSE IF t.stat.kind = "dir" THEN "d" ELSE "c"

\* What is known of the text of p from now on.
NoteText(p, text) == bare' = IF text = Withheld THEN bare \cup {p} ELSE bare \ {p}

\* A transaction that fails, at whatever statement, is rolled back.
SaveFails(w) ==
    /\ "dbfail" \in Failures
    /\ Return(w, "dbfail")
    /\ UNCHANGED <<rows, content, bare>>

\* Slip: the time stored with the text is taken when the row is written.
SaveRestat(w) ==
    /\ At(w, "save")
    /\ LET t == task[w] IN
         \/ /\ SaveFile(t.path, disk[t.path].mtime, TypeOf(t), t.text)
            /\ NoteText(t.path, t.text)
            /\ Return(w, "ok")
         \/ SaveFails(w)
    /\ UNCHANGED <<disk, adds>>

\* SqliteDbService::saveFile under its mutex.
Save(w) ==
    /\ At(w, "save")
    /\ LET t == task[w] IN
         \/ /\ SaveFile(t.path, t.stat.mtime, TypeOf(t), t.text)
            /\ NoteText(t.path, t.text)
            /\ Return(w, "ok")
         \/ SaveFails(w)
    /\ UNCHANGED <<disk, adds>>

\* addFile returns to its FileScanWorker, which reports the result and goes on.
EndAdd(w) ==
    /\ At(w, "answer")
    /\ task[w].for = "add"
    /\ task' = [task EXCEPT ![w] = Idle]
    /\ UNCHANGED <<storeVars, adds, bare>>

\* The steps that change the database, and the others.
SaverReads(w) == Lookup(w) \/ Decide(w) \/ Extract(w) \/ EndAdd(w)
----------------------------------------------------------------------------
SaverTypeOK ==
    /\ StoreTypeOK
    /\ task \in [Workers -> Task \cup Answer \cup {Idle}]
    /\ adds \in Nat
    /\ bare \subseteq Paths

\* A row of type 'c' whose modification time is the file's says the truth: the pages
\* stored for it are those of this version.  The file may change at any moment while
\* it is looked at, extracted and saved; as this row makes addFile skip the file and
\* sync leave it alone, a wrong one would stay (filesaver.cpp:27-44,153-192).  It is
\* wrong, and stays, if the file was written again within the second, or if the child
\* was not asked or did not answer.
UpToDateMeansIndexed ==
    \A r \in rows :
        /\ r.type = "c"
        /\ r.path \notin bare
        /\ disk[r.path] = [kind |-> "file", mtime |-> r.mtime, nth |-> 1]
        => [fileid |-> r.id, path |-> r.path, mtime |-> r.mtime, nth |-> 1] \in content

\* Why: no row and no task is ahead of the disk, and a task whose stamp still is the
\* file's has read this version.
InFile(t) == t.pc \in {"lookup", "decide", "extract", "save"}
RowsNotAhead == \A r \in rows : r.mtime <= disk[r.path].mtime
Before(s, d) ==
    \/ s.mtime < d.mtime
    \/ s.mtime = d.mtime /\ s.nth < d.nth
    \/ s.mtime = d.mtime /\ s.nth = d.nth /\ d.kind \in {s.kind, "missing"}
TasksNotAhead ==
    \A w \in Workers :
        InFile(task[w]) => task[w].stat = Unknown \/ Before(task[w].stat, disk[task[w].path])
HoldsTextOfStamp(t) ==
    /\ t.pc = "save"
    /\ t.text # Withheld
    /\ TypeOf(t) = "c"
    /\ disk[t.path] = [kind |-> "file", mtime |-> t.stat.mtime, nth |-> 1]
    => t.text = [mtime |-> t.stat.mtime, nth |-> 1]
StampsInv ==
    /\ RowsNotAhead
    /\ TasksNotAhead
    /\ \A w \in Workers : HoldsTextOfStamp(task[w])
=============================================================================
