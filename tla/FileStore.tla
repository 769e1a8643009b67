----------------------------- MODULE FileStore -----------------------------
(***************************************************************************)
(* The files on disk and the tables of the index database that describe    *)
(* them (SqliteDbService).  Each operator below that primes rows is one    *)
(* SQL transaction, or one statement that SQLite commits by itself; in WAL *)
(* mode a SELECT reads one snapshot.  The program knows modification times *)
(* in seconds, so several versions of a file may have the same; the model  *)
(* counts them, the program cannot.  Times do not go back.                 *)
(***************************************************************************)
EXTENDS Integers, Sequences, FiniteSets

CONSTANTS
    Paths,      \* absolute paths
    DirOf,      \* the directory a path is in
    Changing,   \* paths that other programs change and that are added to the index
    Kinds,      \* what a path may be turned into: "file", "empty", "dir"
    Failures,   \* what may go wrong: "dbfail", "processfail", "signal", "silent"
    MayRemove,  \* TRUE: files may be removed
    MaxMtime,   \* bound on the modification times
    MaxSame     \* bound on the versions of a path that have the same one

ASSUME StoreAssumption ==
    /\ DOMAIN DirOf = Paths
    /\ Changing \subseteq Paths
    /\ Kinds \subseteq {"file", "empty", "dir"}
    /\ Failures \subseteq {"dbfail", "processfail", "signal", "silent"}
    /\ MayRemove \in BOOLEAN
    /\ MaxMtime \in Nat \ {0}
    /\ MaxSame \in Nat \ {0}

VARIABLES
    disk,       \* what QFileInfo finds at a path
    rows,       \* table file
    content     \* tables content, fts and fts_trigram: the pages of a fileid

storeVars == <<disk, rows, content>>

Times == 1..MaxMtime
Nths == 1..MaxSame
\* The nth version of a path that has this modification time.  A file has size 0 or not.
Stat == [kind : {"missing", "file", "empty", "dir"}, mtime : Times, nth : Nths]
Row == [id : Nat \ {0}, path : Paths, mtime : Times, type : {"c", "f", "d"}]
\* The text of one version of a file, stored for a fileid.
Text == [fileid : Nat \ {0}, path : Paths, mtime : Times, nth : Nths]
\* No text: there is none, or nobody could or would tell.
Nothing == [mtime |-> 0, nth |-> 0]
Withheld == [mtime |-> 0, nth |-> 1]

Exists(p) == disk[p].kind # "missing"
IsFile(p) == disk[p].kind \in {"file", "empty"}

\* fileExistsInDatabase(path, mtime) and (path, mtime, filetype).
IsStored(p, mtime) == \E r \in rows : r.path = p /\ r.mtime = mtime
IsStoredAs(p, mtime, type) ==
    \E r \in rows : r.path = p /\ r.mtime = mtime /\ r.type = type
\* queryFileType: at most one.
FileTypes(p) == {r.type : r \in {s \in rows : s.path = p}}

\* The id SQLite gives a new row of rs: file.id is an INTEGER PRIMARY KEY without
\* AUTOINCREMENT, one more than the largest id in use.
NextIds(rs) ==
    {id \in {1} \cup {r.id + 1 : r \in rs} : \A r \in rs : r.id < id}

\* insertToFTS: a row for each page, and none if there is none.
InsertText(id, p, text) ==
    content' = IF text.mtime = 0 THEN content
               ELSE content \cup
                      {[fileid |-> id, path |-> p, mtime |-> text.mtime, nth |-> text.nth]}

\* Slip: INSERT without the DELETE before it.
InsertOnly(p, mtime, type, text) ==
    \E id \in NextIds(rows) :
        /\ rows' = rows \cup {[id |-> id, path |-> p, mtime |-> mtime, type |-> type]}
        /\ InsertText(id, p, text)

\* saveFile's transaction: DELETE the row, INSERT its successor, then its pages.
\* The pages of the old row stay: no connection sets PRAGMA foreign_keys, so ON
\* DELETE CASCADE does nothing.
SaveFile(p, mtime, type, text) ==
    LET others == {r \in rows : r.path # p} IN
    \E id \in NextIds(others) :
        /\ rows' = others \cup {[id |-> id, path |-> p, mtime |-> mtime, type |-> type]}
        /\ InsertText(id, p, text)

\* deleteFile: DELETE FROM file WHERE path = ?.
DeleteFile(p) == rows' = {r \in rows : r.path # p} /\ UNCHANGED content

\* getFiles: SELECT ... LIMIT limit OFFSET offset, in the order of the ids.
Rank(r) == Cardinality({s \in rows : s.id < r.id})
GetFiles(offset, limit) == {r \in rows : Rank(r) >= offset /\ Rank(r) < offset + limit}
\* The row a loop over such a result visits next.
IsFirst(r, page) == r \in page /\ \A s \in page : r.id <= s.id

\* Other programs write, create, replace and remove files, in directories there are.
IsTree(d) ==
    \A p \in Paths :
        DirOf[p] \in Paths /\ d[p].kind # "missing" => d[DirOf[p]].kind = "dir"
LaterVersions(stat) ==
    {v \in [mtime : Times, nth : Nths] :
        IF v.mtime = stat.mtime THEN v.nth = stat.nth + 1
                                ELSE v.mtime = stat.mtime + 1 /\ v.nth = 1}
Write(p) ==
    /\ \E kind \in Kinds : \E v \in LaterVersions(disk[p]) :
         disk' = [disk EXCEPT ![p] = [kind |-> kind, mtime |-> v.mtime, nth |-> v.nth]]
    /\ IsTree(disk')
    /\ UNCHANGED <<rows, content>>
Remove(p) ==
    /\ MayRemove
    /\ Exists(p)
    /\ disk' = [disk EXCEPT ![p].kind = "missing"]
    /\ IsTree(disk')
    /\ UNCHANGED <<rows, content>>

\* Every variable has the type of what it stands for, and path is UNIQUE.
StoreTypeOK ==
    /\ disk \in [Paths -> Stat]
    /\ rows \subseteq Row
    /\ content \subseteq Text
    /\ \A r, s \in rows : r.path = s.path => r = s
=============================================================================
