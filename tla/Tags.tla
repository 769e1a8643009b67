-------------------------------- MODULE Tags --------------------------------
(***************************************************************************)
(* Tags of indexed files: the tables tag and filetag, TagManager with the  *)
(* transactions of SqliteDbService it uses, and its two users, looqs tag   *)
(* and the context menu of the GUI.  filetag refers to a file by the id of *)
(* its row, which saveFile replaces.                                       *)
(***************************************************************************)
EXTENDS FileStore

CONSTANTS
    Names,            \* names of tags, in lower case
    Clients,          \* processes that tag
    MaxCommands,      \* bound on the number of commands
    MaxWrites         \* bound on how often others write rows

ASSUME TagsAssumption == IsFiniteSet(Names) /\ MaxCommands \in Nat /\ MaxWrites \in Nat

VARIABLES
    tags,             \* table tag
    filetag,          \* table filetag
    command,          \* what each client is doing
    commands,         \* commands so far
    writes            \* rows written or deleted by others so far

tagVars == <<tags, filetag, command, commands, writes>>

Null == 0
Tag == [id : Nat \ {0}, name : Names]
FileTag == [file : Nat, tag : Nat \ {0}]

IdleClient == [what |-> "nothing"]
Command ==
    [what : {"add", "remove"}, tag : Names, paths : SUBSET Paths]
      \cup [what : {"set"}, path : Paths, read : SUBSET Names, names : SUBSET Names]

\* (SELECT id FROM file WHERE path = ?), and likewise of tag.
FileIds(p) == {r.id : r \in {s \in rows : s.path = p}}
FileId(p) == IF FileIds(p) = {} THEN Null ELSE CHOOSE id \in FileIds(p) : TRUE
IdsOf(table, name) == {t.id : t \in {u \in table : u.name = name}}
IsStoredPath(p) == FileIds(p) # {}

\* getTagsForPath
TagsForPath(p) ==
    {t.name : t \in {u \in tags : \E x \in filetag : x.tag = u.id /\ x.file \in FileIds(p)}}

\* Slip: INSERT without OR IGNORE, and the index not UNIQUE.
InsertTagsAgain(names) ==
    tags' = tags \cup {[id |-> Cardinality(tags) + 1, name |-> n] : n \in names}

\* INSERT OR IGNORE of each of these names, in some order: a new id is one more than the
\* largest in use.
LastTagIds == {m \in {0} \cup {t.id : t \in tags} : \A t \in tags : t.id <= m}
InsertTags(names) ==
    LET missing == {n \in names : IdsOf(tags, n) = {}} IN
    \E last \in LastTagIds : \E id \in [missing -> last + 1..last + Cardinality(missing)] :
        /\ \A m, n \in missing : id[m] = id[n] => m = n
        /\ tags' = tags \cup {[id |-> id[n], name |-> n] : n \in missing}

\* Slip: the ids are not looked up by name, the last one inserted is taken.
AssignLastInserted(p, names) ==
    {[file |-> FileId(p), tag |-> t.id] : t \in {u \in tags' : \A v \in tags' : v.id <= u.id}}

\* The rows that assign tags with these names, which the table then has, to a path; a
\* path without a row gets NULL.
Assignments(p, names) ==
    {[file |-> FileId(p), tag |-> i] : i \in UNION {IdsOf(tags', n) : n \in names}}
----------------------------------------------------------------------------
\* The transactions.
SetTags(p, names) ==
    /\ InsertTags(names)
    /\ filetag' = {x \in filetag : x.file \notin FileIds(p)} \cup Assignments(p, names)

\* No constraint keeps filetag from having a row twice (5.sql:2), as it has when a tag
\* is added again.  Deletions and searches treat the two alike; only the lists that
\* getTagsForPath and getPathsForTag return have the tag or path twice.
AddTag(t, paths) ==
    /\ InsertTags({t})
    /\ filetag' = filetag \cup UNION {Assignments(p, {t}) : p \in paths}

\* removePathsForTag for one path: a statement that commits by itself.
RemovePathForTag(t, p) ==
    /\ filetag' = {x \in filetag : x.file \notin FileIds(p) \/ x.tag \notin IdsOf(tags, t)}
    /\ UNCHANGED tags

\* Slip: the assignments stay.
DeleteTagOnly(t) ==
    /\ tags' = {u \in tags : u.name # t}
    /\ UNCHANGED filetag

DeleteTag(t) ==
    /\ tags' = {u \in tags : u.name # t}
    /\ filetag' = {x \in filetag : x.tag \notin IdsOf(tags, t)}
----------------------------------------------------------------------------
\* The commands.  Those of one client after another stand for as many calls of looqs.
Start(c, task) ==
    /\ command[c] = IdleClient
    /\ commands < MaxCommands
    /\ commands' = commands + 1
    /\ UNCHANGED writes
    /\ command' = [command EXCEPT ![c] = task]
End(c) == command' = [command EXCEPT ![c] = IdleClient] /\ UNCHANGED commands

\* looqs tag add, looqs tag remove: ensureAbsolutePaths.
StartTagging(c) ==
    /\ \E what \in {"add", "remove"}, t \in Names, paths \in SUBSET Paths \ {{}} :
        /\ \A p \in paths : Exists(p) /\ IsStoredPath(p)
        /\ Start(c, [what |-> what, tag |-> t, paths |-> paths])
    /\ UNCHANGED <<tags, filetag>>

AddPathsToTag(c) ==
    /\ command[c].what = "add"
    /\ AddTag(command[c].tag, command[c].paths)
    /\ End(c)

RemovePaths(c) ==
    /\ command[c].what = "remove"
    /\ \E p \in command[c].paths :
        /\ RemovePathForTag(command[c].tag, p)
        /\ IF command[c].paths = {p} THEN End(c)
           ELSE /\ command' = [command EXCEPT ![c].paths = @ \ {p}]
                /\ UNCHANGED commands

\* looqs tag delete
DeleteTagCommand(c) ==
    /\ Start(c, IdleClient)
    /\ \E t \in Names : DeleteTag(t)

\* addTagsToPath and removeTagsForPath read the tags of a path, which a search found;
\* tags are taken away one by one.
ClickTags(c) ==
    /\ \E p \in Paths :
        \E after \in {TagsForPath(p) \cup names : names \in SUBSET Names \ {{}}}
                       \cup {TagsForPath(p) \ {n} : n \in Names} :
            Start(c, [what |-> "set", path |-> p, read |-> TagsForPath(p), names |-> after])
    /\ UNCHANGED <<tags, filetag>>

\* ... and write all of them.
WriteTags(c) ==
    /\ command[c].what = "set"
    /\ SetTags(command[c].path, command[c].names)
    /\ End(c)

\* A transaction cannot be opened, executed or committed; the user is told.
TaggingFails(c) ==
    /\ "dbfail" \in Failures
    /\ command[c] # IdleClient
    /\ End(c)
    /\ UNCHANGED <<tags, filetag>>

TagStep(c) ==
    /\ \/ AddPathsToTag(c)
       \/ RemovePaths(c)
       \/ WriteTags(c)
       \/ TaggingFails(c)
    /\ UNCHANGED writes

\* What other processes do to the rows of files.
Reindex(p) ==
    /\ writes < MaxWrites
    /\ writes' = writes + 1
    /\ SaveFile(p, disk[p].mtime, "c", Nothing)
    /\ UNCHANGED <<disk, tags, filetag, command, commands>>
Unindex(p) ==
    /\ writes < MaxWrites
    /\ writes' = writes + 1
    /\ IsStoredPath(p)
    /\ DeleteFile(p)
    /\ UNCHANGED <<disk, tags, filetag, command, commands>>
----------------------------------------------------------------------------
TagsTypeOK ==
    /\ StoreTypeOK
    /\ tags \subseteq Tag
    /\ filetag \subseteq FileTag
    /\ command \in [Clients -> Command \cup {IdleClient}]
    /\ commands \in Nat
    /\ writes \in Nat
    /\ \A t, u \in tags : t.id = u.id \/ t.name = u.name => t = u

\* No assignment is left to a tag that was deleted, whose id the next new tag gets; no
\* foreign key sees to it (sqlitedbservice.cpp:511-551).
AssignedTagsExist == \A x \in filetag : \E t \in tags : t.id = x.tag
=============================================================================
