------------------------------ MODULE Sessions ------------------------------
(***************************************************************************)
(* Processes of the GUI and of looqs tag start, upgrade the database they  *)
(* share and tag files, while others index and any of them may be killed.  *)
(***************************************************************************)
EXTENDS Migrations, Tags

CONSTANTS
    StartRevisions,   \* revisions the database may have to begin with
    Indexed,          \* the files it then has, by their ids
    TagRevision       \* the migration that creates the tables tag and filetag

ASSUME SessionsAssumption ==
    /\ Clients = Processes
    /\ StartRevisions \subseteq 0..LastRevision
    /\ Indexed \in Seq(Paths)
    /\ \A i, k \in DOMAIN Indexed : Indexed[i] = Indexed[k] => i = k
    /\ TagRevision \in 1..LastRevision

vars == <<migrationVars, storeVars, tagVars>>

Init ==
    /\ revision \in StartRevisions
    /\ exists = (revision > 0)
    /\ schema = 1..revision
    /\ stage = [p \in Processes |-> "off"]
    /\ next = [p \in Processes |-> 1]
    /\ starts = 0
    /\ mishap = "none"
    /\ disk = [p \in Paths |-> [kind |-> "file", mtime |-> 1, nth |-> 1]]
    /\ rows = IF revision = 0 THEN {}
              ELSE {[id |-> i, path |-> Indexed[i], mtime |-> 1, type |-> "c"] :
                      i \in DOMAIN Indexed}
    /\ content = {}
    /\ tags = {}
    /\ filetag = {}
    /\ command = [p \in Processes |-> IdleClient]
    /\ commands = 0
    /\ writes = 0

Works(p) == stage[p] = "work"
CanTag == TagRevision \in schema
TaggingUntouched == UNCHANGED <<storeVars, tagVars>>

Launch(p) == StartProcess(p) /\ TaggingUntouched
Startup(p) == StartupStep(p) /\ TaggingUntouched
UserAnswers(p) == Answer(p) /\ TaggingUntouched
Quit(p) == command[p] = IdleClient /\ Exit(p) /\ TaggingUntouched

\* Without the tables a command fails; nothing of it is left.
CliCommand(p) ==
    /\ p \notin Guis
    /\ Works(p)
    /\ CanTag
    /\ StartTagging(p) \/ DeleteTagCommand(p)
    /\ UNCHANGED <<storeVars, migrationVars>>
GuiClick(p) ==
    /\ p \in Guis
    /\ Works(p)
    /\ CanTag
    /\ ClickTags(p)
    /\ UNCHANGED <<storeVars, migrationVars>>
Tagging(p) == Works(p) /\ TagStep(p) /\ UNCHANGED <<storeVars, migrationVars>>

Indexing ==
    /\ 1 \in schema
    /\ \E p \in Paths : Reindex(p) \/ Unindex(p)
    /\ UNCHANGED migrationVars

Killed(p) ==
    /\ Kill(p)
    /\ command' = [command EXCEPT ![p] = IdleClient]
    /\ UNCHANGED <<storeVars, tags, filetag, commands, writes>>

Next ==
    \/ \E p \in Processes :
        \/ Launch(p)
        \/ Startup(p)
        \/ UserAnswers(p)
        \/ CliCommand(p)
        \/ GuiClick(p)
        \/ Tagging(p)
        \/ Quit(p)
        \/ Killed(p)
    \/ Indexing

Spec == Init /\ [][Next]_vars

\* A process that is starting, or has begun a command, goes on.
Fairness == \A p \in Processes : WF_vars(Startup(p)) /\ WF_vars(Tagging(p))
FairSpec == Spec /\ Fairness
----------------------------------------------------------------------------
TypeOK == MigrationsTypeOK /\ TagsTypeOK

\* However many processes migrate at once, fail, give up and are killed: the revision
\* says which migrations the schema has; unless an error of PRAGMA user_version or of
\* COMMIT, which the code does not look at, was among it (dbmigrator.cpp:72-92).
RevisionTellsSchema == mishap # "ignored" => schema = 1..revision

\* If no such error was passed over, the GUI works on the latest schema only, whatever
\* else fails.  The command line also works on an older one, but then somebody is
\* upgrading it, or somebody gave up: was killed, did not want to or met an SQL error
\* (main.cpp:96-101, gui/main.cpp:160-213).
WorksUpToDate ==
    \A p \in Processes :
        Works(p) /\ revision < LastRevision /\ mishap # "ignored" =>
            /\ p \notin Guis
            /\ \/ mishap = "stopped"
               \/ \E q \in Processes : Migrating(q) /\ next[q] = revision + 1

\* Of processes that upgrade the database together, one finishes it, if none is killed,
\* refuses or meets an SQL error other than being overtaken by another.
EventuallyUpgraded ==
    (\E p \in Processes : Migrating(p)) ~> (revision = LastRevision \/ mishap # "none")

\* Tables, ids that are used again and rows that come and go are not to be noticed: a
\* path gets and loses the tags that the commands name, and no file those of another
\* command or file, as long as its own row stays (sqlitedbservice.cpp:165-219, 436-551,
\* commandtag.cpp:56-134, tagmanager.cpp:8-30).
Book == INSTANCE TagBook WITH
    book <- [p \in Paths |-> TagsForPath(p)],
    listed <- {p \in Paths : IsStoredPath(p)}
BookKept == Book!Spec
=============================================================================
