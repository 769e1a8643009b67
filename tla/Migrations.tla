----------------------------- MODULE Migrations -----------------------------
(***************************************************************************)
(* How a process, GUI or command line, comes to a database it can work     *)
(* with: ensureConfigured, then DBMigrator.  A revision is one transaction *)
(* of which others see nothing before it commits; SQLite lets one process  *)
(* write at a time.  In WAL mode, which every connection asks for, a       *)
(* COMMIT that fails has rolled its transaction back.                      *)
(***************************************************************************)
EXTENDS Integers

CONSTANTS
    Processes,
    Guis,             \* those that run the GUI
    LastRevision,     \* how many migrations the program has
    MayKill,          \* TRUE: a process may be killed
    SqlFails,         \* TRUE: the disk may be full, not readable, not writable
    MaxStarts         \* bound on the number of starts

ASSUME MigrationsAssumption ==
    /\ Guis \subseteq Processes
    /\ LastRevision \in Nat \ {0}
    /\ MayKill \in BOOLEAN
    /\ SqlFails \in BOOLEAN
    /\ MaxStarts \in Nat

VARIABLES
    exists,           \* the database file exists
    revision,         \* PRAGMA user_version
    schema,           \* the migrations whose statements were committed
    stage,            \* how far each process is
    next,             \* performMigrations: the migration it is to perform next
    starts,           \* processes started so far
    mishap            \* history: the worst that happened to an upgrade

fileVars == <<exists, revision, schema>>
migrationVars == <<fileVars, stage, next, starts, mishap>>

Stages ==
    {"off", "configure", "create", "init", "check", "ask", "open", "migrate", "leave", "work"}
Goto(p, s) == stage' = [stage EXCEPT ![p] = s]
At(p, s) == stage[p] = s

\* A process gave up: it was killed, its user said no, or an error stopped it.  What is
\* worse, the program did not look at an error and went on.
Mishaps == {"none", "stopped", "ignored"}
GivesUp == mishap' = IF mishap = "none" THEN "stopped" ELSE mishap

StartProcess(p) ==
    /\ At(p, "off")
    /\ starts < MaxStarts
    /\ starts' = starts + 1
    /\ Goto(p, "configure")
    /\ UNCHANGED <<fileVars, next, mishap>>

\* ensureConfigured: QFile::exists(dbpath)
Configure(p) ==
    /\ At(p, "configure")
    /\ Goto(p, IF exists THEN "check" ELSE "create")
    /\ UNCHANGED <<fileVars, next, starts, mishap>>

\* Slip: the loop starts at the current revision, not behind it.
ReadRevisionOnly(p) ==
    /\ stage[p] \in {"create", "open"}
    /\ exists' = TRUE
    /\ next' = [next EXCEPT ![p] = revision]
    /\ Goto(p, IF At(p, "create") THEN "init" ELSE "migrate")
    /\ UNCHANGED <<revision, schema, starts, mishap>>

\* performMigrations reads the revision anew; opening the database creates its file.
ReadRevision(p) ==
    /\ stage[p] \in {"create", "open"}
    /\ exists' = TRUE
    /\ next' = [next EXCEPT ![p] = revision + 1]
    /\ Goto(p, IF At(p, "create") THEN "init" ELSE "migrate")
    /\ UNCHANGED <<revision, schema, starts, mishap>>

\* Opening the database or asking for its revision throws: the process ends.
OpenFails(p) ==
    /\ SqlFails
    /\ stage[p] \in {"create", "check", "open"}
    /\ exists' \in {exists, TRUE}
    /\ Goto(p, "off")
    /\ GivesUp
    /\ UNCHANGED <<revision, schema, next, starts>>

\* migrationNeeded
Check(p) ==
    /\ At(p, "check")
    /\ Goto(p, IF revision >= LastRevision THEN "work"
               ELSE IF p \in Guis THEN "ask" ELSE "open")
    /\ UNCHANGED <<fileVars, next, starts, mishap>>

\* The GUI's user is asked whether to upgrade.
Answer(p) ==
    /\ At(p, "ask")
    /\ \/ Goto(p, "open") /\ UNCHANGED mishap
       \/ Goto(p, "off") /\ GivesUp
    /\ UNCHANGED <<fileVars, next, starts>>

Migrating(p) == stage[p] \in {"init", "migrate"}
Applies(p) == Migrating(p) /\ next[p] <= LastRevision

\* Slip: the version is set although the statements were rolled back.
MigrateAnyway(p) ==
    /\ Applies(p)
    /\ schema' = schema \cup {next[p]}
    /\ revision' = next[p]
    /\ next' = [next EXCEPT ![p] = @ + 1]
    /\ UNCHANGED <<exists, stage, starts, mishap>>

\* The statements of one revision and its number, committed together.
Migrate(p) ==
    /\ Applies(p)
    /\ next[p] \notin schema
    /\ schema' = schema \cup {next[p]}
    /\ revision' = next[p]
    /\ next' = [next EXCEPT ![p] = @ + 1]
    /\ UNCHANGED <<exists, stage, starts, mishap>>

\* PRAGMA user_version fails, or COMMIT does and nothing is left of the transaction:
\* nobody looks at the results, and the next revision is the next one's turn.
MigrateInVain(p) ==
    /\ SqlFails
    /\ Applies(p)
    /\ next[p] \notin schema
    /\ schema' \in {schema, schema \cup {next[p]}}
    /\ next' = [next EXCEPT ![p] = @ + 1]
    /\ mishap' = "ignored"
    /\ UNCHANGED <<exists, revision, stage, starts>>

\* Slip: the GUI shows the error and goes on.
WorkAfterError(p) == IF At(p, "init") THEN "check" ELSE "work"

\* Where a process goes on after the signal error(): nobody hears it while the database
\* is created; the command line's quit() comes before exec() and so does nothing.
AfterError(p) ==
    CASE At(p, "init") -> "check"
      [] At(p, "migrate") /\ p \notin Guis -> "work"
      [] At(p, "migrate") /\ p \in Guis -> "off"

\* A statement of a revision that another process has committed fails, as every
\* migration begins with what cannot be done twice; or the other one, which is still at
\* it, holds the lock for longer than the time-out.
Overtaken(p) ==
    \/ next[p] \in schema
    \/ \E q \in Processes \ {p} : Applies(q) /\ next[q] \notin schema

\* A statement fails, for this or any other reason, and the transaction is rolled back.
MigrationFails(p) ==
    /\ Applies(p)
    /\ \/ Overtaken(p) /\ UNCHANGED mishap
       \/ SqlFails /\ GivesUp
    /\ Goto(p, AfterError(p))
    /\ UNCHANGED <<fileVars, next, starts>>

\* done()
MigrationsDone(p) ==
    /\ Migrating(p)
    /\ next[p] > LastRevision
    /\ Goto(p, IF At(p, "init") THEN "check" ELSE IF p \in Guis THEN "leave" ELSE "work")
    /\ UNCHANGED <<fileVars, next, starts, mishap>>

\* The GUI destroys the migrator's QThread after quit() and without wait(): where it
\* still runs, Qt aborts the program.
LeaveThread(p) ==
    /\ At(p, "leave")
    /\ \E s \in {"work", "off"} : Goto(p, s)
    /\ UNCHANGED <<fileVars, next, starts, mishap>>

StartupStep(p) ==
    \/ Configure(p)
    \/ ReadRevision(p)
    \/ OpenFails(p)
    \/ Check(p)
    \/ Migrate(p)
    \/ MigrateInVain(p)
    \/ MigrationFails(p)
    \/ MigrationsDone(p)
    \/ LeaveThread(p)

Exit(p) ==
    /\ At(p, "work")
    /\ Goto(p, "off")
    /\ UNCHANGED <<fileVars, next, starts, mishap>>

\* Nothing of a transaction that was not committed is left.
Kill(p) ==
    /\ MayKill
    /\ stage[p] # "off"
    /\ Goto(p, "off")
    /\ GivesUp
    /\ UNCHANGED <<fileVars, next, starts>>

MigrationsTypeOK ==
    /\ exists \in BOOLEAN
    /\ revision \in 0..LastRevision
    /\ schema \subseteq 1..LastRevision
    /\ stage \in [Processes -> Stages]
    /\ next \in [Processes -> Nat]
    /\ starts \in Nat
    /\ mishap \in Mishaps
=============================================================================
