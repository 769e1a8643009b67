--------------------------- MODULE SessionsProofs ---------------------------
(***************************************************************************)
(* For any number of processes and of migrations: whoever migrates, fails, *)
(* gives up or is killed, the revision tells the schema and nobody works   *)
(* on an old one unnoticed, if no error is passed over; and tags that      *)
(* files have are tags that exist.                                         *)
(***************************************************************************)
EXTENDS Sessions, FiniteSetTheorems, TLAPS

\* The process, if there is one, that performs the migration the schema needs next.
Leads(p) == Migrating(p) /\ next[p] = revision + 1

\* A process that was overtaken or that works has somebody ahead of it.
UpgradeGoesOn ==
    \A p \in Processes :
        (Works(p) \/ (Migrating(p) /\ next[p] <= revision)) /\ revision < LastRevision =>
            mishap = "stopped" \/ \E q \in Processes : Leads(q)

GuisAreUpToDate ==
    \A p \in Processes :
        At(p, "leave") \/ (p \in Guis /\ Works(p)) => revision = LastRevision

\* What holds as long as no error was passed over.
Orderly ==
    /\ schema = 1..revision
    /\ \A p \in Processes : next[p] <= revision + 1
    /\ GuisAreUpToDate
    /\ UpgradeGoesOn

MigrationsInv ==
    /\ MigrationsTypeOK
    /\ \A p \in Processes : next[p] # 0
    /\ mishap # "ignored" => Orderly

LEMMA MigrationsInit == Init => MigrationsInv
<1> SUFFICES ASSUME Init PROVE MigrationsInv
  OBVIOUS
<1>1. /\ exists \in BOOLEAN /\ mishap = "none" /\ starts = 0 /\ schema = 1..revision
      /\ stage = [p \in Processes |-> "off"] /\ next = [p \in Processes |-> 1]
  BY DEF Init
<1>2. revision \in Nat /\ revision <= LastRevision /\ LastRevision \in Nat
  <2>1. revision \in 0..LastRevision
    BY SessionsAssumption DEF Init
  <2>2. LastRevision \in Nat
    BY MigrationsAssumption
  <2> QED
    BY <2>1, <2>2
<1>3. MigrationsTypeOK
  <2>1. schema \subseteq 1..LastRevision /\ revision \in 0..LastRevision /\ starts \in Nat
    BY <1>1, <1>2
  <2>2. stage \in [Processes -> Stages] /\ next \in [Processes -> Nat]
    BY <1>1 DEF Stages
  <2>3. exists \in BOOLEAN /\ mishap \in Mishaps
    BY <1>1 DEF Mishaps
  <2> QED
    BY <2>1, <2>2, <2>3 DEF MigrationsTypeOK
<1>4. \A p \in Processes : stage[p] = "off" /\ next[p] = 1
  BY <1>1
<1>5. GuisAreUpToDate /\ UpgradeGoesOn
  BY <1>4 DEF GuisAreUpToDate, UpgradeGoesOn, Works, Migrating, At
<1>6. Orderly
  BY <1>1, <1>2, <1>4, <1>5 DEF Orderly
<1> QED
  BY <1>3, <1>4, <1>6 DEF MigrationsInv

LEMMA MigrationsStutter ==
    ASSUME MigrationsInv, UNCHANGED migrationVars
    PROVE  MigrationsInv'
BY DEF MigrationsInv, MigrationsTypeOK, Orderly, GuisAreUpToDate, UpgradeGoesOn,
       Leads, Works, Migrating, At, migrationVars, fileVars

\* Every step of start-up keeps the types, and what was passed over is not made good.
LEMMA MigrationsTypes ==
    ASSUME MigrationsInv, NEW p \in Processes,
           StartProcess(p) \/ StartupStep(p) \/ Answer(p) \/ Exit(p) \/ Kill(p)
    PROVE  /\ MigrationsTypeOK'
           /\ \A q \in Processes : next'[q] # 0
           /\ mishap = "ignored" => mishap' = "ignored"
<1>0. /\ exists \in BOOLEAN /\ revision \in 0..LastRevision /\ stage \in [Processes -> Stages]
      /\ next \in [Processes -> Nat] /\ starts \in Nat /\ mishap \in Mishaps
      /\ schema \subseteq 1..LastRevision /\ LastRevision \in Nat
      /\ \A q \in Processes : next[q] # 0
  BY MigrationsAssumption DEF MigrationsInv, MigrationsTypeOK
<1>1. mishap' \in Mishaps /\ (mishap = "ignored" => mishap' = "ignored")
  BY <1>0 DEF StartProcess, StartupStep, Answer, Exit, Kill, Configure, ReadRevision, OpenFails,
              Check, Migrate, MigrateInVain, MigrationFails, MigrationsDone, LeaveThread, GivesUp,
              Mishaps
<1>2. starts' \in Nat /\ exists' \in BOOLEAN
  <2>1. starts' \in {starts, starts + 1} /\ exists' \in {exists, TRUE}
    BY DEF StartProcess, StartupStep, Answer, Exit, Kill, Configure, ReadRevision, OpenFails,
           Check, Migrate, MigrateInVain, MigrationFails, MigrationsDone, LeaveThread, fileVars
  <2>2. starts' \in Nat
    BY <1>0, <2>1
  <2>3. exists' \in BOOLEAN
    BY <1>0, <2>1
  <2> QED
    BY <2>2, <2>3
<1>3. stage' \in [Processes -> Stages]
  <2>1. Applies(p) => AfterError(p) \in Stages
    BY DEF Applies, Migrating, AfterError, At, Stages
  <2>2. stage' = stage \/ \E s \in Stages : Goto(p, s)
    BY <2>1 DEF StartProcess, StartupStep, Answer, Exit, Kill, Configure, ReadRevision, OpenFails,
                Check, Migrate, MigrateInVain, MigrationFails, MigrationsDone, LeaveThread, Stages
  <2> QED
    BY <1>0, <2>2 DEF Goto
<1>4. /\ \/ UNCHANGED <<revision, schema>>
         \/ Applies(p) /\ revision' \in {revision, next[p]}
              /\ schema' \in {schema, schema \cup {next[p]}}
      /\ next' = next \/ \E n \in {revision + 1, next[p] + 1} : next' = [next EXCEPT ![p] = n]
  BY DEF StartProcess, StartupStep, Answer, Exit, Kill, Configure, ReadRevision, OpenFails,
         Check, Migrate, MigrateInVain, MigrationFails, MigrationsDone, LeaveThread, fileVars
<1>5. revision' \in 0..LastRevision /\ schema' \subseteq 1..LastRevision
  <2>1. Applies(p) => next[p] \in 1..LastRevision
    BY <1>0 DEF Applies
  <2>2. CASE UNCHANGED <<revision, schema>>
    BY <1>0, <2>2
  <2>3. CASE /\ next[p] \in 1..LastRevision
             /\ revision' \in {revision, next[p]}
             /\ schema' \in {schema, schema \cup {next[p]}}
    <3>1. revision' \in 0..LastRevision
      BY <1>0, <2>3
    <3>2. schema' \subseteq 1..LastRevision
      BY <1>0, <2>3
    <3> QED
      BY <3>1, <3>2
  <2> QED
    BY <1>4, <2>1, <2>2, <2>3
<1>6. next' \in [Processes -> Nat] /\ \A q \in Processes : next'[q] # 0
  BY <1>0, <1>4
<1> QED
  BY <1>1, <1>2, <1>3, <1>5, <1>6 DEF MigrationsTypeOK

\* A process that is not ahead of the others may go anywhere but to work on an old schema.
LEMMA MoveOn ==
    ASSUME MigrationsTypeOK, Orderly, NEW p \in Processes, NEW s \in Stages,
           Goto(p, s), next' = next, UNCHANGED <<revision, schema>>,
           mishap' = mishap \/ mishap' = "stopped",
           s \notin {"init", "migrate"},
           s = "leave" \/ (p \in Guis /\ s = "work") => revision = LastRevision,
           Leads(p) => mishap' = "stopped" \/ revision = LastRevision
                               \/ \E q \in Processes \ {p} : Leads(q),
           s = "work" => \/ mishap' = "stopped" \/ revision = LastRevision
                         \/ Migrating(p) /\ next[p] <= revision
                         \/ \E q \in Processes \ {p} : Leads(q)
    PROVE  Orderly'
<1> USE MigrationsAssumption DEF MigrationsTypeOK, Orderly, Goto, At
<1>1. GuisAreUpToDate'
  BY DEF GuisAreUpToDate, Works
<1>2. \A q \in Processes \ {p} : stage'[q] = stage[q] /\ (Leads(q) => Leads(q)')
  BY DEF Leads, Migrating
<1>3. UpgradeGoesOn'
  <2> SUFFICES ASSUME NEW r \in Processes, mishap' # "stopped", revision < LastRevision,
                      Works(r)' \/ (Migrating(r) /\ next[r] <= revision)'
               PROVE  \E q \in Processes : Leads(q)'
    BY DEF UpgradeGoesOn
  <2>1. \E q \in Processes : Leads(q)
    <3>1. CASE r = p
      BY <3>1 DEF UpgradeGoesOn, Works, Migrating
    <3>2. CASE r # p
      BY <3>2, <1>2 DEF UpgradeGoesOn, Works, Migrating
    <3> QED
      BY <3>1, <3>2
  <2> QED
    BY <2>1, <1>2
<1> QED
  BY <1>1, <1>3

LEMMA OrderlyStep ==
    ASSUME MigrationsTypeOK, \A q \in Processes : next[q] # 0,
           Orderly, mishap # "ignored", mishap' # "ignored", NEW p \in Processes,
           StartProcess(p) \/ StartupStep(p) \/ Answer(p) \/ Exit(p) \/ Kill(p)
    PROVE  Orderly'
<1> USE MigrationsAssumption
<1>0. /\ revision \in 0..LastRevision /\ stage \in [Processes -> Stages]
      /\ next \in [Processes -> Nat] /\ mishap \in {"none", "stopped"}
      /\ schema = 1..revision /\ \A q \in Processes : next[q] \in 1..revision + 1
  BY DEF MigrationsTypeOK, Orderly, Mishaps
<1>g. GivesUp => mishap' = "stopped"
  BY <1>0 DEF GivesUp
<1>1. CASE StartProcess(p)
  BY <1>0, <1>1, MoveOn DEF StartProcess, At, Leads, Migrating, Stages, fileVars
<1>2. CASE Configure(p)
  BY <1>0, <1>2, MoveOn DEF Configure, At, Leads, Migrating, Stages, fileVars
<1>3. CASE ReadRevision(p)
  <2> USE <1>0, <1>3 DEF Orderly, ReadRevision, Goto, At
  <2>1. /\ stage'[p] \in {"init", "migrate"} /\ next'[p] = revision + 1
        /\ \A q \in Processes \ {p} : stage'[q] = stage[q] /\ next'[q] = next[q]
        /\ UNCHANGED <<revision, schema, starts, mishap>>
    OBVIOUS
  <2>2. GuisAreUpToDate'
    BY <2>1 DEF GuisAreUpToDate, Works
  <2>3. UpgradeGoesOn'
    BY <2>1 DEF UpgradeGoesOn, Leads, Migrating
  <2>4. \A q \in Processes : next'[q] <= revision' + 1
    BY <2>1
  <2> QED
    BY <2>1, <2>2, <2>3, <2>4
<1>4. CASE OpenFails(p)
  BY <1>0, <1>4, <1>g, MoveOn DEF OpenFails, At, Leads, Migrating, Stages
<1>5. CASE Check(p)
  BY <1>0, <1>5, MoveOn DEF Check, At, Leads, Migrating, Stages, fileVars
<1>6. CASE Migrate(p)
  <2> USE <1>0, <1>6 DEF Migrate, Applies
  <2>1. /\ next[p] = revision + 1 /\ revision' = revision + 1 /\ next'[p] = revision' + 1
        /\ \A q \in Processes \ {p} : next'[q] = next[q]
        /\ UNCHANGED <<exists, stage, starts, mishap>>
    OBVIOUS
  <2>2. schema' = 1..revision'
    BY <2>1
  <2>3. UpgradeGoesOn'
    BY <2>1 DEF UpgradeGoesOn, Leads, Migrating, At
  <2>4. GuisAreUpToDate'
    BY <2>1 DEF Orderly, GuisAreUpToDate, Works, At
  <2>5. \A q \in Processes : next'[q] <= revision' + 1
    BY <2>1
  <2> QED
    BY <2>2, <2>3, <2>4, <2>5 DEF Orderly
<1>7. CASE MigrateInVain(p)
  BY <1>7 DEF MigrateInVain
<1>8. CASE MigrationFails(p)
  <2>1. CASE Overtaken(p) /\ UNCHANGED mishap
    <3>1. \/ next[p] <= revision
          \/ \E q \in Processes \ {p} : Leads(q)
      <4>1. \A q \in Processes : next[q] \notin schema => next[q] = revision + 1
        BY <1>0
      <4> QED
        BY <1>0, <2>1, <4>1 DEF Overtaken, Applies, Leads
    <3>2. /\ AfterError(p) \in {"check", "work", "off"}
          /\ p \in Guis => AfterError(p) # "work"
      BY <1>8 DEF MigrationFails, Applies, Migrating, AfterError, At
    <3>3. Leads(p) => \E q \in Processes \ {p} : Leads(q)
      BY <1>0, <3>1 DEF Leads
    <3> QED
      BY <1>0, <1>8, <2>1, <3>1, <3>2, <3>3, MoveOn DEF MigrationFails, Applies, Stages, fileVars
  <2>2. CASE GivesUp
    <3>1. /\ AfterError(p) \in {"check", "work", "off"}
          /\ p \in Guis => AfterError(p) # "work"
      BY <1>8 DEF MigrationFails, Applies, Migrating, AfterError, At
    <3> QED
      BY <1>0, <1>8, <1>g, <2>2, <3>1, MoveOn DEF MigrationFails, Stages, fileVars
  <2> QED
    BY <1>8, <2>1, <2>2 DEF MigrationFails
<1>9. CASE MigrationsDone(p)
  <2>1. revision = LastRevision
    BY <1>0, <1>9 DEF MigrationsDone
  <2> QED
    BY <1>0, <1>9, <2>1, MoveOn DEF MigrationsDone, Stages, fileVars
<1>10. CASE LeaveThread(p)
  <2>1. revision = LastRevision
    BY <1>10 DEF LeaveThread, Orderly, GuisAreUpToDate
  <2> QED
    BY <1>0, <1>10, <2>1, MoveOn DEF LeaveThread, Stages, fileVars
<1>11. CASE Answer(p)
  BY <1>0, <1>11, <1>g, MoveOn DEF Answer, At, Leads, Migrating, Stages, fileVars
<1>12. CASE Exit(p)
  BY <1>0, <1>12, MoveOn DEF Exit, At, Leads, Migrating, Stages, fileVars
<1>13. CASE Kill(p)
  BY <1>0, <1>13, <1>g, MoveOn DEF Kill, Stages, fileVars
<1> QED
  BY <1>1, <1>2, <1>3, <1>4, <1>5, <1>6, <1>7, <1>8, <1>9, <1>10, <1>11, <1>12, <1>13
     DEF StartupStep

LEMMA MigrationsStep ==
    ASSUME MigrationsInv, NEW p \in Processes,
           StartProcess(p) \/ StartupStep(p) \/ Answer(p) \/ Exit(p) \/ Kill(p)
    PROVE  MigrationsInv'
BY MigrationsTypes, OrderlyStep DEF MigrationsInv

\* Every step of the system starts, ends or kills a process, or is none of its business.
LEMMA MigrationsNext == MigrationsInv /\ [Next]_vars => MigrationsInv'
<1> SUFFICES ASSUME MigrationsInv, [Next]_vars PROVE MigrationsInv'
  OBVIOUS
<1>1. CASE UNCHANGED migrationVars
  BY <1>1, MigrationsStutter
<1>2. CASE \E p \in Processes :
             StartProcess(p) \/ StartupStep(p) \/ Answer(p) \/ Exit(p) \/ Kill(p)
  BY <1>2, MigrationsStep
<1> QED
  BY <1>1, <1>2 DEF Next, vars, Launch, Startup, UserAnswers, Quit, Killed, CliCommand,
                    GuiClick, Tagging, Indexing

THEOREM MigrationsCorrect == Spec => []MigrationsInv
BY MigrationsInit, MigrationsNext, PTL DEF Spec

\* However many processes migrate the same database, fail, give up and are killed: the
\* revision says exactly which migrations were committed, until an error of setting it or
\* of COMMIT is passed over (DBMigrator::performMigrations).
THEOREM RevisionCorrect == Spec => []RevisionTellsSchema
<1>1. MigrationsInv => RevisionTellsSchema
  BY DEF MigrationsInv, Orderly, RevisionTellsSchema
<1> QED
  BY <1>1, MigrationsCorrect, PTL

\* If no such error was passed over: the GUI never works on an old schema, and the command
\* line only while another process upgrades it or after somebody gave that up, be it for
\* an SQL error that was reported (both mains after migrationNeeded).
THEOREM WorksUpToDateCorrect == Spec => []WorksUpToDate
<1>1. MigrationsInv => WorksUpToDate
  BY DEF MigrationsInv, MigrationsTypeOK, Orderly, GuisAreUpToDate, UpgradeGoesOn, WorksUpToDate,
         Leads
<1> QED
  BY <1>1, MigrationsCorrect, PTL
----------------------------------------------------------------------------
LEMMA InsertKeepsTags ==
    ASSUME NEW names, InsertTags(names)
    PROVE  tags \subseteq tags'
BY DEF InsertTags

LEMMA AssignmentsAreToTags ==
    ASSUME NEW p, NEW names
    PROVE  \A x \in Assignments(p, names) : \E t \in tags' : t.id = x.tag
BY DEF Assignments, IdsOf

\* Each transaction on the two tables keeps assignments and tags together.
LEMMA SetTagsKeeps ==
    ASSUME AssignedTagsExist, NEW p, NEW names, SetTags(p, names)
    PROVE  AssignedTagsExist'
BY InsertKeepsTags, AssignmentsAreToTags DEF SetTags, AssignedTagsExist

LEMMA AddTagKeeps ==
    ASSUME AssignedTagsExist, NEW t, NEW paths, AddTag(t, paths)
    PROVE  AssignedTagsExist'
<1>1. \A x \in filetag' : x \in filetag \/ \E p \in paths : x \in Assignments(p, {t})
  BY DEF AddTag
<1> QED
  BY <1>1, InsertKeepsTags, AssignmentsAreToTags DEF AddTag, AssignedTagsExist

LEMMA RemovePathKeeps ==
    ASSUME AssignedTagsExist, NEW t, NEW p, RemovePathForTag(t, p)
    PROVE  AssignedTagsExist'
BY DEF RemovePathForTag, AssignedTagsExist

LEMMA DeleteTagKeeps ==
    ASSUME AssignedTagsExist, NEW t, DeleteTag(t)
    PROVE  AssignedTagsExist'
BY DEF DeleteTag, AssignedTagsExist, IdsOf

LEMMA TagsNext == AssignedTagsExist /\ [Next]_vars => AssignedTagsExist'
<1> SUFFICES ASSUME AssignedTagsExist, [Next]_vars PROVE AssignedTagsExist'
  OBVIOUS
<1>1. CASE UNCHANGED <<tags, filetag>>
  BY <1>1 DEF AssignedTagsExist
<1>2. ASSUME NEW c \in Processes, CliCommand(c) PROVE AssignedTagsExist'
  BY <1>1, <1>2, DeleteTagKeeps DEF CliCommand, StartTagging, DeleteTagCommand
<1>3. ASSUME NEW c \in Processes, Tagging(c) PROVE AssignedTagsExist'
  BY <1>1, <1>3, SetTagsKeeps, AddTagKeeps, RemovePathKeeps
     DEF Tagging, TagStep, AddPathsToTag, RemovePaths, WriteTags, TaggingFails
<1>4. \/ UNCHANGED <<tags, filetag>>
      \/ \E c \in Processes : CliCommand(c) \/ Tagging(c)
  BY DEF Next, vars, tagVars, Launch, Startup, UserAnswers, Quit, Killed, GuiClick, ClickTags,
         Indexing, Reindex, Unindex, TaggingUntouched
<1> QED
  BY <1>1, <1>2, <1>3, <1>4

\* No assignment to a tag outlives the tag, however commands of several processes
\* interleave, fail halfway or are killed (SqliteDbService::deleteTag, setTags, addTag).
THEOREM AssignedTagsExistCorrect == Spec => []AssignedTagsExist
<1>1. Init => AssignedTagsExist
  BY DEF Init, AssignedTagsExist
<1> QED
  BY <1>1, TagsNext, PTL DEF Spec
----------------------------------------------------------------------------
\* What the refinement rests on: types, with names and ids of tags and paths of rows being
\* unique, ids of rows, and no assignment without its tag.
TagsInv ==
    /\ TagsTypeOK
    /\ \A r, s \in rows : r.id = s.id => r = s
    /\ AssignedTagsExist

Stored == {p \in Paths : IsStoredPath(p)}

\* Nothing is said of the tables here but this: a tag is one of a path if it is assigned to
\* the row of that path.
LEMMA TagsForPathFacts ==
    \A p, n : n \in TagsForPath(p) <=>
        \E t \in tags, x \in filetag : t.name = n /\ x.tag = t.id /\ x.file \in FileIds(p)
BY DEF TagsForPath

LEMMA FileIdFacts ==
    ASSUME TagsInv
    PROVE  /\ \A p : \A id \in FileIds(p) : id \in Nat /\ id # 0
           /\ \A p, q : p # q => FileIds(p) \cap FileIds(q) = {}
           /\ \A p : \A i, k \in FileIds(p) : i = k
           /\ \A p : IsStoredPath(p) => FileId(p) \in FileIds(p)
           /\ \A p : ~IsStoredPath(p) => FileIds(p) = {} /\ FileId(p) = 0
<1>1. /\ \A r \in rows : r.id \in Nat /\ r.id # 0
      /\ \A r, s \in rows : r.id = s.id \/ r.path = s.path => r = s
  BY DEF TagsInv, TagsTypeOK, StoreTypeOK, Row
<1>2. \A p : \A id : id \in FileIds(p) <=> \E r \in rows : r.path = p /\ r.id = id
  BY DEF FileIds
<1>3. \A p : FileIds(p) # {} => FileId(p) \in FileIds(p)
  BY DEF FileId
<1>4. \A p : FileIds(p) = {} => FileId(p) = 0
  BY DEF FileId, Null
<1> QED
  BY <1>1, <1>2, <1>3, <1>4 DEF IsStoredPath

\* INSERT OR IGNORE adds the names that are missing, under ids nobody uses.
LEMMA InsertFacts ==
    ASSUME TagsInv, NEW names \in SUBSET Names, InsertTags(names)
    PROVE  /\ tags \subseteq tags' /\ tags' \subseteq Tag
           /\ \A t, u \in tags' : t.id = u.id \/ t.name = u.name => t = u
           /\ \A t \in tags' \ tags : t.name \in names /\ \A x \in filetag : x.tag # t.id
           /\ \A n \in names : \E t \in tags' : t.name = n
<1> DEFINE missing == {n \in names : IdsOf(tags, n) = {}}
<1>1. PICK last \in LastTagIds : \E id \in [missing -> last + 1..last + Cardinality(missing)] :
          /\ \A m, n \in missing : id[m] = id[n] => m = n
          /\ tags' = tags \cup {[id |-> id[n], name |-> n] : n \in missing}
  BY DEF InsertTags
<1>2. PICK id \in [missing -> last + 1..last + Cardinality(missing)] :
          /\ \A m, n \in missing : id[m] = id[n] => m = n
          /\ tags' = tags \cup {[id |-> id[n], name |-> n] : n \in missing}
  BY <1>1
<1>3. /\ tags \subseteq Tag /\ \A t, u \in tags : t.id = u.id \/ t.name = u.name => t = u
      /\ \A t \in tags : t.id \in Nat /\ t.id # 0 /\ t.name \in Names
  BY DEF TagsInv, TagsTypeOK, Tag
<1>4. last \in Nat /\ \A t \in tags : t.id <= last
  BY <1>3 DEF LastTagIds
<1>5. Cardinality(missing) \in Nat
  <2>1. missing \subseteq Names
    OBVIOUS
  <2> QED
    BY <2>1, TagsAssumption, FS_Subset, FS_CardinalityType
<1>6. \A n \in missing : n \in names /\ n \in Names /\ \A t \in tags : t.name # n
  BY DEF IdsOf
<1> HIDE DEF missing
<1>7. \A n \in missing : id[n] \in Nat /\ id[n] > last
  BY <1>4, <1>5
<1>8. \A n \in missing : id[n] # 0 /\ \A t \in tags : t.id # id[n]
  BY <1>3, <1>4, <1>7
<1>9. \A t \in tags' : t \in tags \/ \E n \in missing : t = [id |-> id[n], name |-> n]
  BY <1>2
<1>10. tags \subseteq tags' /\ \A n \in missing : [id |-> id[n], name |-> n] \in tags'
  BY <1>2
<1>11. tags' \subseteq Tag
  BY <1>3, <1>6, <1>7, <1>8, <1>9 DEF Tag
<1>12. ASSUME NEW t \in tags', NEW u \in tags', t.id = u.id \/ t.name = u.name
       PROVE  t = u
  <2>1. CASE t \in tags /\ u \in tags
    BY <1>3, <1>12, <2>1
  <2>2. CASE t \in tags /\ u \notin tags
    BY <1>6, <1>8, <1>9, <1>12, <2>2
  <2>3. CASE t \notin tags /\ u \in tags
    BY <1>6, <1>8, <1>9, <1>12, <2>3
  <2>4. CASE t \notin tags /\ u \notin tags
    <3>1. PICK m \in missing : t = [id |-> id[m], name |-> m]
      BY <1>9, <2>4
    <3>2. PICK n \in missing : u = [id |-> id[n], name |-> n]
      BY <1>9, <2>4
    <3>3. m = n
      BY <1>2, <1>12, <3>1, <3>2
    <3> QED
      BY <3>1, <3>2, <3>3
  <2> QED
    BY <2>1, <2>2, <2>3, <2>4
<1>13. ASSUME NEW t \in tags' \ tags
       PROVE  t.name \in names /\ \A x \in filetag : x.tag # t.id
  <2>1. PICK n \in missing : t = [id |-> id[n], name |-> n]
    BY <1>9, <1>13
  <2>2. \A x \in filetag : \E u \in tags : u.id = x.tag
    BY DEF TagsInv, AssignedTagsExist
  <2> QED
    BY <1>6, <1>8, <2>1, <2>2
<1>14. ASSUME NEW n \in names PROVE \E t \in tags' : t.name = n
  <2>1. CASE n \in missing
    BY <1>10, <2>1
  <2>2. CASE n \notin missing
    BY <1>10, <2>2 DEF missing, IdsOf
  <2> QED
    BY <2>1, <2>2
<1> QED
  BY <1>10, <1>11, <1>12, <1>13, <1>14

LEMMA AssignmentsFacts ==
    ASSUME NEW p, NEW names
    PROVE  \A x : x \in Assignments(p, names) <=>
                    \E t \in tags' : t.name \in names /\ x = [file |-> FileId(p), tag |-> t.id]
BY DEF Assignments, IdsOf

\* What each transaction does to the tags of every path.
LEMMA AddTagBooks ==
    ASSUME TagsInv, NEW t \in Names, NEW paths, AddTag(t, paths), UNCHANGED rows
    PROVE  /\ tags' \subseteq Tag /\ filetag' \subseteq FileTag
           /\ \A u, v \in tags' : u.id = v.id \/ u.name = v.name => u = v
           /\ \A p : TagsForPath(p)' = IF p \in paths /\ IsStoredPath(p)
                                       THEN TagsForPath(p) \cup {t} ELSE TagsForPath(p)
<1>1. InsertTags({t}) /\ filetag' = filetag \cup UNION {Assignments(p, {t}) : p \in paths}
  BY DEF AddTag
<1>2. /\ tags \subseteq tags' /\ tags' \subseteq Tag
      /\ \A u, v \in tags' : u.id = v.id \/ u.name = v.name => u = v
      /\ \A u \in tags' \ tags : u.name \in {t} /\ \A x \in filetag : x.tag # u.id
      /\ \E u \in tags' : u.name = t
  BY <1>1, InsertFacts
<1>3. PICK u \in tags' : u.name = t
  BY <1>2
<1>4. \A x : x \in filetag' <=>
          x \in filetag \/ \E p \in paths : x = [file |-> FileId(p), tag |-> u.id]
  BY <1>1, <1>2, <1>3, AssignmentsFacts
<1>5. filetag' \subseteq FileTag
  <2>1. filetag \subseteq FileTag /\ u.id \in Nat \ {0}
    BY <1>2, <1>3 DEF TagsInv, TagsTypeOK, Tag
  <2>2. \A p : FileId(p) \in Nat
    BY FileIdFacts
  <2> QED
    BY <1>4, <2>1, <2>2 DEF FileTag
<1>6. \A p : FileIds(p)' = FileIds(p)
  BY DEF FileIds
<1>7. \A p, n : n \in TagsForPath(p)' <=>
          \E v \in tags', x \in filetag' : v.name = n /\ x.tag = v.id /\ x.file \in FileIds(p)
  BY <1>6 DEF TagsForPath
<1>8. ASSUME NEW p, NEW n
      PROVE  n \in TagsForPath(p)' <=>
                n \in TagsForPath(p) \/ (n = t /\ p \in paths /\ IsStoredPath(p))
  <2>1. ASSUME n \in TagsForPath(p) PROVE n \in TagsForPath(p)'
    BY <1>2, <1>4, <1>7, <2>1, TagsForPathFacts
  <2>2. ASSUME n = t, p \in paths, IsStoredPath(p) PROVE n \in TagsForPath(p)'
    <3>1. [file |-> FileId(p), tag |-> u.id] \in filetag' /\ FileId(p) \in FileIds(p)
      BY <1>4, <2>2, FileIdFacts
    <3> QED
      BY <1>3, <1>7, <2>2, <3>1
  <2>3. ASSUME n \in TagsForPath(p)', n \notin TagsForPath(p)
        PROVE  n = t /\ p \in paths /\ IsStoredPath(p)
    <3>1. PICK v \in tags', x \in filetag' :
              v.name = n /\ x.tag = v.id /\ x.file \in FileIds(p)
      BY <1>7, <2>3
    <3>2. x \notin filetag
      BY <1>2, <2>3, <3>1, TagsForPathFacts
    <3>3. PICK q \in paths : x = [file |-> FileId(q), tag |-> u.id]
      BY <1>4, <3>1, <3>2
    <3>4. FileId(q) \in FileIds(p) /\ v = u
      BY <1>2, <3>1, <3>3
    <3>5. IsStoredPath(q) /\ FileId(q) \in FileIds(q)
      BY <3>4, FileIdFacts
    <3>6. p = q
      BY <3>4, <3>5, FileIdFacts
    <3> QED
      BY <1>3, <3>1, <3>4, <3>5, <3>6
  <2> QED
    BY <2>1, <2>2, <2>3
<1>9. \A p : TagsForPath(p)' = IF p \in paths /\ IsStoredPath(p)
                               THEN TagsForPath(p) \cup {t} ELSE TagsForPath(p)
  BY <1>8
<1> QED
  BY <1>2, <1>5, <1>9

LEMMA SetTagsBooks ==
    ASSUME TagsInv, NEW p, NEW names \in SUBSET Names, SetTags(p, names), UNCHANGED rows
    PROVE  /\ tags' \subseteq Tag /\ filetag' \subseteq FileTag
           /\ \A u, v \in tags' : u.id = v.id \/ u.name = v.name => u = v
           /\ TagsForPath(p)' = IF IsStoredPath(p) THEN names ELSE {}
           /\ \A q : q # p => TagsForPath(q)' = TagsForPath(q)
<1>1. /\ InsertTags(names)
      /\ filetag' = {x \in filetag : x.file \notin FileIds(p)} \cup Assignments(p, names)
  BY DEF SetTags
<1>2. /\ tags \subseteq tags' /\ tags' \subseteq Tag
      /\ \A u, v \in tags' : u.id = v.id \/ u.name = v.name => u = v
      /\ \A u \in tags' \ tags : u.name \in names /\ \A x \in filetag : x.tag # u.id
      /\ \A n \in names : \E u \in tags' : u.name = n
  BY <1>1, InsertFacts
<1>4. \A x : x \in filetag' <=>
          \/ x \in filetag /\ x.file \notin FileIds(p)
          \/ \E u \in tags' : u.name \in names /\ x = [file |-> FileId(p), tag |-> u.id]
  BY <1>1, AssignmentsFacts
<1>5. filetag' \subseteq FileTag
  <2>1. filetag \subseteq FileTag /\ \A u \in tags' : u.id \in Nat \ {0}
    BY <1>2 DEF TagsInv, TagsTypeOK, Tag
  <2>2. FileId(p) \in Nat
    BY FileIdFacts
  <2> QED
    BY <1>4, <2>1, <2>2 DEF FileTag
<1>6. \A q : FileIds(q)' = FileIds(q)
  BY DEF FileIds
<1>7. \A q, n : n \in TagsForPath(q)' <=>
          \E v \in tags', x \in filetag' : v.name = n /\ x.tag = v.id /\ x.file \in FileIds(q)
  BY <1>6 DEF TagsForPath
<1>8. ASSUME NEW n
      PROVE  n \in TagsForPath(p)' <=> n \in names /\ IsStoredPath(p)
  <2>1. ASSUME n \in TagsForPath(p)' PROVE n \in names /\ IsStoredPath(p)
    <3>1. PICK v \in tags', x \in filetag' :
              v.name = n /\ x.tag = v.id /\ x.file \in FileIds(p)
      BY <1>7, <2>1
    <3>2. PICK u \in tags' : u.name \in names /\ x = [file |-> FileId(p), tag |-> u.id]
      BY <1>4, <3>1
    <3>3. u = v
      BY <1>2, <3>1, <3>2
    <3> QED
      BY <3>1, <3>2, <3>3, FileIdFacts
  <2>2. ASSUME n \in names, IsStoredPath(p) PROVE n \in TagsForPath(p)'
    <3>1. PICK u \in tags' : u.name = n
      BY <1>2, <2>2
    <3>2. [file |-> FileId(p), tag |-> u.id] \in filetag' /\ FileId(p) \in FileIds(p)
      BY <1>4, <2>2, <3>1, FileIdFacts
    <3> QED
      BY <1>7, <3>1, <3>2
  <2> QED
    BY <2>1, <2>2
<1>9. ASSUME NEW q, q # p, NEW n
      PROVE  n \in TagsForPath(q)' <=> n \in TagsForPath(q)
  <2>1. \A x \in filetag : x.file \in FileIds(q) => x \in filetag'
    BY <1>4, <1>9, FileIdFacts
  <2>2. \A x \in filetag' : x.file \in FileIds(q) => x \in filetag
    <3> SUFFICES ASSUME NEW x \in filetag', x.file \in FileIds(q), x \notin filetag PROVE FALSE
      OBVIOUS
    <3>1. x.file = FileId(p)
      BY <1>4
    <3>2. FileId(p) \in FileIds(p)
      BY <3>1, FileIdFacts
    <3> QED
      BY <1>9, <3>1, <3>2, FileIdFacts
  <2> QED
    BY <1>2, <1>7, <2>1, <2>2, TagsForPathFacts
<1>10. TagsForPath(p)' = IF IsStoredPath(p) THEN names ELSE {}
  BY <1>8
<1>11. \A q : q # p => TagsForPath(q)' = TagsForPath(q)
  BY <1>9
<1> QED
  BY <1>2, <1>5, <1>10, <1>11

LEMMA RemovePathBooks ==
    ASSUME TagsInv, NEW t, NEW p, RemovePathForTag(t, p), UNCHANGED rows
    PROVE  /\ tags' = tags /\ filetag' \subseteq filetag
           /\ TagsForPath(p)' = TagsForPath(p) \ {t}
           /\ \A q : q # p => TagsForPath(q)' = TagsForPath(q)
<1>1. /\ tags' = tags
      /\ \A x : x \in filetag' <=>
            x \in filetag /\ ~(x.file \in FileIds(p) /\ \E u \in tags : u.name = t /\ u.id = x.tag)
  BY DEF RemovePathForTag, IdsOf
<1>2. \A q, n : n \in TagsForPath(q)' <=>
          \E v \in tags, x \in filetag' : v.name = n /\ x.tag = v.id /\ x.file \in FileIds(q)
  BY <1>1 DEF TagsForPath, FileIds
<1>3. \A u, v \in tags : u.id = v.id => u = v
  BY DEF TagsInv, TagsTypeOK
<1>4. \A n : n \in TagsForPath(p)' <=> n \in TagsForPath(p) \ {t}
  BY <1>1, <1>2, <1>3, TagsForPathFacts
<1>5. \A q, n : q # p => (n \in TagsForPath(q)' <=> n \in TagsForPath(q))
  BY <1>1, <1>2, FileIdFacts, TagsForPathFacts
<1>6. \A q : q # p => TagsForPath(q)' = TagsForPath(q)
  BY <1>5
<1> QED
  BY <1>1, <1>4, <1>6

LEMMA DeleteTagBooks ==
    ASSUME TagsInv, NEW t, DeleteTag(t), UNCHANGED rows
    PROVE  /\ tags' \subseteq tags /\ filetag' \subseteq filetag
           /\ \A p : TagsForPath(p)' = TagsForPath(p) \ {t}
<1>1. /\ \A u : u \in tags' <=> u \in tags /\ u.name # t
      /\ \A x : x \in filetag' <=> x \in filetag /\ ~\E u \in tags : u.name = t /\ u.id = x.tag
  BY DEF DeleteTag, IdsOf
<1>2. \A q, n : n \in TagsForPath(q)' <=>
          \E v \in tags', x \in filetag' : v.name = n /\ x.tag = v.id /\ x.file \in FileIds(q)
  BY DEF TagsForPath, FileIds
<1>3. \A u, v \in tags : u.id = v.id => u = v
  BY DEF TagsInv, TagsTypeOK
<1>4. \A p, n : n \in TagsForPath(p)' <=> n \in TagsForPath(p) \ {t}
  BY <1>1, <1>2, <1>3, TagsForPathFacts
<1> QED
  BY <1>1, <1>4

\* A row of one path that comes, goes or is replaced leaves the tags of the others alone.
LEMMA RowBooks ==
    ASSUME TagsInv, NEW p \in Paths, Reindex(p) \/ Unindex(p)
    PROVE  /\ TagsInv'
           /\ \A q : q # p => TagsForPath(q)' = TagsForPath(q)
                              /\ IsStoredPath(q)' = IsStoredPath(q)
           /\ ~IsStoredPath(p)' => TagsForPath(p)' = {}
           /\ UNCHANGED command
<1>1. /\ UNCHANGED <<disk, content, tags, filetag, command, commands>> /\ writes' = writes + 1
      /\ \/ rows' = {r \in rows : r.path # p}
         \/ \E id \in NextIds({r \in rows : r.path # p}) :
                rows' = {r \in rows : r.path # p} \cup
                        {[id |-> id, path |-> p, mtime |-> disk[p].mtime, type |-> "c"]}
  BY DEF Reindex, Unindex, SaveFile, InsertText, DeleteFile, Nothing
<1>2. /\ rows \subseteq Row /\ disk \in [Paths -> Stat]
      /\ \A r, s \in rows : r.id = s.id \/ r.path = s.path => r = s
  BY DEF TagsInv, TagsTypeOK, StoreTypeOK
<1>3. /\ rows' \subseteq Row
      /\ \A r, s \in rows' : r.id = s.id \/ r.path = s.path => r = s
      /\ \A r : r.path # p => (r \in rows' <=> r \in rows)
  <2>1. CASE rows' = {r \in rows : r.path # p}
    BY <1>2, <2>1
  <2>2. ASSUME NEW id \in NextIds({r \in rows : r.path # p}),
               rows' = {r \in rows : r.path # p} \cup
                       {[id |-> id, path |-> p, mtime |-> disk[p].mtime, type |-> "c"]}
        PROVE  /\ rows' \subseteq Row
               /\ \A r, s \in rows' : r.id = s.id \/ r.path = s.path => r = s
               /\ \A r : r.path # p => (r \in rows' <=> r \in rows)
    <3> DEFINE new == [id |-> id, path |-> p, mtime |-> disk[p].mtime, type |-> "c"]
    <3>1. \A r \in rows : r.id \in Nat /\ r.id # 0
      BY <1>2 DEF Row
    <3>2. id \in Nat /\ id # 0 /\ \A r \in rows : r.path # p => r.id < id
      BY <3>1 DEF NextIds
    <3>3. new \in Row /\ new.path = p /\ new.id = id
      <4>1. disk[p].mtime \in Times
        BY <1>2 DEF Stat
      <4> QED
        BY <3>2, <4>1 DEF Row
    <3> HIDE DEF new
    <3>4. \A r : r \in rows' <=> (r \in rows /\ r.path # p) \/ r = new
      BY <2>2 DEF new
    <3>5. \A r \in rows : r.path # p => r.id # id
      BY <3>1, <3>2
    <3>6. \A r \in rows' : r \in Row
      BY <1>2, <3>3, <3>4
    <3>7. \A r, s \in rows' : r.id = s.id \/ r.path = s.path => r = s
      BY <1>2, <3>3, <3>4, <3>5
    <3> QED
      BY <3>3, <3>4, <3>6, <3>7
  <2> QED
    BY <1>1, <2>1, <2>2
<1>4. \A q : q # p => FileIds(q)' = FileIds(q)
  <2>1. ASSUME NEW q, q # p PROVE \A id : id \in FileIds(q)' <=> id \in FileIds(q)
    BY <1>3, <2>1 DEF FileIds
  <2> QED
    BY <2>1
<1>5. \A q : q # p => TagsForPath(q)' = TagsForPath(q) /\ IsStoredPath(q)' = IsStoredPath(q)
  BY <1>1, <1>4 DEF TagsForPath, IsStoredPath
<1>6. ~IsStoredPath(p)' => TagsForPath(p)' = {}
  BY DEF TagsForPath, IsStoredPath
<1>7. TagsTypeOK'
  <2>1. StoreTypeOK'
    BY <1>1, <1>3 DEF TagsInv, TagsTypeOK, StoreTypeOK
  <2> QED
    BY <1>1, <2>1 DEF TagsInv, TagsTypeOK
<1>8. TagsInv'
  BY <1>1, <1>3, <1>7 DEF TagsInv, AssignedTagsExist
<1> QED
  BY <1>1, <1>5, <1>6, <1>8

LEMMA TagsInit == Init => TagsInv
<1> SUFFICES ASSUME Init PROVE TagsInv
  OBVIOUS
<1>1. /\ \A r \in rows : \E i \in DOMAIN Indexed :
            r = [id |-> i, path |-> Indexed[i], mtime |-> 1, type |-> "c"]
      /\ Indexed \in Seq(Paths) /\ DOMAIN Indexed = 1..Len(Indexed) /\ Len(Indexed) \in Nat
      /\ \A i, k \in DOMAIN Indexed : Indexed[i] = Indexed[k] => i = k
  BY SessionsAssumption DEF Init
<1>2. 1 \in Times
  BY StoreAssumption DEF Times
<1>3. rows \subseteq Row
  <2>1. \A i \in DOMAIN Indexed : i \in Nat \ {0} /\ Indexed[i] \in Paths
    BY <1>1
  <2> QED
    BY <1>1, <1>2, <2>1 DEF Row
<1>4. \A r, s \in rows : r.id = s.id \/ r.path = s.path => r = s
  <2> SUFFICES ASSUME NEW r \in rows, NEW s \in rows, r.id = s.id \/ r.path = s.path PROVE r = s
    OBVIOUS
  <2>1. PICK i \in DOMAIN Indexed : r = [id |-> i, path |-> Indexed[i], mtime |-> 1, type |-> "c"]
    BY <1>1
  <2>2. PICK k \in DOMAIN Indexed : s = [id |-> k, path |-> Indexed[k], mtime |-> 1, type |-> "c"]
    BY <1>1
  <2>3. i = k
    BY <1>1, <2>1, <2>2
  <2> QED
    BY <2>1, <2>2, <2>3
<1>5. StoreTypeOK
  <2>1. disk \in [Paths -> Stat] /\ content = {}
    <3>1. 1 \in Nths
      BY StoreAssumption DEF Nths
    <3> QED
      BY <1>2, <3>1 DEF Init, Stat
  <2> QED
    BY <1>3, <1>4, <2>1 DEF StoreTypeOK
<1>6. /\ tags = {} /\ filetag = {} /\ commands = 0 /\ writes = 0
      /\ command = [p \in Clients |-> IdleClient]
  BY SessionsAssumption DEF Init
<1> QED
  BY <1>4, <1>5, <1>6 DEF TagsInv, TagsTypeOK, AssignedTagsExist

\* Commands: how they begin and what they are.
LEMMA CommandFacts ==
    ASSUME TagsInv, NEW c \in Clients
    PROVE  /\ command[c].what = "nothing" <=> command[c] = IdleClient
           /\ command[c].what \in {"add", "remove"} =>
                command[c].tag \in Names /\ command[c].paths \in SUBSET Paths
           /\ command[c].what = "set" =>
                command[c].path \in Paths /\ command[c].names \in SUBSET Names
BY DEF TagsInv, TagsTypeOK, Command, IdleClient

LEMMA EndKeepsType ==
    ASSUME TagsInv, NEW c \in Clients, NEW task \in Command \cup {IdleClient},
           command' = [command EXCEPT ![c] = task]
    PROVE  command' \in [Clients -> Command \cup {IdleClient}]
BY DEF TagsInv, TagsTypeOK

LEMMA TagsInvKept ==
    ASSUME TagsInv, UNCHANGED storeVars, writes' \in Nat, commands' \in Nat,
           command' \in [Clients -> Command \cup {IdleClient}],
           tags' \subseteq Tag, filetag' \subseteq FileTag,
           \A t, u \in tags' : t.id = u.id \/ t.name = u.name => t = u,
           AssignedTagsExist'
    PROVE  TagsInv'
BY DEF TagsInv, TagsTypeOK, StoreTypeOK, storeVars

LEMMA BeginBooks ==
    ASSUME TagsInv, NEW c \in Clients, StartTagging(c) \/ ClickTags(c), UNCHANGED storeVars
    PROVE  TagsInv' /\ Book!Begin(c)
<1>1. /\ UNCHANGED <<rows, tags, filetag, writes>> /\ commands' = commands + 1
      /\ command[c] = IdleClient
  BY DEF StartTagging, ClickTags, Start, storeVars
<1>2. \/ \E what \in {"add", "remove"}, t \in Names, paths \in SUBSET Paths :
            /\ \A p \in paths : IsStoredPath(p)
            /\ command' = [command EXCEPT ![c] = [what |-> what, tag |-> t, paths |-> paths]]
      \/ \E p \in Paths, names \in SUBSET Names :
            command' = [command EXCEPT ![c] =
                [what |-> "set", path |-> p, read |-> TagsForPath(p), names |-> names]]
  <2>1. CASE StartTagging(c)
    BY <2>1 DEF StartTagging, Start
  <2>2. CASE ClickTags(c)
    <3>1. PICK p \in Paths :
            \E after \in {TagsForPath(p) \cup names : names \in SUBSET Names \ {{}}}
                           \cup {TagsForPath(p) \ {n} : n \in Names} :
                command' = [command EXCEPT ![c] =
                    [what |-> "set", path |-> p, read |-> TagsForPath(p), names |-> after]]
      BY <2>2 DEF ClickTags, Start
    <3>2. TagsForPath(p) \subseteq Names
      BY DEF TagsInv, TagsTypeOK, Tag, TagsForPath
    <3> QED
      BY <3>1, <3>2
  <2> QED
    BY <2>1, <2>2
<1>3. command' \in [Clients -> Command \cup {IdleClient}]
  <2>1. ASSUME NEW what \in {"add", "remove"}, NEW t \in Names, NEW paths \in SUBSET Paths
        PROVE  [what |-> what, tag |-> t, paths |-> paths] \in Command
    BY DEF Command
  <2>2. ASSUME NEW p \in Paths, NEW names \in SUBSET Names
        PROVE  [what |-> "set", path |-> p, read |-> TagsForPath(p), names |-> names] \in Command
    <3>1. TagsForPath(p) \subseteq Names
      BY DEF TagsInv, TagsTypeOK, Tag, TagsForPath
    <3> QED
      BY <3>1 DEF Command
  <2> QED
    BY <1>2, <2>1, <2>2, EndKeepsType
<1>4. TagsInv'
  BY <1>1, <1>3, TagsInvKept DEF TagsInv, TagsTypeOK, AssignedTagsExist
<1>5. UNCHANGED <<[p \in Paths |-> TagsForPath(p)], {p \in Paths : IsStoredPath(p)}>>
  BY <1>1 DEF TagsForPath, IsStoredPath, FileIds
<1>6. Book!Begin(c)
  BY <1>1, <1>2, <1>5 DEF Book!Begin, Book!Become, Book!Idle, IdleClient
<1> QED
  BY <1>4, <1>6

LEMMA AddBooks ==
    ASSUME TagsInv, NEW c \in Clients, AddPathsToTag(c), UNCHANGED <<storeVars, writes>>
    PROVE  TagsInv' /\ Book!AddTag(c)
<1> DEFINE t == command[c].tag
           paths == command[c].paths
<1>1. /\ command[c].what = "add" /\ t \in Names /\ AddTag(t, paths) /\ UNCHANGED rows
      /\ command' = [command EXCEPT ![c] = IdleClient] /\ UNCHANGED commands
  BY CommandFacts DEF AddPathsToTag, End, storeVars
<1>2. /\ tags' \subseteq Tag /\ filetag' \subseteq FileTag
      /\ \A u, v \in tags' : u.id = v.id \/ u.name = v.name => u = v
      /\ \A p : TagsForPath(p)' = IF p \in paths /\ IsStoredPath(p)
                                  THEN TagsForPath(p) \cup {t} ELSE TagsForPath(p)
  BY <1>1, AddTagBooks
<1>3. AssignedTagsExist'
  BY <1>1, AddTagKeeps DEF TagsInv
<1>4. TagsInv'
  BY <1>1, <1>2, <1>3, EndKeepsType, TagsInvKept DEF TagsInv, TagsTypeOK
<1>5. UNCHANGED {p \in Paths : IsStoredPath(p)}
  BY <1>1 DEF IsStoredPath, FileIds
<1>6. Book!AddTag(c)
  BY <1>1, <1>2, <1>5 DEF Book!AddTag, Book!Become, Book!Idle, IdleClient
<1> QED
  BY <1>4, <1>6

LEMMA RemoveBooks ==
    ASSUME TagsInv, NEW c \in Clients, RemovePaths(c), UNCHANGED <<storeVars, writes>>
    PROVE  TagsInv' /\ Book!RemoveTag(c)
<1>1. PICK p \in command[c].paths :
        /\ RemovePathForTag(command[c].tag, p)
        /\ UNCHANGED commands
        /\ \/ command' = [command EXCEPT ![c] = IdleClient]
           \/ command' = [command EXCEPT ![c].paths = @ \ {p}]
  BY DEF RemovePaths, End
<1>2. /\ command[c].what = "remove" /\ UNCHANGED rows
      /\ command[c].tag \in Names /\ command[c].paths \in SUBSET Paths
  BY CommandFacts DEF RemovePaths, storeVars
<1>3. /\ tags' = tags /\ filetag' \subseteq filetag
      /\ TagsForPath(p)' = TagsForPath(p) \ {command[c].tag}
      /\ \A q : q # p => TagsForPath(q)' = TagsForPath(q)
  BY <1>1, <1>2, RemovePathBooks
<1>4. AssignedTagsExist'
  BY <1>1, RemovePathKeeps DEF TagsInv
<1>5. command' \in [Clients -> Command \cup {IdleClient}]
  <2>1. command \in [Clients -> Command \cup {IdleClient}] /\ command[c] \in Command
    BY <1>2 DEF TagsInv, TagsTypeOK, IdleClient
  <2>2. [command[c] EXCEPT !.paths = @ \ {p}] \in Command
    BY <1>2, <2>1 DEF Command
  <2>3. [command EXCEPT ![c].paths = @ \ {p}] = [command EXCEPT ![c] = [command[c] EXCEPT !.paths = @ \ {p}]]
    BY <2>1
  <2> QED
    BY <1>1, <2>1, <2>2, <2>3, EndKeepsType
<1>6. TagsInv'
  BY <1>1, <1>3, <1>4, <1>5, TagsInvKept DEF TagsInv, TagsTypeOK
<1>7. UNCHANGED {q \in Paths : IsStoredPath(q)}
  BY <1>2 DEF IsStoredPath, FileIds
<1>8. [q \in Paths |-> TagsForPath(q)]' =
          [[q \in Paths |-> TagsForPath(q)] EXCEPT ![p] = @ \ {command[c].tag}]
  BY <1>2, <1>3
<1>9. \/ command' = [command EXCEPT ![c] = Book!Idle]
      \/ command' = [command EXCEPT ![c] = [command[c] EXCEPT !.paths = @ \ {p}]]
  BY <1>1 DEF TagsInv, TagsTypeOK, Book!Idle, IdleClient
<1>10. Book!RemoveTag(c)
  BY <1>2, <1>7, <1>8, <1>9 DEF Book!RemoveTag, Book!Become
<1> QED
  BY <1>6, <1>10

LEMMA WriteBooks ==
    ASSUME TagsInv, NEW c \in Clients, WriteTags(c), UNCHANGED <<storeVars, writes>>
    PROVE  TagsInv' /\ Book!SetTags(c)
<1>0. PICK p \in Paths, names \in SUBSET Names : p = command[c].path /\ names = command[c].names
  BY CommandFacts DEF WriteTags
<1>1. /\ command[c].what = "set" /\ SetTags(p, names) /\ UNCHANGED rows
      /\ command' = [command EXCEPT ![c] = IdleClient] /\ UNCHANGED commands
  BY <1>0 DEF WriteTags, End, storeVars
<1>2. /\ tags' \subseteq Tag /\ filetag' \subseteq FileTag
      /\ \A u, v \in tags' : u.id = v.id \/ u.name = v.name => u = v
      /\ TagsForPath(p)' = IF IsStoredPath(p) THEN names ELSE {}
      /\ \A q : q # p => TagsForPath(q)' = TagsForPath(q)
  BY <1>1, SetTagsBooks
<1>3. AssignedTagsExist'
  BY <1>1, SetTagsKeeps DEF TagsInv
<1>4. TagsInv'
  BY <1>1, <1>2, <1>3, EndKeepsType, TagsInvKept DEF TagsInv, TagsTypeOK
<1>5. UNCHANGED {q \in Paths : IsStoredPath(q)}
  BY <1>1 DEF IsStoredPath, FileIds
<1>6. [q \in Paths |-> TagsForPath(q)]' =
          [[q \in Paths |-> TagsForPath(q)] EXCEPT
              ![p] = IF p \in {q \in Paths : IsStoredPath(q)} THEN names ELSE {}]
  BY <1>1, <1>2
<1>7. Book!SetTags(c)
  BY <1>0, <1>1, <1>5, <1>6 DEF Book!SetTags, Book!Become, Book!Idle, IdleClient
<1> QED
  BY <1>4, <1>7

LEMMA DropBooks ==
    ASSUME TagsInv, NEW c \in Clients, DeleteTagCommand(c), UNCHANGED storeVars
    PROVE  TagsInv' /\ Book!DropTag
<1>1. PICK t \in Names : DeleteTag(t)
  BY DEF DeleteTagCommand
<1>2. /\ UNCHANGED <<rows, writes>> /\ commands' = commands + 1 /\ command[c] = IdleClient
      /\ command' = [command EXCEPT ![c] = IdleClient]
  BY DEF DeleteTagCommand, Start, storeVars
<1>3. /\ tags' \subseteq tags /\ filetag' \subseteq filetag
      /\ \A p : TagsForPath(p)' = TagsForPath(p) \ {t}
  BY <1>1, <1>2, DeleteTagBooks
<1>4. AssignedTagsExist'
  BY <1>1, DeleteTagKeeps DEF TagsInv
<1>5. TagsInv'
  BY <1>2, <1>3, <1>4, EndKeepsType, TagsInvKept DEF TagsInv, TagsTypeOK
<1>6. UNCHANGED {p \in Paths : IsStoredPath(p)}
  BY <1>2 DEF IsStoredPath, FileIds
<1>7. UNCHANGED command
  BY <1>2 DEF TagsInv, TagsTypeOK
<1>8. Book!DropTag
  BY <1>3, <1>6, <1>7 DEF Book!DropTag
<1> QED
  BY <1>5, <1>8

\* A command that fails or whose process is killed.
LEMMA AbandonBooks ==
    ASSUME TagsInv, NEW c \in Clients, command' = [command EXCEPT ![c] = IdleClient],
           UNCHANGED <<storeVars, tags, filetag, commands, writes>>
    PROVE  TagsInv' /\ Book!Abandon(c)
<1>1. TagsInv'
  BY EndKeepsType, TagsInvKept DEF TagsInv, TagsTypeOK, AssignedTagsExist
<1>2. UNCHANGED <<[p \in Paths |-> TagsForPath(p)], {p \in Paths : IsStoredPath(p)}>>
  BY DEF TagsForPath, IsStoredPath, FileIds, storeVars
<1>3. Book!Abandon(c)
  BY <1>2 DEF Book!Abandon, Book!Become, Book!Idle, IdleClient
<1> QED
  BY <1>1, <1>3

LEMMA FileBooks ==
    ASSUME TagsInv, NEW p \in Paths, Reindex(p) \/ Unindex(p)
    PROVE  TagsInv' /\ Book!FileChanges(p)
<1>1. /\ TagsInv' /\ UNCHANGED command
      /\ \A q : q # p => TagsForPath(q)' = TagsForPath(q) /\ IsStoredPath(q)' = IsStoredPath(q)
      /\ ~IsStoredPath(p)' => TagsForPath(p)' = {}
  BY RowBooks
<1>2. TagsForPath(p)' \in SUBSET Names
  BY <1>1 DEF TagsInv, TagsTypeOK, Tag, TagsForPath
<1>3. [q \in Paths |-> TagsForPath(q)]' =
          [[q \in Paths |-> TagsForPath(q)] EXCEPT ![p] = TagsForPath(p)']
  BY <1>1
<1>4. CASE IsStoredPath(p)'
  <2>1. {q \in Paths : IsStoredPath(q)}' = {q \in Paths : IsStoredPath(q)} \cup {p}
    BY <1>1, <1>4
  <2> QED
    BY <1>1, <1>2, <1>3, <2>1 DEF Book!FileChanges
<1>5. CASE ~IsStoredPath(p)'
  <2>1. {q \in Paths : IsStoredPath(q)}' = {q \in Paths : IsStoredPath(q)} \ {p}
    BY <1>1, <1>5
  <2> QED
    BY <1>1, <1>3, <1>5, <2>1 DEF Book!FileChanges
<1> QED
  BY <1>4, <1>5

LEMMA BookStutter ==
    ASSUME TagsInv, UNCHANGED <<storeVars, tagVars>>
    PROVE  TagsInv' /\ UNCHANGED Book!bookVars
<1>1. UNCHANGED <<disk, rows, content, tags, filetag, command, commands, writes>>
  BY DEF storeVars, tagVars
<1>2. UNCHANGED <<[p \in Paths |-> TagsForPath(p)], {p \in Paths : IsStoredPath(p)}>>
  BY <1>1 DEF TagsForPath, IsStoredPath, FileIds
<1>3. TagsInv'
  BY <1>1 DEF TagsInv, TagsTypeOK, StoreTypeOK, AssignedTagsExist
<1> QED
  BY <1>1, <1>2, <1>3 DEF Book!bookVars

LEMMA BookNext == TagsInv /\ [Next]_vars => TagsInv' /\ [Book!Next]_(Book!bookVars)
<1> SUFFICES ASSUME TagsInv, [Next]_vars PROVE TagsInv' /\ [Book!Next]_(Book!bookVars)
  OBVIOUS
<1>0. Processes = Clients
  BY SessionsAssumption
<1>1. ASSUME NEW c \in Processes, CliCommand(c)
      PROVE  TagsInv' /\ [Book!Next]_(Book!bookVars)
  BY <1>0, <1>1, BeginBooks, DropBooks DEF CliCommand, Book!Next
<1>2. ASSUME NEW c \in Processes, GuiClick(c)
      PROVE  TagsInv' /\ [Book!Next]_(Book!bookVars)
  BY <1>0, <1>2, BeginBooks DEF GuiClick, Book!Next
<1>3. ASSUME NEW c \in Processes, Tagging(c)
      PROVE  TagsInv' /\ [Book!Next]_(Book!bookVars)
  <2>1. UNCHANGED <<storeVars, writes>>
    BY <1>3 DEF Tagging, TagStep
  <2>2. CASE TaggingFails(c)
    BY <1>0, <2>1, <2>2, AbandonBooks DEF TaggingFails, End, Book!Next
  <2>3. AddPathsToTag(c) \/ RemovePaths(c) \/ WriteTags(c) \/ TaggingFails(c)
    BY <1>3 DEF Tagging, TagStep
  <2> QED
    BY <1>0, <2>1, <2>2, <2>3, AddBooks, RemoveBooks, WriteBooks DEF Book!Next
<1>4. ASSUME NEW c \in Processes, Killed(c)
      PROVE  TagsInv' /\ [Book!Next]_(Book!bookVars)
  BY <1>0, <1>4, AbandonBooks DEF Killed, Book!Next
<1>5. CASE Indexing
  BY <1>5, FileBooks DEF Indexing, Book!Next
<1>6. CASE UNCHANGED <<storeVars, tagVars>>
  BY <1>6, BookStutter
<1>7. \/ UNCHANGED <<storeVars, tagVars>>
      \/ \E c \in Processes : CliCommand(c) \/ GuiClick(c) \/ Tagging(c) \/ Killed(c)
      \/ Indexing
  BY DEF Next, vars, Launch, Startup, UserAnswers, Quit, TaggingUntouched
<1> QED
  BY <1>1, <1>2, <1>3, <1>4, <1>5, <1>6, <1>7

THEOREM TagsInvCorrect == Spec => []TagsInv
BY TagsInit, BookNext, PTL DEF Spec

\* Every variable keeps its type, names and ids of tags and paths of rows stay unique.
THEOREM TypeCorrect == Spec => []TypeOK
<1>1. MigrationsInv /\ TagsInv => TypeOK
  BY DEF MigrationsInv, TagsInv, TypeOK
<1> QED
  BY <1>1, MigrationsCorrect, TagsInvCorrect, PTL

\* The tables tag, filetag and file implement sets of tags, for any number of clients,
\* commands, names and files: every transaction changes the tags of the files and with the
\* name it is given and no other (SqliteDbService::setTags, addTag, removePathsForTag,
\* deleteTag; CommandTag; TagManager).
THEOREM BookKeptCorrect == Spec => BookKept
<1>1. Init => Book!Init
  <2> SUFFICES ASSUME Init PROVE Book!Init
    OBVIOUS
  <2>1. command = [c \in Clients |-> IdleClient]
    BY SessionsAssumption DEF Init
  <2>2. \A p : TagsForPath(p) = {}
    BY DEF Init, TagsForPath
  <2> QED
    BY <2>1, <2>2 DEF Book!Init, Book!Idle, IdleClient
<1> QED
  BY <1>1, TagsInvCorrect, BookNext, PTL DEF Spec, BookKept, Book!Spec
=============================================================================
