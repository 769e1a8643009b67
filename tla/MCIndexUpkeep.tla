--------------------------- MODULE MCIndexUpkeep ---------------------------
(***************************************************************************)
(* Small tables for the model checker.                                     *)
(***************************************************************************)
EXTENDS IndexUpkeep, TLC

Texts(paths) == [i \in DOMAIN paths |-> [path |-> paths[i], type |-> "c"]]
ThreeRows == {Texts(<<"p", "q", "r">>)}
FourRows == {Texts(<<"q", "s", "p", "r">>)}
Flat == [p \in Paths |-> "/"]

Fresh == [kind |-> "file", mtime |-> 1, nth |-> 1]
Modified == [kind |-> "file", mtime |-> 2, nth |-> 1]
Missing == [kind |-> "missing", mtime |-> 1, nth |-> 1]
Unchanged == [Paths -> {Fresh}]
AnyAge == [Paths -> {Fresh, Modified, Missing}]

\* A file d was indexed without its content; now there is a directory d with a file p.
OneDirectory == "p" :> "d" @@ "d" :> "/"
FileInDirectory == {Texts(<<"p">>), Texts(<<"p">>) \o <<[path |-> "d", type |-> "f"]>>}
Changed == {"p" :> Modified @@ "d" :> [kind |-> "dir", mtime |-> 1, nth |-> 1]}

\* What the CLI's users call: update, update -n --delete, update --continue --delete.
SyncOptions ==
    {[dryRun |-> FALSE, keepGoing |-> FALSE, removeDeleted |-> FALSE],
     [dryRun |-> TRUE, keepGoing |-> FALSE, removeDeleted |-> TRUE],
     [dryRun |-> FALSE, keepGoing |-> TRUE, removeDeleted |-> TRUE]}
GuiOptions == {[dryRun |-> FALSE, keepGoing |-> TRUE, removeDeleted |-> TRUE]}
BothDeletes == {[dryRun |-> FALSE, onlyDeleted |-> TRUE], [dryRun |-> TRUE, onlyDeleted |-> TRUE]}
=============================================================================
