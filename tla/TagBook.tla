------------------------------ MODULE TagBook ------------------------------
(***************************************************************************)
(* What tagging promises, without tables and ids: a file has a set of      *)
(* tags, which only a command that names the file or the tag changes, and  *)
(* all at once.  What a file has when it comes, goes or is written anew is *)
(* left open.                                                              *)
(***************************************************************************)
CONSTANTS Paths, Names, Clients

VARIABLES
    book,             \* the tags of each path
    listed,           \* the paths that are indexed
    command           \* what each client is doing

bookVars == <<book, listed, command>>

Idle == [what |-> "nothing"]
Become(c, task) == command' = [command EXCEPT ![c] = task]

Init ==
    /\ book = [p \in Paths |-> {}]
    /\ listed \subseteq Paths
    /\ command = [c \in Clients |-> Idle]

Begin(c) ==
    /\ command[c] = Idle
    /\ \/ \E what \in {"add", "remove"}, t \in Names, paths \in SUBSET listed :
             Become(c, [what |-> what, tag |-> t, paths |-> paths])
       \/ \E p \in Paths, names \in SUBSET Names :
             Become(c, [what |-> "set", path |-> p, read |-> book[p], names |-> names])
    /\ UNCHANGED <<book, listed>>

\* All files at once, but those that are no longer indexed.
AddTag(c) ==
    /\ command[c].what = "add"
    /\ book' = [p \in Paths |-> IF p \in command[c].paths \cap listed
                                THEN book[p] \cup {command[c].tag} ELSE book[p]]
    /\ Become(c, Idle)
    /\ UNCHANGED listed

\* File by file, and no other.
RemoveTag(c) ==
    /\ command[c].what = "remove"
    /\ \E p \in command[c].paths :
        /\ book' = [book EXCEPT ![p] = @ \ {command[c].tag}]
        /\ \/ Become(c, Idle)
           \/ Become(c, [command[c] EXCEPT !.paths = @ \ {p}])
    /\ UNCHANGED listed

\* Whatever tags the file has by now.
SetTags(c) ==
    /\ command[c].what = "set"
    /\ LET p == command[c].path IN
        book' = [book EXCEPT ![p] = IF p \in listed THEN command[c].names ELSE {}]
    /\ Become(c, Idle)
    /\ UNCHANGED listed

DropTag ==
    /\ \E t \in Names : book' = [p \in Paths |-> book[p] \ {t}]
    /\ UNCHANGED <<listed, command>>

\* A command fails or its process is killed.
Abandon(c) == Become(c, Idle) /\ UNCHANGED <<book, listed>>

FileChanges(p) ==
    /\ \/ listed' = listed \cup {p} /\ \E names \in SUBSET Names : book' = [book EXCEPT ![p] = names]
       \/ listed' = listed \ {p} /\ book' = [book EXCEPT ![p] = {}]
    /\ UNCHANGED command

Next ==
    \/ \E c \in Clients : Begin(c) \/ AddTag(c) \/ RemoveTag(c) \/ SetTags(c) \/ Abandon(c)
    \/ DropTag
    \/ \E p \in Paths : FileChanges(p)

Spec == Init /\ [][Next]_bookVars
=============================================================================
