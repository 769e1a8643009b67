------------------------------- MODULE Screen -------------------------------
(***************************************************************************)
(* What the previews tab promises, without generations, threads and        *)
(* sockets: whatever is asked, the screen is wiped and then shows previews *)
(* of the last request, of its targets and as it was configured, until it  *)
(* is wiped again.  Nothing on it is replaced or taken away.               *)
(***************************************************************************)
EXTENDS Naturals, Sequences

VARIABLES
    number,           \* requests so far
    page,             \* the targets of the last one
    screen            \* the previews, from left to right

screenVars == <<number, page, screen>>

Init ==
    /\ number = 0
    /\ page = <<>>
    /\ screen = <<>>

\* One request, or several of which only the last counts, for whatever targets.
Ask ==
    /\ number' \in Nat
    /\ number' > number
    /\ screen' = <<>>

\* Nothing to show.
Wipe ==
    /\ screen' = <<>>
    /\ UNCHANGED <<number, page>>

PreviewOf(i) == [target |-> page[i], config |-> number, hasPreview |-> TRUE]

Show ==
    /\ \E i \in DOMAIN page, k \in 0..Len(screen) :
          screen' = SubSeq(screen, 1, k) \o <<PreviewOf(i)>> \o SubSeq(screen, k + 1, Len(screen))
    /\ UNCHANGED <<number, page>>

Next == Ask \/ Wipe \/ Show

Spec == Init /\ [][Next]_screenVars
=============================================================================
