----------------------------- MODULE MCPreviews -----------------------------
(***************************************************************************)
(* Four targets, two of which have the same key: page 12 of a and page 2   *)
(* of a1 are both "a12".  Page 13 of a cannot be rendered.                 *)
(***************************************************************************)
EXTENDS Previews

A12 == [path |-> "a", page |-> 12]
A1p2 == [path |-> "a1", page |-> 2]
A13 == [path |-> "a", page |-> 13]
A3 == [path |-> "a", page |-> 3]

AllTargets == {A12, A1p2, A13, A3}
Keys == [t \in AllTargets |-> CASE t = A13 -> "a13" [] t = A3 -> "a3" [] OTHER -> "a12"]
TwoLists == {<<A12, A1p2, A13>>, <<A3, A12>>}
Blank == {A13}
=============================================================================
