----------------------------- MODULE MCSessions -----------------------------
(***************************************************************************)
(* A GUI and a command line with a database of two files.                  *)
(***************************************************************************)
EXTENDS Sessions

TwoRows == <<"p", "q">>
\* Their directory is not a path that is looked at.
Flat == [p \in Paths |-> "/"]
=============================================================================
