-------------------------------- MODULE Sums --------------------------------
(***************************************************************************)
(* The sum of a sequence of integers.  The folds of the community modules  *)
(* take the addition as an operator parameter, which puts whatever is said *)
(* with them out of reach of a proof; this sum is a recursive function.    *)
(***************************************************************************)
EXTENDS Integers, Sequences

Sum(s) ==
    LET upTo[n \in 0..Len(s)] == IF n = 0 THEN 0 ELSE upTo[n - 1] + s[n]
    IN upTo[Len(s)]

\* The elements of a sequence weighed by a function, and their weights added up.
Weigh(g, s) == Sum([i \in DOMAIN s |-> g[s[i]]])
=============================================================================
