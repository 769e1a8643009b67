------------------------------ MODULE IndexRun ------------------------------
(***************************************************************************)
(* What indexing promises its owner, without threads, queues or batches: a *)
(* run reports every file at most once, and it finishes only when every    *)
(* file has been reported or the run was cancelled.  A run that does not   *)
(* keep going finishes with its first error, and only then may some files  *)
(* be reported late.                                                       *)
(***************************************************************************)
CONSTANTS
    Expected,     \* the files a run is to index
    StopsOnError  \* TRUE: an error ends the run

VARIABLES phase, cancelled, reported

runVars == <<phase, cancelled, reported>>

Init ==
    /\ phase = "idle"
    /\ cancelled = FALSE
    /\ reported = {}

Begin ==
    /\ phase = "idle"
    /\ phase' = "indexing"
    /\ cancelled' = FALSE
    /\ reported' = {}

Report(p) ==
    /\ phase = "indexing"
    /\ p \in Expected \ reported
    /\ reported' = reported \cup {p}
    /\ UNCHANGED <<phase, cancelled>>

Fail(p) ==
    /\ StopsOnError
    /\ phase = "indexing"
    /\ p \in Expected \ reported
    /\ phase' = "idle"
    /\ cancelled' = TRUE
    /\ reported' = reported \cup {p}

\* Of a file that was being indexed when another one ended the run.
ReportLate(p) ==
    /\ StopsOnError
    /\ phase = "idle"
    /\ cancelled
    /\ p \in Expected \ reported
    /\ reported' = reported \cup {p}
    /\ UNCHANGED <<phase, cancelled>>

Cancel ==
    /\ phase = "indexing"
    /\ cancelled' = TRUE
    /\ UNCHANGED <<phase, reported>>

Finish ==
    /\ phase = "indexing"
    /\ cancelled \/ reported = Expected
    /\ phase' = "idle"
    /\ UNCHANGED <<cancelled, reported>>

Next ==
    \/ Begin
    \/ Cancel
    \/ Finish
    \/ \E p \in Expected : Report(p) \/ Fail(p) \/ ReportLate(p)

Safety == Init /\ [][Next]_runVars
Spec == Safety /\ WF_runVars(Finish) /\ WF_runVars(\E p \in Expected : Report(p))
=============================================================================
