------------------------------ MODULE Previews ------------------------------
(***************************************************************************)
(* Previews: the window, the client's thread and the sandboxed server.     *)
(***************************************************************************)
EXTENDS PreviewWindow

vars == <<serverVars, clientVars, windowVars>>

\* As launched: no search yet, the server about to listen.
Init ==
    /\ server = "starting"
    /\ link = "down"
    /\ asked = NoRequest
    /\ generating = {}
    /\ wire = <<>>
    /\ requests = <<>>
    /\ clientPc = "idle"
    /\ processed = 0
    /\ clientGeneration = 1
    /\ events = <<>>
    /\ failed = FALSE
    /\ results = <<>>
    /\ file = ""
    /\ pageNumber = 1
    /\ maximum = 1
    /\ active = FALSE
    /\ searching = FALSE
    /\ searchEnabled = TRUE
    /\ pagingEnabled = TRUE
    /\ generation = 1
    /\ targets = <<>>
    /\ previewResults = <<>>
    /\ layout = FALSE
    /\ shown = <<>>
    /\ crashed = FALSE
    /\ clicks = 0
    /\ told = FALSE
    /\ wanted = 0

Server == ServerStep /\ UNCHANGED <<clientVars, windowVars>>
Death == Die /\ UNCHANGED <<clientVars, windowVars>>
Client == ClientStep /\ UNCHANGED windowVars
Window ==
    /\ EventStep
    /\ UNCHANGED <<serverVars, clientPc, processed, clientGeneration, failed>>
User ==
    /\ UserStep
    /\ UNCHANGED <<serverVars, clientPc, processed, clientGeneration, failed>>

Next ==
    \/ Server
    \/ Death
    \/ Client
    \/ Window
    \/ User

Spec == Init /\ [][Next]_vars

\* Threads and processes that are alive go on; the user need not do anything.
Fairness == WF_vars(Server) /\ WF_vars(Client) /\ WF_vars(Window)
FairSpec == Spec /\ Fairness
----------------------------------------------------------------------------
Call == Request
Event ==
    [what : {"received"}, preview : Preview, generation : Nat]
      \cup [what : {"ready", "finished", "error", "combo"}]

TypeOK ==
    /\ ServerTypeOK
    /\ requests \in Seq(Call)
    /\ clientPc \in {"idle", "count", "read"}
    /\ processed \in Nat
    /\ clientGeneration \in Nat
    /\ events \in Seq(Event)
    /\ failed \in BOOLEAN
    /\ results \in Seq(Target)
    /\ file \in Files \cup {"", "all"}
    /\ pageNumber \in Nat
    /\ maximum \in Nat
    /\ active \in BOOLEAN
    /\ searching \in BOOLEAN
    /\ searchEnabled \in BOOLEAN
    /\ pagingEnabled \in BOOLEAN
    /\ generation \in Nat
    /\ targets \in Seq(Target)
    /\ \A i \in DOMAIN previewResults : i \in DOMAIN targets /\ previewResults[i] \in Preview
    /\ layout \in BOOLEAN
    /\ shown \in Seq(Preview)
    /\ crashed \in BOOLEAN
    /\ clicks \in Nat
    /\ told \in BOOLEAN
    /\ wanted \in Nat

\* Whatever generations overlap, fail or are given up, a preview on the screen was
\* rendered as the last click asked, for a target of the page that is being shown
\* (previewcoordinator.cpp:67, 81-98).
ShownIsCurrent ==
    \A i \in DOMAIN shown :
        /\ shown[i].config = wanted
        /\ \E k \in DOMAIN targets : targets[k] = shown[i].target

\* The screen belongs to the last request: previews of it appear one by one and stay until
\* the next request or search wipes them all (mainwindow.cpp:661-719, 832-904, 913-997,
\* previewcoordinator.cpp:65-98).
Display == INSTANCE Screen WITH number <- wanted, page <- targets, screen <- shown
ScreenKept == Display!Spec

\* A preview is kept at the rank of a target that its path and page number tell from
\* no other (previewcoordinator.cpp:75, 94).
KeptAtRank ==
    \A i \in DOMAIN previewResults :
        KeyOf[previewResults[i].target] = KeyOf[targets[i]]

Quiet == events = <<>> /\ requests = <<>> /\ clientPc = "idle" /\ ~searching

\* Targets of the page that have the path and page number of the ith, written one after
\* the other: the ith at least.
Sharing(i) == {t \in Target : KeyOf[t] = KeyOf[targets[i]] /\ \E k \in DOMAIN targets : targets[k] = t}

\* Once everything has come to rest, the coordinator has, for each target of the page that
\* can be rendered, its preview as the last click asked for it; or, if other targets of the
\* page share its key, one preview of any of these (previewcoordinator.cpp:65-98).  No
\* request was given up before, and the server lives (ipcpreviewclient.cpp:100-118).  What
\* of it comes to the screen is not said: previewReceived leaves out the last.
CompleteAtRest ==
    Quiet /\ ~failed /\ server = "up" =>
        \A i \in DOMAIN targets :
            targets[i] \in Unrenderable
              \/ \E k \in DOMAIN previewResults :
                    /\ previewResults[k].config = wanted
                    /\ previewResults[k].target \in Sharing(i)

\* The controls that a new generation disables come back, or the user is told of an
\* error, even if the server dies; unless the program crashes, as it does when a preview
\* is ready and a search has just deleted the layout (mainwindow.cpp:213-226, 661-666, 834,
\* 992-994).
EventuallyAnswered == ~pagingEnabled ~> (pagingEnabled \/ told \/ crashed)
=============================================================================
