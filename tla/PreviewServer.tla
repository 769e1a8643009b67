--------------------------- MODULE PreviewServer ---------------------------
(***************************************************************************)
(* The sandboxed process that renders previews: IpcServer accepts the      *)
(* connection and answers with the number of targets, IPCPreviewWorker     *)
(* maps them on a thread pool and writes each preview when it is there.    *)
(* The socket keeps what was written in order.                             *)
(***************************************************************************)
EXTENDS Naturals, Sequences

CONSTANTS
    Target,           \* path and page of a render target
    Unrenderable,     \* targets there is no preview of: no generator, no page, no text
    MayDie            \* TRUE: the process may be killed, as a parser's bug would

ASSUME ServerAssumption ==
    /\ Unrenderable \subseteq Target
    /\ MayDie \in BOOLEAN

VARIABLES
    server,           \* the process: "starting", "up", "dead"
    link,             \* the connection: "down", "asked" (request sent), "open"
    asked,            \* renderConfig and targets of the request
    generating,       \* targets the mapped functor has not delivered, by index
    wire              \* what is written and not yet read by the client

serverVars == <<server, link, asked, generating, wire>>

\* renderConfig is as good as the call of startGeneration that it was made for.
Request == [targets : Seq(Target), config : Nat]
NoRequest == [targets |-> <<>>, config |-> 0]
\* A PreviewResult; hasPreview() tells whether it shows anything.
Preview == [target : Target, config : Nat, hasPreview : BOOLEAN]
Count == [count : Nat]

Rendered(t, config) ==
    [target |-> t, config |-> config, hasPreview |-> t \notin Unrenderable]

\* startSpawner: the server listens some time after the GUI has launched it.
Listen ==
    /\ server = "starting"
    /\ server' = "up"
    /\ UNCHANGED <<link, asked, generating, wire>>

\* spawnerNewConnection reads the request and answers with targets.count().
Accept ==
    /\ server = "up"
    /\ link = "asked"
    /\ link' = "open"
    /\ wire' = <<[count |-> Len(asked.targets)]>>
    /\ generating' = DOMAIN asked.targets
    /\ UNCHANGED <<server, asked>>

\* resultReadyAt: previews are written as the threads of QtConcurrent finish them.
Deliver ==
    /\ link = "open"
    /\ \E i \in generating :
        /\ wire' = Append(wire, Rendered(asked.targets[i], asked.config))
        /\ generating' = generating \ {i}
    /\ UNCHANGED <<server, link, asked>>

\* Slip: the socket is shut down before the last preview was written.
ShutdownEarly ==
    /\ link = "open"
    /\ link' = "down"
    /\ generating' = {}
    /\ UNCHANGED <<server, asked, wire>>

\* shutdownSocket flushes, then disconnects.
Shutdown ==
    /\ link = "open"
    /\ generating = {}
    /\ link' = "down"
    /\ UNCHANGED <<server, asked, generating, wire>>

\* The process is gone, with what the client has not received.
Die ==
    /\ MayDie
    /\ server = "up"
    /\ server' = "dead"
    /\ link' = "down"
    /\ generating' = {}
    /\ \E n \in 0..Len(wire) : wire' = SubSeq(wire, 1, n)
    /\ UNCHANGED asked

ServerStep == Listen \/ Accept \/ Deliver \/ Shutdown

ServerTypeOK ==
    /\ server \in {"starting", "up", "dead"}
    /\ link \in {"down", "asked", "open"}
    /\ asked \in Request
    /\ generating \subseteq DOMAIN asked.targets
    /\ wire \in Seq(Preview \cup Count)
=============================================================================
