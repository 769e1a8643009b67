--------------------------- MODULE PreviewClient ---------------------------
(***************************************************************************)
(* IPCPreviewClient: a thread that serves one startGeneration after the    *)
(* other.  What it emits is queued in the event loop of the GUI.           *)
(***************************************************************************)
EXTENDS PreviewServer

VARIABLES
    requests,         \* ipcStartGeneration calls queued for the thread
    clientPc,         \* where start() stands: "idle", "count", "read"
    processed,        \* previews read of this request
    clientGeneration, \* currentPreviewGeneration of the client
    events,           \* the event loop of the GUI thread
    failed            \* history: a request was given up before its first preview

clientVars == <<requests, clientPc, processed, clientGeneration, events, failed>>

NoPreview(config) ==
    [target |-> CHOOSE t \in Target : TRUE, config |-> config, hasPreview |-> FALSE]

Received(p) == [what |-> "received", preview |-> p, generation |-> clientGeneration]
Finished == [what |-> "finished"]
Error == [what |-> "error"]

\* start() up to the request that is written, or the returns before.
StartRequest ==
    /\ clientPc = "idle"
    /\ requests # <<>>
    /\ requests' = Tail(requests)
    /\ IF Head(requests).targets # <<>> /\ server = "up"
       THEN /\ link' = "asked"
            /\ asked' = Head(requests)
            /\ wire' = <<>>
            /\ clientPc' = "count"
            /\ UNCHANGED <<events, failed>>
       ELSE /\ events' = IF Head(requests).targets = <<>> THEN events ELSE Append(events, Error)
            /\ failed' = TRUE
            /\ UNCHANGED <<clientPc, link, asked, wire>>
    /\ UNCHANGED <<processed, clientGeneration, server, generating>>

\* The first answer is the number of targets.
ReadCount ==
    /\ clientPc = "count"
    /\ wire # <<>>
    /\ Head(wire).count = Len(asked.targets)
    /\ wire' = Tail(wire)
    /\ processed' = 0
    /\ clientGeneration' = clientGeneration + 1
    /\ clientPc' = "read"
    /\ UNCHANGED <<requests, events, failed, server, link, asked, generating>>

\* numTarget is still 0 when the connection is lost: start() returns with an error.
MissCount ==
    /\ clientPc = "count"
    /\ wire = <<>>
    /\ link = "down"
    /\ events' = Append(events, Error)
    /\ clientPc' = "idle"
    /\ failed' = TRUE
    /\ UNCHANGED <<requests, processed, clientGeneration, serverVars>>

ReadPreview ==
    /\ clientPc = "read"
    /\ processed < Len(asked.targets)
    /\ wire # <<>>
    /\ events' = Append(events, Received(Head(wire)))
    /\ wire' = Tail(wire)
    /\ processed' = processed + 1
    /\ UNCHANGED <<requests, clientPc, clientGeneration, failed, server, link, asked, generating>>

\* The connection is lost: as long as the socket counts as open, what is read is nothing.
ReadNothing ==
    /\ clientPc = "read"
    /\ processed < Len(asked.targets)
    /\ wire = <<>>
    /\ link = "down"
    /\ events' = Append(events, Received(NoPreview(asked.config)))
    /\ processed' = processed + 1
    /\ UNCHANGED <<requests, clientPc, clientGeneration, failed, serverVars>>

\* The loop is over, or the lost socket is not open any more.
FinishRequest ==
    /\ clientPc = "read"
    /\ \/ /\ processed = Len(asked.targets)
          /\ events' = Append(events, Finished)
       \/ /\ processed < Len(asked.targets)
          /\ wire = <<>>
          /\ link = "down"
          /\ events' = events \o <<Error, Finished>>
    /\ clientPc' = "idle"
    /\ link' = "down"
    /\ generating' = {}
    /\ wire' = <<>>
    /\ UNCHANGED <<requests, processed, clientGeneration, failed, server, asked>>

ClientStep ==
    \/ StartRequest
    \/ ReadCount
    \/ MissCount
    \/ ReadPreview
    \/ ReadNothing
    \/ FinishRequest
=============================================================================
