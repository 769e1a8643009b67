--------------------------- MODULE PreviewsProofs ---------------------------
(***************************************************************************)
(* For any targets, results, number of clicks and failures of the server:  *)
(* what the previews tab shows was asked for last, the tab implements      *)
(* Screen, a preview is kept at the rank of its key, and no preview is     *)
(* missing at rest.                                                        *)
(***************************************************************************)
EXTENDS Previews, OrderLemmas, TLAPS

\* A sequence, of whatever.
IsSeq(s) == s \in Seq({s[i] : i \in DOMAIN s})

\* The request numbered n was asked for when the coordinator's generation became n + 1;
\* those the client has not begun are the last ones, in order.
RequestsInv ==
    /\ wanted \in Nat
    /\ generation = wanted + 1
    /\ IsSeq(requests)
    /\ Len(requests) <= wanted
    /\ \A i \in 1..Len(requests) : requests[i].config = wanted - Len(requests) + i
    /\ requests # <<>> => requests[Len(requests)].targets = targets

\* The client counts a request at most once, and no earlier than it serves it.
ClientInv ==
    /\ clientPc \in {"idle", "count", "read"}
    /\ clientGeneration \in Nat
    /\ asked.config \in Nat
    /\ asked.config + Len(requests) <= wanted
    /\ asked.config = wanted => asked.targets = targets
    /\ clientPc # "idle" => asked.config = wanted - Len(requests)
    /\ clientPc = "idle" => clientGeneration <= wanted - Len(requests) + 1
    /\ clientPc = "count" => clientGeneration <= asked.config
    /\ clientPc = "read" => clientGeneration <= asked.config + 1

\* Nothing is on the wire but what belongs to the request that is served.
LinkInv ==
    /\ link \in {"down", "asked", "open"}
    /\ generating \subseteq DOMAIN asked.targets
    /\ link # "open" => generating = {}
    /\ clientPc = "idle" => link = "down" /\ wire = <<>>
    /\ link = "asked" => clientPc = "count" /\ wire = <<>>
    /\ link = "open" /\ clientPc = "count" => wire # <<>>

IsPreview(p) ==
    /\ p = [target |-> p.target, config |-> p.config, hasPreview |-> p.hasPreview]
    /\ p.hasPreview \in BOOLEAN
    /\ p.config \in Nat

IsFrame(p) ==
    /\ IsPreview(p)
    /\ p.config = asked.config
    /\ \E k \in DOMAIN asked.targets : asked.targets[k] = p.target

\* The first answer is the count; the others are previews.
FirstFrame == IF clientPc = "count" THEN 2 ELSE 1

WireInv ==
    /\ IsSeq(wire)
    /\ \A i \in 1..Len(wire) : i >= FirstFrame => IsFrame(wire[i])

\* What a message carries, if of the last request, is of the page that is shown; its
\* generation is at most that of its request.
IsMessage(e) ==
    e.what = "received" =>
        /\ IsPreview(e.preview)
        /\ e.generation \in Nat
        /\ e.generation <= e.preview.config + 1
        /\ e.preview.config <= wanted
        /\ e.preview.config = wanted /\ e.preview.hasPreview =>
              \E k \in DOMAIN targets : targets[k] = e.preview.target

EventsInv ==
    /\ IsSeq(events)
    /\ \A i \in 1..Len(events) : IsMessage(events[i])

IsCurrent(p) ==
    /\ IsPreview(p)
    /\ p.hasPreview
    /\ p.config = wanted
    /\ \E k \in DOMAIN targets : targets[k] = p.target

ScreenInv ==
    /\ \A i \in DOMAIN previewResults : IsCurrent(previewResults[i])
    /\ IsSeq(shown)
    /\ \A i \in 1..Len(shown) : IsCurrent(shown[i])

PreviewsInv == RequestsInv /\ ClientInv /\ LinkInv /\ WireInv /\ EventsInv /\ ScreenInv
----------------------------------------------------------------------------
(* Sequences of whatever. *)
LEMMA SeqOf ==
    ASSUME NEW s, NEW S, s \in Seq(S)
    PROVE  IsSeq(s) /\ DOMAIN s = 1..Len(s) /\ Len(s) \in Nat
<1>1. DOMAIN s = 1..Len(s) /\ Len(s) \in Nat
  OBVIOUS
<1>2. s \in [1..Len(s) -> {s[i] : i \in DOMAIN s}]
  BY <1>1
<1> QED
  BY <1>1, <1>2 DEF IsSeq

LEMMA SeqLen ==
    ASSUME NEW s, IsSeq(s)
    PROVE  /\ DOMAIN s = 1..Len(s)
           /\ Len(s) \in Nat
           /\ s = <<>> <=> Len(s) = 0
<1> DEFINE S == {s[i] : i \in DOMAIN s}
<1>1. s \in Seq(S)
  BY DEF IsSeq
<1> HIDE DEF S
<1> QED
  BY <1>1

LEMMA SeqAppend ==
    ASSUME NEW s, NEW x, IsSeq(s)
    PROVE  /\ IsSeq(Append(s, x))
           /\ Len(Append(s, x)) = Len(s) + 1
           /\ \A i \in 1..Len(s) : Append(s, x)[i] = s[i]
           /\ Append(s, x)[Len(s) + 1] = x
<1> DEFINE S == {s[i] : i \in DOMAIN s} \cup {x}
<1>1. s \in Seq(S) /\ x \in S
  <2>1. s \in [1..Len(s) -> S] /\ Len(s) \in Nat
    BY SeqLen DEF IsSeq
  <2> QED
    BY <2>1
<1> HIDE DEF S
<1>2. Append(s, x) \in Seq(S)
  BY <1>1
<1>3. IsSeq(Append(s, x))
  BY <1>2, SeqOf
<1> QED
  BY <1>1, <1>3

LEMMA SeqConcat ==
    ASSUME NEW s, NEW t, IsSeq(s), IsSeq(t)
    PROVE  /\ IsSeq(s \o t)
           /\ Len(s \o t) = Len(s) + Len(t)
           /\ \A i \in 1..Len(s) : (s \o t)[i] = s[i]
           /\ \A i \in 1..Len(t) : (s \o t)[Len(s) + i] = t[i]
<1> DEFINE S == {s[i] : i \in DOMAIN s} \cup {t[i] : i \in DOMAIN t}
<1>1. s \in Seq(S) /\ t \in Seq(S)
  <2>1. s \in [1..Len(s) -> S] /\ Len(s) \in Nat /\ t \in [1..Len(t) -> S] /\ Len(t) \in Nat
    BY SeqLen DEF IsSeq
  <2> QED
    BY <2>1
<1> HIDE DEF S
<1>2. s \o t \in Seq(S)
  BY <1>1
<1>3. IsSeq(s \o t)
  BY <1>2, SeqOf
<1>4. Len(s \o t) = Len(s) + Len(t) /\ \A i \in 1..Len(s) : (s \o t)[i] = s[i]
  BY <1>1
<1>5. ASSUME NEW i \in 1..Len(t) PROVE (s \o t)[Len(s) + i] = t[i]
  <2>1. Len(s) \in Nat /\ Len(t) \in Nat
    BY <1>1
  <2> QED
    BY <1>1, <1>5, <2>1
<1> QED
  BY <1>3, <1>4, <1>5

LEMMA SeqTail ==
    ASSUME NEW s, IsSeq(s), s # <<>>
    PROVE  /\ IsSeq(Tail(s))
           /\ Len(s) >= 1
           /\ Len(Tail(s)) = Len(s) - 1
           /\ \A i \in 1..Len(s) - 1 : Tail(s)[i] = s[i + 1]
           /\ Head(s) = s[1]
<1> DEFINE S == {s[i] : i \in DOMAIN s}
<1>1. s \in Seq(S)
  BY DEF IsSeq
<1> HIDE DEF S
<1>2. Tail(s) \in Seq(S)
  BY <1>1
<1>3. IsSeq(Tail(s))
  BY <1>2, SeqOf
<1> QED
  BY <1>1, <1>3

LEMMA SeqPrefix ==
    ASSUME NEW s, NEW m \in Nat, NEW n \in Nat, IsSeq(s), m >= 1, n <= Len(s)
    PROVE  /\ IsSeq(SubSeq(s, m, n))
           /\ Len(SubSeq(s, m, n)) = IF m <= n THEN n - m + 1 ELSE 0
           /\ \A i \in 1..Len(SubSeq(s, m, n)) : SubSeq(s, m, n)[i] = s[m + i - 1]
<1> DEFINE S == {s[i] : i \in DOMAIN s}
<1>1. s \in Seq(S)
  BY DEF IsSeq
<1> HIDE DEF S
<1>2. SubSeq(s, m, n) \in Seq(S)
  BY <1>1
<1>3. IsSeq(SubSeq(s, m, n))
  BY <1>2, SeqOf
<1> QED
  BY <1>1, <1>3

LEMMA SeqTuple ==
    ASSUME NEW x, NEW y
    PROVE  IsSeq(<<>>) /\ IsSeq(<<x>>) /\ IsSeq(<<x, y>>)
<1>1. <<>> \in Seq({x, y}) /\ <<x>> \in Seq({x, y}) /\ <<x, y>> \in Seq({x, y})
  OBVIOUS
<1> QED
  BY <1>1, SeqOf
----------------------------------------------------------------------------
LEMMA InvInit == Init => PreviewsInv
<1> SUFFICES ASSUME Init PROVE PreviewsInv
  OBVIOUS
<1>1. /\ wanted = 0 /\ generation = 1 /\ clientGeneration = 1
      /\ clientPc = "idle" /\ link = "down" /\ generating = {}
      /\ requests = <<>> /\ wire = <<>> /\ events = <<>> /\ shown = <<>>
      /\ previewResults = <<>> /\ targets = <<>> /\ asked = NoRequest
  BY DEF Init
<1>2. IsSeq(<<>>)
  BY SeqTuple
<1>3. Len(<<>>) = 0
  OBVIOUS
<1>4. RequestsInv
  BY <1>1, <1>2, <1>3 DEF RequestsInv
<1>5. ClientInv
  BY <1>1, <1>3 DEF ClientInv, NoRequest
<1>6. LinkInv
  BY <1>1 DEF LinkInv
<1>7. WireInv /\ EventsInv
  BY <1>1, <1>2, <1>3 DEF WireInv, EventsInv
<1>8. ScreenInv
  BY <1>1, <1>2, <1>3 DEF ScreenInv
<1> QED
  BY <1>4, <1>5, <1>6, <1>7, <1>8 DEF PreviewsInv

\* Messages stay what they are while nothing new is asked for.
LEMMA PostMessage ==
    ASSUME EventsInv, NEW e, events' = Append(events, e), IsMessage(e),
           wanted' = wanted, targets' = targets
    PROVE  EventsInv'
<1>1. IsSeq(events') /\ Len(events') = Len(events) + 1 /\ Len(events) \in Nat
  BY SeqAppend, SeqLen DEF EventsInv
<1>2. ASSUME NEW i \in 1..Len(events') PROVE IsMessage(events'[i])
  <2>1. CASE i \in 1..Len(events)
    BY <2>1, SeqAppend DEF EventsInv
  <2>2. CASE i = Len(events) + 1
    BY <2>2, SeqAppend DEF EventsInv
  <2> QED
    BY <1>1, <2>1, <2>2
<1> QED
  BY <1>1, <1>2 DEF EventsInv, IsMessage

LEMMA TakeMessage ==
    ASSUME EventsInv, events # <<>>, events' = Tail(events),
           wanted' = wanted, targets' = targets
    PROVE  EventsInv'
<1>1. IsSeq(events') /\ Len(events') = Len(events) - 1 /\ Len(events) \in Nat
  BY SeqTail, SeqLen DEF EventsInv
<1>2. ASSUME NEW i \in 1..Len(events') PROVE IsMessage(events'[i])
  <2>1. events'[i] = events[i + 1] /\ i + 1 \in 1..Len(events)
    BY <1>1, SeqTail DEF EventsInv
  <2> QED
    BY <2>1 DEF EventsInv
<1> QED
  BY <1>1, <1>2 DEF EventsInv, IsMessage
----------------------------------------------------------------------------
(* The server. *)
LEMMA ServerSteps ==
    ASSUME PreviewsInv, ServerStep \/ Die, UNCHANGED <<clientVars, windowVars>>
    PROVE  PreviewsInv'
<1> USE DEF PreviewsInv
<1>0. /\ asked' = asked
      /\ UNCHANGED <<requests, clientPc, clientGeneration, events, wanted, generation,
                     targets, previewResults, shown>>
  BY DEF ServerStep, Listen, Accept, Deliver, Shutdown, Die, clientVars, windowVars,
         coordinatorVars, paneVars
<1>1. RequestsInv' /\ ClientInv' /\ EventsInv' /\ ScreenInv'
  BY <1>0 DEF RequestsInv, ClientInv, EventsInv, ScreenInv, IsMessage, IsCurrent
<1>2. CASE Listen
  BY <1>0, <1>1, <1>2 DEF Listen, LinkInv, WireInv, IsFrame, FirstFrame
<1>3. CASE Accept
  <2>1. LinkInv'
    BY <1>0, <1>3 DEF Accept, LinkInv
  <2>2. WireInv'
    <3>1. IsSeq(wire') /\ Len(wire') = 1
      BY <1>3, SeqTuple DEF Accept
    <3>2. FirstFrame' = 2
      BY <1>0, <1>3 DEF Accept, LinkInv, FirstFrame
    <3> QED
      BY <3>1, <3>2 DEF WireInv
  <2> QED
    BY <1>1, <2>1, <2>2
<1>4. CASE Deliver
  <2> PICK i \in generating :
         /\ wire' = Append(wire, Rendered(asked.targets[i], asked.config))
         /\ generating' = generating \ {i}
    BY <1>4 DEF Deliver
  <2> DEFINE p == Rendered(asked.targets[i], asked.config)
  <2>1. IsFrame(p)
    <3>1. /\ p.target = asked.targets[i]
          /\ p.config = asked.config
          /\ p.hasPreview = (asked.targets[i] \notin Unrenderable)
          /\ p = [target |-> p.target, config |-> p.config, hasPreview |-> p.hasPreview]
      BY DEF Rendered
    <3>2. i \in DOMAIN asked.targets /\ asked.config \in Nat
      BY DEF LinkInv, ClientInv
    <3> QED
      BY <3>1, <3>2 DEF IsFrame, IsPreview
  <2> HIDE DEF p
  <2>2. LinkInv'
    <3>1. wire' # <<>>
      BY SeqAppend, SeqLen DEF WireInv, p
    <3> QED
      BY <1>0, <1>4, <3>1 DEF Deliver, LinkInv
  <2>3. WireInv'
    <3>1. IsSeq(wire') /\ Len(wire') = Len(wire) + 1 /\ Len(wire) \in Nat
      BY SeqAppend, SeqLen DEF WireInv, p
    <3>2. ASSUME NEW k \in 1..Len(wire'), k >= FirstFrame PROVE IsFrame(wire'[k])
      <4>1. CASE k \in 1..Len(wire)
        BY <3>2, <4>1, SeqAppend DEF WireInv, p
      <4>2. CASE k = Len(wire) + 1
        BY <2>1, <4>2, SeqAppend DEF WireInv, p
      <4> QED
        BY <3>1, <4>1, <4>2
    <3> QED
      BY <1>0, <3>1, <3>2 DEF WireInv, IsFrame, FirstFrame
  <2> QED
    BY <1>1, <2>2, <2>3
<1>5. CASE Shutdown
  <2>1. LinkInv'
    BY <1>0, <1>5 DEF Shutdown, LinkInv
  <2>2. WireInv'
    BY <1>0, <1>5 DEF Shutdown, WireInv, IsFrame, FirstFrame
  <2> QED
    BY <1>1, <2>1, <2>2
<1>6. CASE Die
  <2> PICK n \in 0..Len(wire) : wire' = SubSeq(wire, 1, n)
    BY <1>6 DEF Die
  <2>0. n \in Nat /\ n <= Len(wire) /\ Len(wire) \in Nat
    BY SeqLen DEF WireInv
  <2>1. /\ IsSeq(wire')
        /\ Len(wire') = n
        /\ \A i \in 1..n : wire'[i] = wire[i]
    BY <2>0, SeqPrefix DEF WireInv
  <2>2. wire = <<>> => wire' = <<>>
    BY <2>0, <2>1, SeqLen DEF WireInv
  <2>3. LinkInv'
    BY <1>0, <1>6, <2>2 DEF Die, LinkInv
  <2>4. WireInv'
    BY <1>0, <2>0, <2>1 DEF WireInv, IsFrame, FirstFrame
  <2> QED
    BY <1>1, <2>3, <2>4
<1> QED
  BY <1>2, <1>3, <1>4, <1>5, <1>6 DEF ServerStep
----------------------------------------------------------------------------
(* The client. *)
LEMMA Unchanged ==
    ASSUME UNCHANGED windowVars
    PROVE  UNCHANGED <<wanted, generation, targets, previewResults, shown>>
BY DEF windowVars, coordinatorVars, paneVars

LEMMA ScreenStays ==
    ASSUME ScreenInv, UNCHANGED <<wanted, targets, previewResults, shown>>
    PROVE  ScreenInv'
BY DEF ScreenInv, IsCurrent

LEMMA MessagesStay ==
    ASSUME EventsInv, UNCHANGED <<wanted, targets, events>>
    PROVE  EventsInv'
BY DEF EventsInv, IsMessage

LEMMA RequestsStay ==
    ASSUME RequestsInv, UNCHANGED <<wanted, generation, targets, requests>>
    PROVE  RequestsInv'
BY DEF RequestsInv

LEMMA StartStep ==
    ASSUME PreviewsInv, StartRequest, UNCHANGED windowVars
    PROVE  PreviewsInv'
<1> USE DEF PreviewsInv
<1>0. UNCHANGED <<wanted, generation, targets, previewResults, shown, clientGeneration,
                  generating>>
  BY Unchanged DEF StartRequest
<1>1. /\ clientPc = "idle"
      /\ requests # <<>>
      /\ requests' = Tail(requests)
      /\ IsSeq(requests)
      /\ wanted \in Nat
  BY DEF StartRequest, RequestsInv
<1>2. /\ Head(requests) = requests[1]
      /\ Len(requests) \in Nat
      /\ Len(requests) >= 1
      /\ IsSeq(requests')
      /\ Len(requests') = Len(requests) - 1
      /\ \A i \in 1..Len(requests) - 1 : requests'[i] = requests[i + 1]
      /\ requests' # <<>> => Len(requests') >= 1
  BY <1>1, SeqTail, SeqLen
<1>3. /\ requests[1].config = wanted - Len(requests) + 1
      /\ Len(requests) <= wanted
      /\ requests[Len(requests)].targets = targets
  BY <1>1, <1>2 DEF RequestsInv
<1>4. RequestsInv'
  <2>1. ASSUME NEW i \in 1..Len(requests')
        PROVE  requests'[i].config = wanted - Len(requests') + i
    <3>1. i + 1 \in 1..Len(requests) /\ requests'[i] = requests[i + 1]
      BY <1>2
    <3>2. requests[i + 1].config = wanted - Len(requests) + (i + 1)
      BY <3>1 DEF RequestsInv
    <3> QED
      BY <1>1, <1>2, <3>1, <3>2
  <2>2. requests' # <<>> => requests'[Len(requests')].targets = targets
    <3>1. SUFFICES ASSUME requests' # <<>> PROVE requests'[Len(requests')].targets = targets
      OBVIOUS
    <3>2. requests'[Len(requests')] = requests[Len(requests)]
      BY <1>2, <3>1
    <3> QED
      BY <1>3, <3>2
  <2>3. generation = wanted + 1
    BY DEF RequestsInv
  <2> QED
    BY <1>0, <1>1, <1>2, <1>3, <2>1, <2>2, <2>3 DEF RequestsInv
<1>5. ScreenInv'
  BY <1>0, ScreenStays
<1>6. CASE Head(requests).targets # <<>> /\ server = "up"
  <2>1. /\ link' = "asked"
        /\ asked' = requests[1]
        /\ wire' = <<>>
        /\ clientPc' = "count"
        /\ events' = events
    BY <1>2, <1>6 DEF StartRequest
  <2>2. IsSeq(<<>>) /\ Len(<<>>) = 0
    BY SeqTuple
  <2>3. ClientInv'
    <3>1. clientGeneration \in Nat /\ clientGeneration <= wanted - Len(requests) + 1
      BY <1>1 DEF ClientInv
    <3>2. requests[1].config = wanted => requests[1].targets = targets
      BY <1>1, <1>2, <1>3
    <3> QED
      BY <1>0, <1>1, <1>2, <1>3, <2>1, <3>1, <3>2 DEF ClientInv
  <2>4. generating = {}
    BY <1>1 DEF LinkInv
  <2>5. LinkInv'
    BY <1>0, <2>1, <2>4 DEF LinkInv
  <2>6. WireInv'
    BY <2>1, <2>2 DEF WireInv
  <2>7. EventsInv'
    BY <1>0, <2>1, MessagesStay
  <2> QED
    BY <1>4, <1>5, <2>3, <2>5, <2>6, <2>7
<1>7. CASE ~(Head(requests).targets # <<>> /\ server = "up")
  <2>1. UNCHANGED <<clientPc, link, asked, wire>>
    BY <1>7 DEF StartRequest
  <2>2. events' = events \/ events' = Append(events, Error)
    BY <1>7 DEF StartRequest
  <2>3. ClientInv'
    <3>1. /\ clientGeneration \in Nat /\ clientGeneration <= wanted - Len(requests) + 1
          /\ asked.config \in Nat /\ asked.config + Len(requests) <= wanted
          /\ asked.config = wanted => asked.targets = targets
      BY <1>1 DEF ClientInv
    <3> QED
      BY <1>0, <1>1, <1>2, <1>3, <2>1, <3>1 DEF ClientInv
  <2>4. LinkInv' /\ WireInv'
    BY <1>0, <2>1 DEF LinkInv, WireInv, FirstFrame, IsFrame
  <2>5. EventsInv'
    <3>1. IsMessage(Error)
      BY DEF IsMessage, Error
    <3> QED
      BY <1>0, <2>2, <3>1, MessagesStay, PostMessage
  <2> QED
    BY <1>4, <1>5, <2>3, <2>4, <2>5
<1> QED
  BY <1>6, <1>7

\* A preview that was read, or not, is a message.
LEMMA ReceivedIsMessage ==
    ASSUME RequestsInv, ClientInv, clientPc = "read", NEW p, IsPreview(p),
           p.config = asked.config,
           p.hasPreview => \E k \in DOMAIN asked.targets : asked.targets[k] = p.target
    PROVE  IsMessage(Received(p))
<1>1. Received(p).preview = p /\ Received(p).generation = clientGeneration
  BY DEF Received
<1>2. /\ clientGeneration \in Nat /\ clientGeneration <= asked.config + 1
      /\ asked.config \in Nat /\ wanted \in Nat
      /\ asked.config <= wanted
  <2>1. Len(requests) \in Nat
    BY SeqLen DEF RequestsInv
  <2> QED
    BY <2>1 DEF ClientInv, RequestsInv
<1>3. asked.config = wanted => asked.targets = targets
  BY DEF ClientInv
<1> QED
  BY <1>1, <1>2, <1>3 DEF IsMessage

LEMMA ClientSteps ==
    ASSUME PreviewsInv, ClientStep, UNCHANGED windowVars
    PROVE  PreviewsInv'
<1> USE DEF PreviewsInv
<1>0. UNCHANGED <<wanted, generation, targets, previewResults, shown>>
  BY Unchanged
<1>1. ScreenInv'
  BY <1>0, ScreenStays
<1>2. Len(requests) \in Nat /\ wanted \in Nat
  BY SeqLen DEF RequestsInv
<1>3. CASE StartRequest
  BY <1>3, StartStep
<1>4. CASE ReadCount
  <2>1. /\ clientPc = "count" /\ clientPc' = "read"
        /\ wire # <<>> /\ wire' = Tail(wire)
        /\ clientGeneration' = clientGeneration + 1
        /\ UNCHANGED <<requests, events, link, asked, generating>>
    BY <1>4 DEF ReadCount
  <2>2. RequestsInv' /\ EventsInv'
    BY <1>0, <2>1, RequestsStay, MessagesStay
  <2>3. ClientInv'
    BY <1>0, <1>2, <2>1 DEF ClientInv
  <2>4. LinkInv'
    BY <2>1 DEF LinkInv
  <2>5. WireInv'
    <3>1. /\ IsSeq(wire') /\ Len(wire') = Len(wire) - 1 /\ Len(wire) \in Nat
          /\ \A i \in 1..Len(wire) - 1 : wire'[i] = wire[i + 1]
      BY <2>1, SeqTail, SeqLen DEF WireInv
    <3>2. ASSUME NEW i \in 1..Len(wire') PROVE IsFrame(wire'[i])
      <4>1. wire'[i] = wire[i + 1] /\ i + 1 \in 1..Len(wire) /\ i + 1 >= FirstFrame
        BY <2>1, <3>1 DEF FirstFrame
      <4> QED
        BY <4>1 DEF WireInv
    <3> QED
      BY <2>1, <3>1, <3>2 DEF WireInv, IsFrame
  <2> QED
    BY <1>1, <2>2, <2>3, <2>4, <2>5
<1>5. CASE MissCount
  <2>1. /\ clientPc = "count" /\ clientPc' = "idle"
        /\ wire = <<>> /\ link = "down"
        /\ events' = Append(events, Error)
        /\ UNCHANGED <<requests, clientGeneration, wire, link, asked, generating>>
    BY <1>5 DEF MissCount, serverVars
  <2>2. RequestsInv'
    BY <1>0, <2>1, RequestsStay
  <2>3. ClientInv'
    BY <1>0, <1>2, <2>1 DEF ClientInv
  <2>4. LinkInv'
    BY <2>1 DEF LinkInv
  <2>5. WireInv'
    <3>1. Len(<<>>) = 0
      OBVIOUS
    <3> QED
      BY <2>1, <3>1 DEF WireInv
  <2>6. EventsInv'
    <3>1. IsMessage(Error)
      BY DEF IsMessage, Error
    <3> QED
      BY <1>0, <2>1, <3>1, PostMessage
  <2> QED
    BY <1>1, <2>2, <2>3, <2>4, <2>5, <2>6
<1>6. CASE ReadPreview
  <2>1. /\ clientPc = "read"
        /\ wire # <<>> /\ wire' = Tail(wire)
        /\ events' = Append(events, Received(Head(wire)))
        /\ UNCHANGED <<requests, clientPc, clientGeneration, link, asked, generating>>
    BY <1>6 DEF ReadPreview
  <2>2. /\ IsSeq(wire') /\ Len(wire') = Len(wire) - 1 /\ Len(wire) \in Nat /\ Len(wire) >= 1
        /\ \A i \in 1..Len(wire) - 1 : wire'[i] = wire[i + 1]
        /\ Head(wire) = wire[1]
    BY <2>1, SeqTail, SeqLen DEF WireInv
  <2>3. \A i \in 1..Len(wire) : IsFrame(wire[i])
    BY <2>1 DEF WireInv, FirstFrame
  <2>4. RequestsInv'
    BY <1>0, <2>1, RequestsStay
  <2>5. ClientInv'
    BY <1>0, <2>1 DEF ClientInv
  <2>6. LinkInv'
    BY <2>1 DEF LinkInv
  <2>7. WireInv'
    <3>1. ASSUME NEW i \in 1..Len(wire') PROVE IsFrame(wire'[i])
      <4>1. wire'[i] = wire[i + 1] /\ i + 1 \in 1..Len(wire)
        BY <2>2
      <4> QED
        BY <2>3, <4>1
    <3> QED
      BY <2>1, <2>2, <3>1 DEF WireInv, IsFrame
  <2>8. EventsInv'
    <3>1. IsFrame(Head(wire))
      BY <2>2, <2>3
    <3>2. IsMessage(Received(Head(wire)))
      BY <2>1, <3>1, ReceivedIsMessage DEF IsFrame
    <3> QED
      BY <1>0, <2>1, <3>2, PostMessage
  <2> QED
    BY <1>1, <2>4, <2>5, <2>6, <2>7, <2>8
<1>7. CASE ReadNothing
  <2>1. /\ clientPc = "read"
        /\ events' = Append(events, Received(NoPreview(asked.config)))
        /\ UNCHANGED <<requests, clientPc, clientGeneration, wire, link, asked, generating>>
    BY <1>7 DEF ReadNothing, serverVars
  <2>2. RequestsInv' /\ ClientInv' /\ LinkInv' /\ WireInv'
    BY <1>0, <2>1 DEF RequestsInv, ClientInv, LinkInv, WireInv, IsFrame, FirstFrame
  <2>3. EventsInv'
    <3> DEFINE p == NoPreview(asked.config)
    <3>1. /\ p = [target |-> p.target, config |-> p.config, hasPreview |-> p.hasPreview]
          /\ p.config = asked.config
          /\ p.hasPreview = FALSE
      BY DEF NoPreview
    <3>2. IsPreview(p)
      BY <3>1 DEF IsPreview, ClientInv
    <3> HIDE DEF p
    <3>3. IsMessage(Received(p))
      BY <2>1, <3>1, <3>2, ReceivedIsMessage
    <3> QED
      BY <1>0, <2>1, <3>3, PostMessage DEF p
  <2> QED
    BY <1>1, <2>2, <2>3
<1>8. CASE FinishRequest
  <2>1. /\ clientPc = "read" /\ clientPc' = "idle"
        /\ link' = "down" /\ generating' = {} /\ wire' = <<>>
        /\ UNCHANGED <<requests, clientGeneration, asked>>
    BY <1>8 DEF FinishRequest
  <2>2. RequestsInv'
    BY <1>0, <2>1, RequestsStay
  <2>3. ClientInv'
    BY <1>0, <1>2, <2>1 DEF ClientInv
  <2>4. LinkInv'
    BY <2>1 DEF LinkInv
  <2>5. WireInv'
    <3>1. IsSeq(<<>>) /\ Len(<<>>) = 0
      BY SeqTuple
    <3> QED
      BY <2>1, <3>1 DEF WireInv
  <2>6. EventsInv'
    <3>1. IsMessage(Finished) /\ IsMessage(Error)
      BY DEF IsMessage, Finished, Error
    <3>2. CASE events' = Append(events, Finished)
      BY <1>0, <3>1, <3>2, PostMessage
    <3>3. CASE events' = events \o <<Error, Finished>>
      <4>1. IsSeq(<<Error, Finished>>) /\ Len(<<Error, Finished>>) = 2
            /\ Len(events) \in Nat /\ IsSeq(events)
        BY SeqTuple, SeqLen DEF EventsInv
      <4>2. /\ IsSeq(events')
            /\ Len(events') = Len(events) + 2
            /\ \A i \in 1..Len(events) : events'[i] = events[i]
            /\ \A i \in 1..2 : events'[Len(events) + i] = <<Error, Finished>>[i]
        BY <3>3, <4>1, SeqConcat
      <4>3. ASSUME NEW i \in 1..Len(events') PROVE IsMessage(events'[i])
        <5>1. CASE i \in 1..Len(events)
          BY <4>2, <5>1 DEF EventsInv
        <5>2. CASE i = Len(events) + 1
          BY <3>1, <4>2, <5>2
        <5>3. CASE i = Len(events) + 2
          BY <3>1, <4>2, <5>3
        <5> QED
          BY <4>1, <4>2, <5>1, <5>2, <5>3
      <4> QED
        BY <1>0, <4>2, <4>3 DEF EventsInv, IsMessage
    <3> QED
      BY <1>8, <3>2, <3>3 DEF FinishRequest
  <2> QED
    BY <1>1, <2>2, <2>3, <2>4, <2>5, <2>6
<1> QED
  BY <1>3, <1>4, <1>5, <1>6, <1>7, <1>8 DEF ClientStep
----------------------------------------------------------------------------
(* The window. *)
ScreenStep == Display!Next \/ UNCHANGED <<wanted, targets, shown>>

OthersWait == UNCHANGED <<serverVars, clientPc, processed, clientGeneration, failed>>

\* A handler may queue slots, never previews.
NoNewPreview ==
    /\ IsSeq(events')
    /\ \A i \in 1..Len(events') :
          events'[i].what # "received" \/ \E j \in 1..Len(events) : events'[i] = events[j]

LEMMA ServerWaits ==
    ASSUME LinkInv, WireInv, OthersWait
    PROVE  LinkInv' /\ WireInv'
BY DEF OthersWait, serverVars, LinkInv, WireInv, IsFrame, FirstFrame

LEMMA EventsKept ==
    ASSUME EventsInv
    PROVE  /\ events' = events => NoNewPreview
           /\ \A e : events' = Append(events, e) /\ e.what # "received" => NoNewPreview
           /\ events # <<>> /\ events' = Tail(events) => NoNewPreview
<1>0. IsSeq(events) /\ Len(events) \in Nat
  BY SeqLen DEF EventsInv
<1>1. ASSUME events' = events PROVE NoNewPreview
  BY <1>0, <1>1 DEF NoNewPreview
<1>2. ASSUME NEW e, events' = Append(events, e), e.what # "received" PROVE NoNewPreview
  <2>1. /\ IsSeq(events')
        /\ Len(events') = Len(events) + 1
        /\ \A i \in 1..Len(events) : events'[i] = events[i]
        /\ events'[Len(events) + 1] = e
    BY <1>0, <1>2, SeqAppend
  <2>2. \A i \in 1..Len(events') : i \in 1..Len(events) \/ i = Len(events) + 1
    BY <1>0, <2>1
  <2> QED
    BY <1>2, <2>1, <2>2 DEF NoNewPreview
<1>3. ASSUME events # <<>>, events' = Tail(events) PROVE NoNewPreview
  <2>1. /\ IsSeq(events')
        /\ Len(events') = Len(events) - 1
        /\ \A i \in 1..Len(events) - 1 : events'[i] = events[i + 1]
    BY <1>0, <1>3, SeqTail
  <2>2. \A i \in 1..Len(events') : i \in 1..Len(events) - 1 /\ i + 1 \in 1..Len(events)
    BY <1>0, <2>1
  <2> QED
    BY <2>1, <2>2 DEF NoNewPreview
<1> QED
  BY <1>1, <1>2, <1>3

\* Nothing is asked for: the screen stays, or is wiped.
LEMMA NothingAsked ==
    ASSUME PreviewsInv, OthersWait, NoNewPreview,
           UNCHANGED <<wanted, coordinatorVars, requests>>,
           shown' = shown \/ shown' = <<>>
    PROVE  PreviewsInv' /\ ScreenStep
<1> USE DEF PreviewsInv
<1>0. UNCHANGED <<wanted, generation, targets, previewResults, requests, asked, clientPc,
                  clientGeneration>>
  BY DEF coordinatorVars, OthersWait, serverVars
<1>1. RequestsInv' /\ ClientInv' /\ LinkInv' /\ WireInv'
  BY <1>0, RequestsStay, ServerWaits DEF ClientInv
<1>2. EventsInv'
  <2>1. ASSUME NEW i \in 1..Len(events') PROVE IsMessage(events'[i])
    BY DEF NoNewPreview, EventsInv, IsMessage
  <2> QED
    BY <1>0, <2>1 DEF NoNewPreview, EventsInv, IsMessage
<1>3. ScreenInv'
  <2>1. IsSeq(<<>>) /\ Len(<<>>) = 0
    BY SeqTuple
  <2>2. CASE shown' = shown
    BY <1>0, <2>2, ScreenStays
  <2>3. CASE shown' = <<>>
    BY <1>0, <2>1, <2>3 DEF ScreenInv, IsCurrent
  <2> QED
    BY <2>2, <2>3
<1>4. ScreenStep
  BY <1>0 DEF ScreenStep, Display!Next, Display!Wipe
<1> QED
  BY <1>1, <1>2, <1>3, <1>4

\* startGeneration, once or twice: the screen is wiped, and whatever is on its way is of an
\* earlier request.
LEMMA Asks ==
    ASSUME PreviewsInv, OthersWait, NoNewPreview, NEW res, NEW f, NEW spin, NEW pages,
           IsSeq(pages), pages # <<>>, MakePreviews(res, f, spin, pages)
    PROVE  PreviewsInv' /\ ScreenStep
<1> USE DEF PreviewsInv
<1> DEFINE calls == [k \in 1..Len(pages) |->
                        [targets |-> PageOf(res, f, pages[k]), config |-> wanted + k]]
<1>0. /\ generation' = generation + Len(pages)
      /\ wanted' = wanted + Len(pages)
      /\ targets' = PageOf(res, f, pages[Len(pages)])
      /\ requests' = requests \o calls
      /\ previewResults' = <<>>
      /\ shown' = <<>>
      /\ UNCHANGED <<asked, clientPc, clientGeneration>>
  BY DEF MakePreviews, NextGeneration, Emptied, OthersWait, serverVars
<1>1. /\ Len(pages) \in Nat /\ Len(pages) >= 1
      /\ Len(requests) \in Nat /\ IsSeq(requests)
      /\ wanted \in Nat
  BY SeqLen DEF RequestsInv
<1>2. IsSeq(calls) /\ Len(calls) = Len(pages)
  <2>1. calls \in Seq({calls[i] : i \in 1..Len(pages)})
    BY <1>1
  <2>2. Len(calls) = Len(pages)
    BY <1>1
  <2> QED
    BY <2>1, <2>2, SeqOf
<1>3. /\ IsSeq(requests')
      /\ Len(requests') = Len(requests) + Len(pages)
      /\ \A i \in 1..Len(requests) : requests'[i] = requests[i]
      /\ \A i \in 1..Len(pages) : requests'[Len(requests) + i] = calls[i]
  <2> HIDE DEF calls
  <2>1. /\ IsSeq(requests \o calls)
        /\ Len(requests \o calls) = Len(requests) + Len(calls)
        /\ \A i \in 1..Len(requests) : (requests \o calls)[i] = requests[i]
        /\ \A i \in 1..Len(calls) : (requests \o calls)[Len(requests) + i] = calls[i]
    BY <1>1, <1>2, SeqConcat
  <2>2. requests' = requests \o calls /\ Len(calls) = Len(pages)
    BY <1>0, <1>2
  <2> QED
    BY <2>1, <2>2, Zenon
<1>4. RequestsInv'
  <2>1. ASSUME NEW i \in 1..Len(requests')
        PROVE  requests'[i].config = wanted' - Len(requests') + i
    <3>1. CASE i \in 1..Len(requests)
      <4>1. requests[i].config = wanted - Len(requests) + i
        BY <3>1 DEF RequestsInv
      <4> QED
        BY <1>0, <1>1, <1>3, <3>1, <4>1
    <3>2. CASE i \notin 1..Len(requests)
      <4> DEFINE k == i - Len(requests)
      <4>1. k \in 1..Len(pages) /\ i = Len(requests) + k
        BY <1>1, <1>3, <3>2
      <4>2. requests'[i] = calls[k]
        BY <1>3, <4>1
      <4>3. calls[k].config = wanted + k
        BY <4>1
      <4> QED
        BY <1>0, <1>1, <1>3, <4>1, <4>2, <4>3
    <3> QED
      BY <3>1, <3>2
  <2>2. requests'[Len(requests')].targets = targets'
    <3>1. requests'[Len(requests')] = calls[Len(pages)]
      BY <1>1, <1>3
    <3>2. calls[Len(pages)].targets = PageOf(res, f, pages[Len(pages)])
      BY <1>1
    <3> QED
      BY <1>0, <3>1, <3>2
  <2>3. generation' = wanted' + 1 /\ wanted' \in Nat /\ Len(requests') <= wanted'
    BY <1>0, <1>1, <1>3 DEF RequestsInv
  <2> QED
    BY <1>3, <2>1, <2>2, <2>3 DEF RequestsInv
<1>5. ClientInv'
  BY <1>0, <1>1, <1>3 DEF ClientInv
<1>6. LinkInv' /\ WireInv'
  BY ServerWaits
<1>7. EventsInv'
  <2>1. ASSUME NEW i \in 1..Len(events') PROVE IsMessage(events[i])'
    <3>1. CASE events'[i].what # "received"
      BY <3>1 DEF IsMessage
    <3>2. ASSUME NEW j \in 1..Len(events), events'[i] = events[j]
          PROVE  IsMessage(events[i])'
      <4>1. IsMessage(events[j])
        BY DEF EventsInv
      <4>2. \A c \in Nat : c <= wanted => c <= wanted' /\ c # wanted'
        BY <1>0, <1>1
      <4> QED
        BY <3>2, <4>1, <4>2 DEF IsMessage, IsPreview
    <3> QED
      BY <3>1, <3>2 DEF NoNewPreview
  <2> QED
    BY <2>1 DEF NoNewPreview, EventsInv
<1>8. ScreenInv'
  <2>1. IsSeq(<<>>) /\ Len(<<>>) = 0
    BY SeqTuple
  <2> QED
    BY <1>0, <2>1 DEF ScreenInv
<1>9. ScreenStep
  BY <1>0, <1>1 DEF ScreenStep, Display!Next, Display!Ask
<1> QED
  BY <1>4, <1>5, <1>6, <1>7, <1>8, <1>9

\* makePreviews as a handler of its own, or nothing.
LEMMA MakesPage ==
    ASSUME PreviewsInv, OthersWait, NoNewPreview, NEW f, NEW spin, NEW p,
           MakePage(f, spin, p) \/ MakeNone(spin)
    PROVE  PreviewsInv' /\ ScreenStep
<1>1. CASE MakeNone(spin)
  BY <1>1, NothingAsked DEF MakeNone, paneVars
<1>2. CASE MakePage(f, spin, p)
  <2>1. CASE results = <<>>
    BY <1>1, <1>2, <2>1 DEF MakePage
  <2>2. CASE results # <<>>
    <3>1. MakePreviews(results, f, spin, WithNested(results, f, spin, p))
      BY <1>2, <2>2 DEF MakePage
    <3>2. /\ WithNested(results, f, spin, p) # <<>>
          /\ IsSeq(WithNested(results, f, spin, p))
      <4>1. \/ WithNested(results, f, spin, p) = <<p>>
            \/ WithNested(results, f, spin, p) = <<NumPages(results, f), p>>
        BY DEF WithNested
      <4>2. IsSeq(<<p>>) /\ IsSeq(<<NumPages(results, f), p>>)
        BY SeqTuple
      <4>3. <<p>> # <<>> /\ <<NumPages(results, f), p>> # <<>>
        OBVIOUS
      <4> QED
        BY <4>1, <4>2, <4>3, Zenon
    <3> QED
      BY <3>1, <3>2, Asks
  <2> QED
    BY <2>1, <2>2
<1> QED
  BY <1>1, <1>2

LEMMA UserSteps ==
    ASSUME PreviewsInv, UserStep, OthersWait
    PROVE  PreviewsInv' /\ ScreenStep
<1>0. EventsInv
  BY DEF PreviewsInv
<1>1. CASE Search
  BY <1>0, <1>1, EventsKept, NothingAsked DEF Search, paneVars
<1>2. CASE TurnPage
  <2>1. events' = events /\ \E p \in 1..maximum \ {pageNumber} : MakePage(file, p, p)
    BY <1>2 DEF TurnPage
  <2> QED
    BY <1>0, <2>1, EventsKept, MakesPage
<1>3. CASE SelectFile
  <2>1. events' = Append(events, ComboChanged) /\ ComboChanged.what # "received"
    BY <1>3 DEF SelectFile, ComboChanged
  <2>2. UNCHANGED <<coordinatorVars, paneVars, wanted, requests>>
    BY <1>3 DEF SelectFile
  <2> QED
    BY <1>0, <2>1, <2>2, EventsKept, NothingAsked DEF paneVars
<1>4. CASE Scale
  BY <1>0, <1>4, EventsKept, MakesPage DEF Scale
<1>5. CASE SwitchTab
  BY <1>0, <1>5, EventsKept, MakesPage DEF SwitchTab
<1> QED
  BY <1>1, <1>2, <1>3, <1>4, <1>5 DEF UserStep

LEMMA SearchDoneMessages ==
    ASSUME EventsInv, SearchDone
    PROVE  NoNewPreview
<1> PICK t \in {<<ComboChanged>>, <<ComboChanged, ComboChanged>>} : events' = events \o t
  BY DEF SearchDone
<1>1. IsSeq(t) /\ Len(t) \in {1, 2} /\ \A i \in 1..Len(t) : t[i] = ComboChanged
  <2>1. IsSeq(<<ComboChanged>>) /\ IsSeq(<<ComboChanged, ComboChanged>>)
    BY SeqTuple
  <2>2. Len(t) \in {1, 2} /\ \A i \in 1..Len(t) : t[i] = ComboChanged
    OBVIOUS
  <2> QED
    BY <2>1, <2>2
<1>2. IsSeq(events) /\ Len(events) \in Nat
  BY SeqLen DEF EventsInv
<1>3. /\ IsSeq(events')
      /\ Len(events') = Len(events) + Len(t)
      /\ \A i \in 1..Len(events) : events'[i] = events[i]
      /\ \A i \in 1..Len(t) : events'[Len(events) + i] = t[i]
  BY <1>1, <1>2, SeqConcat
<1>4. ASSUME NEW i \in 1..Len(events')
      PROVE  events'[i].what # "received" \/ \E j \in 1..Len(events) : events'[i] = events[j]
  <2>1. CASE i \in 1..Len(events)
    BY <1>3, <2>1
  <2>2. CASE i \notin 1..Len(events)
    <3>1. i - Len(events) \in 1..Len(t) /\ i = Len(events) + (i - Len(events))
      BY <1>1, <1>2, <1>3, <2>2
    <3>2. events'[i] = ComboChanged
      BY <1>1, <1>3, <3>1
    <3> QED
      BY <3>2 DEF ComboChanged
  <2> QED
    BY <2>1, <2>2
<1> QED
  BY <1>3, <1>4 DEF NoNewPreview

LEMMA SearchDoneStep ==
    ASSUME PreviewsInv, SearchDone, OthersWait
    PROVE  PreviewsInv' /\ ScreenStep
<1>1. NoNewPreview
  BY SearchDoneMessages DEF PreviewsInv
<1> PICK res \in ResultLists \cup {<<>>} :
      LET spun == IF pageNumber # 1 /\ res # <<>> THEN <<1>> ELSE <<>>
          direct == IF active /\ res # <<>> THEN <<1>> ELSE <<>>
      IN IF spun \o direct = <<>>
         THEN shown' = <<>> /\ UNCHANGED <<coordinatorVars, requests, wanted>>
         ELSE MakePreviews(res, "all", 1, spun \o direct)
  BY DEF SearchDone
<1> DEFINE spun == IF pageNumber # 1 /\ res # <<>> THEN <<1>> ELSE <<>>
           direct == IF active /\ res # <<>> THEN <<1>> ELSE <<>>
<1>2. CASE spun \o direct = <<>>
  BY <1>1, <1>2, NothingAsked
<1>3. CASE spun \o direct # <<>>
  <2>1. MakePreviews(res, "all", 1, spun \o direct)
    BY <1>3
  <2>2. IsSeq(spun \o direct)
    <3>1. IsSeq(spun) /\ IsSeq(direct)
      BY SeqTuple
    <3> QED
      BY <3>1, SeqConcat
  <2> HIDE DEF spun, direct
  <2> QED
    BY <1>1, <1>3, <2>1, <2>2, Asks
<1> QED
  BY <1>2, <1>3

LEMMA ReceivedStep ==
    ASSUME PreviewsInv, HandleReceived, OthersWait
    PROVE  PreviewsInv' /\ ScreenStep
<1> USE DEF PreviewsInv
<1> DEFINE p == Head(events).preview
<1>0. /\ events # <<>>
      /\ Head(events).what = "received"
      /\ UNCHANGED <<wanted, generation, targets, requests, shown, asked, clientPc,
                     clientGeneration>>
  BY DEF HandleReceived, NextEvent, paneVars, OthersWait, serverVars
<1>1. IsMessage(Head(events))
  BY <1>0, SeqTail DEF EventsInv
<1>2. RequestsInv' /\ ClientInv' /\ LinkInv' /\ WireInv'
  BY <1>0, RequestsStay, ServerWaits DEF ClientInv
<1>3. ScreenStep
  BY <1>0 DEF ScreenStep
<1>4. CASE Takes(p, Head(events).generation)
  <2>1. /\ previewResults' = [i \in DOMAIN previewResults \cup {PositionOf(p)} |->
                                IF i = PositionOf(p) THEN p ELSE previewResults[i]]
        /\ events' = Append(Tail(events), PreviewReady)
    BY <1>4 DEF HandleReceived
  <2>2. IsCurrent(p)
    <3>1. /\ IsPreview(p)
          /\ Head(events).generation \in Nat
          /\ Head(events).generation <= p.config + 1
          /\ p.config <= wanted
          /\ p.config = wanted /\ p.hasPreview =>
                \E k \in DOMAIN targets : targets[k] = p.target
      BY <1>0, <1>1 DEF IsMessage
    <3>2. Head(events).generation >= generation /\ p.hasPreview
      BY <1>4 DEF Takes
    <3>3. p.config = wanted
      <4>1. generation = wanted + 1 /\ wanted \in Nat /\ p.config \in Nat
        BY <3>1 DEF RequestsInv, IsPreview
      <4> QED
        BY <3>1, <3>2, <4>1
    <3> QED
      BY <3>1, <3>2, <3>3 DEF IsCurrent
  <2>3. ScreenInv'
    <3>1. ASSUME NEW i \in DOMAIN previewResults' PROVE IsCurrent(previewResults'[i])
      BY <2>1, <2>2 DEF ScreenInv
    <3> QED
      BY <1>0, <3>1 DEF ScreenInv, IsCurrent
  <2>4. EventsInv'
    <3>1. /\ IsSeq(Tail(events)) /\ Len(Tail(events)) = Len(events) - 1
          /\ \A i \in 1..Len(events) - 1 : Tail(events)[i] = events[i + 1]
          /\ Len(events) \in Nat
      BY <1>0, SeqTail, SeqLen DEF EventsInv
    <3>2. /\ IsSeq(events')
          /\ Len(events') = Len(events)
          /\ \A i \in 1..Len(events) - 1 : events'[i] = events[i + 1]
          /\ events'[Len(events)] = PreviewReady
      BY <2>1, <3>1, SeqAppend
    <3>3. ASSUME NEW i \in 1..Len(events') PROVE IsMessage(events'[i])
      <4>1. CASE i = Len(events)
        BY <3>2, <4>1 DEF IsMessage, PreviewReady
      <4>2. CASE i # Len(events)
        <5>1. i \in 1..Len(events) - 1 /\ i + 1 \in 1..Len(events)
          BY <3>1, <3>2, <4>2
        <5> QED
          BY <3>2, <5>1 DEF EventsInv
      <4> QED
        BY <4>1, <4>2
    <3> QED
      BY <1>0, <3>2, <3>3 DEF EventsInv, IsMessage
  <2> QED
    BY <1>2, <1>3, <2>3, <2>4
<1>5. CASE ~Takes(p, Head(events).generation)
  <2>1. UNCHANGED previewResults /\ events' = Tail(events)
    BY <1>5 DEF HandleReceived
  <2> QED
    BY <1>0, <1>2, <1>3, <2>1, ScreenStays, TakeMessage
<1> QED
  BY <1>4, <1>5

\* previewReceived shows one more preview, of the coordinator's results.
LEMMA ReadyStep ==
    ASSUME PreviewsInv, HandleReady, OthersWait
    PROVE  PreviewsInv' /\ ScreenStep
<1> USE DEF PreviewsInv
<1>0. /\ events # <<>> /\ events' = Tail(events)
      /\ UNCHANGED <<wanted, coordinatorVars, requests>>
  BY DEF HandleReady, NextEvent
<1>1. CASE shown' = shown
  BY <1>0, <1>1, EventsKept, NothingAsked
<1>2. CASE InsertIndex + 1 \in DOMAIN previewResults
           /\ shown' = Inserted(shown, InsertIndex, previewResults[InsertIndex + 1])
  <2> DEFINE k == InsertIndex
             p == previewResults[InsertIndex + 1]
  <2>0. UNCHANGED <<wanted, generation, targets, previewResults, requests, asked, clientPc,
                    clientGeneration>>
    BY <1>0 DEF coordinatorVars, OthersWait, serverVars
  <2>1. IsCurrent(p)
    BY <1>2 DEF ScreenInv
  <2>2. k \in 0..Len(shown) /\ Len(shown) \in Nat /\ IsSeq(shown)
    BY SeqLen DEF ScreenInv, InsertIndex
  <2>3. shown' = SubSeq(shown, 1, k) \o <<p>> \o SubSeq(shown, k + 1, Len(shown))
    BY <1>2 DEF Inserted
  <2>4. ScreenStep
    <3> PICK i \in DOMAIN targets : targets[i] = p.target
      BY <2>1 DEF IsCurrent
    <3>1. p = [target |-> targets[i], config |-> wanted, hasPreview |-> TRUE]
      BY <2>1 DEF IsCurrent, IsPreview
    <3>2. p = Display!PreviewOf(i)
      BY <3>1 DEF Display!PreviewOf
    <3> HIDE DEF p, k
    <3>3. Display!Show
      BY <2>0, <2>2, <2>3, <3>2 DEF Display!Show
    <3> QED
      BY <3>3 DEF ScreenStep, Display!Next
  <2> HIDE DEF p, k
  <2>5. IsSeq(shown') /\ \A i \in 1..Len(shown') : IsCurrent(shown'[i])
    <3> DEFINE a == SubSeq(shown, 1, k)
               b == SubSeq(shown, k + 1, Len(shown))
    <3>1. IsSeq(a) /\ \A i \in 1..Len(a) : IsCurrent(a[i])
      <4>1. /\ IsSeq(a)
            /\ Len(a) = IF 1 <= k THEN k - 1 + 1 ELSE 0
            /\ \A i \in 1..Len(a) : a[i] = shown[1 + i - 1]
        BY <2>2, SeqPrefix
      <4>2. \A i \in 1..Len(a) : 1 + i - 1 \in 1..Len(shown)
        BY <2>2, <4>1
      <4> HIDE DEF a
      <4> QED
        BY <4>1, <4>2 DEF ScreenInv
    <3>2. IsSeq(b) /\ \A i \in 1..Len(b) : IsCurrent(b[i])
      <4>1. k + 1 \in Nat /\ k + 1 >= 1
        BY <2>2
      <4>2. /\ IsSeq(b)
            /\ Len(b) = IF k + 1 <= Len(shown) THEN Len(shown) - (k + 1) + 1 ELSE 0
            /\ \A i \in 1..Len(b) : b[i] = shown[(k + 1) + i - 1]
        BY <2>2, <4>1, SeqPrefix
      <4>3. \A i \in 1..Len(b) : (k + 1) + i - 1 \in 1..Len(shown)
        BY <2>2, <4>2
      <4> HIDE DEF b
      <4> QED
        BY <4>2, <4>3 DEF ScreenInv
    <3> HIDE DEF a, b
    <3>3. /\ IsSeq(<<p>>) /\ Len(<<p>>) = 1 /\ <<p>>[1] = p
      BY SeqTuple
    <3>4. ASSUME NEW s, NEW t, IsSeq(s), IsSeq(t),
                 \A i \in 1..Len(s) : IsCurrent(s[i]), \A i \in 1..Len(t) : IsCurrent(t[i])
          PROVE  IsSeq(s \o t) /\ \A i \in 1..Len(s \o t) : IsCurrent((s \o t)[i])
      <4>1. /\ IsSeq(s \o t) /\ Len(s \o t) = Len(s) + Len(t)
            /\ \A i \in 1..Len(s) : (s \o t)[i] = s[i]
            /\ \A i \in 1..Len(t) : (s \o t)[Len(s) + i] = t[i]
            /\ Len(s) \in Nat /\ Len(t) \in Nat
        BY <3>4, SeqConcat, SeqLen
      <4>2. ASSUME NEW i \in 1..Len(s \o t) PROVE IsCurrent((s \o t)[i])
        <5>1. CASE i \in 1..Len(s)
          BY <3>4, <4>1, <5>1
        <5>2. CASE i \notin 1..Len(s)
          <6>1. i - Len(s) \in 1..Len(t) /\ i = Len(s) + (i - Len(s))
            BY <4>1, <5>2
          <6>2. (s \o t)[i] = t[i - Len(s)]
            BY <4>1, <6>1
          <6> QED
            BY <3>4, <6>1, <6>2
        <5> QED
          BY <5>1, <5>2
      <4> QED
        BY <4>1, <4>2
    <3>5. \A i \in 1..Len(<<p>>) : IsCurrent(<<p>>[i])
      BY <2>1, <3>3
    <3>6. IsSeq(a \o <<p>>) /\ \A i \in 1..Len(a \o <<p>>) : IsCurrent((a \o <<p>>)[i])
      BY <3>1, <3>3, <3>4, <3>5
    <3>7. shown' = (a \o <<p>>) \o b
      BY <2>3 DEF a, b
    <3> QED
      BY <3>2, <3>4, <3>6, <3>7
  <2>6. ScreenInv'
    BY <2>0, <2>5 DEF ScreenInv, IsCurrent
  <2>7. EventsInv'
    BY <1>0, <2>0, TakeMessage
  <2> QED
    BY <2>0, <2>4, <2>6, <2>7, RequestsStay, ServerWaits DEF ClientInv
<1> QED
  BY <1>1, <1>2 DEF HandleReady

LEMMA EventSteps ==
    ASSUME PreviewsInv, EventStep, OthersWait
    PROVE  PreviewsInv' /\ ScreenStep
<1>0. EventsInv
  BY DEF PreviewsInv
<1>1. CASE SearchDone
  BY <1>1, SearchDoneStep
<1>2. CASE SearchFails
  BY <1>0, <1>2, EventsKept, NothingAsked DEF SearchFails, paneVars
<1>3. CASE HandleReceived
  BY <1>3, ReceivedStep
<1>4. CASE HandleReady
  BY <1>4, ReadyStep
<1>5. CASE HandleFinished
  BY <1>0, <1>5, EventsKept, NothingAsked DEF HandleFinished, NextEvent, paneVars
<1>6. CASE HandleError
  BY <1>0, <1>6, EventsKept, NothingAsked DEF HandleError, NextEvent, paneVars
<1>7. CASE HandleCombo
  <2>1. NoNewPreview
    BY <1>0, <1>7, EventsKept DEF HandleCombo, NextEvent
  <2>2. MakePage(file, pageNumber, 1) \/ MakeNone(pageNumber)
    BY <1>7 DEF HandleCombo
  <2> QED
    BY <2>1, <2>2, MakesPage
<1> QED
  BY <1>1, <1>2, <1>3, <1>4, <1>5, <1>6, <1>7 DEF EventStep
----------------------------------------------------------------------------
LEMMA InvNext == PreviewsInv /\ [Next]_vars => PreviewsInv' /\ ScreenStep
<1> SUFFICES ASSUME PreviewsInv, [Next]_vars PROVE PreviewsInv' /\ ScreenStep
  OBVIOUS
<1>2. CASE Server
  BY <1>2, ServerSteps, Unchanged DEF Server, ScreenStep
<1>3. CASE Death
  BY <1>3, ServerSteps, Unchanged DEF Death, ScreenStep
<1>4. CASE Client
  BY <1>4, ClientSteps, Unchanged DEF Client, ScreenStep
<1>5. CASE Window
  BY <1>5, EventSteps DEF Window, OthersWait
<1>6. CASE User
  BY <1>6, UserSteps DEF User, OthersWait
<1>7. CASE UNCHANGED vars
  <2>1. UNCHANGED windowVars /\ OthersWait /\ events' = events /\ requests' = requests
    BY <1>7 DEF vars, OthersWait, clientVars
  <2> QED
    BY <2>1, EventsKept, NothingAsked DEF PreviewsInv, windowVars, paneVars
<1> QED
  BY <1>2, <1>3, <1>4, <1>5, <1>6, <1>7 DEF Next

THEOREM PreviewsInvCorrect == Spec => []PreviewsInv
BY InvInit, InvNext, PTL DEF Spec

\* Whatever is clicked, searched and rendered, and however often the server fails, a preview
\* on the screen is of the last request and of a target of the page shown
\* (PreviewCoordinator::handleReceivedPreview, startGeneration; IPCPreviewClient::start).
THEOREM ShownIsCurrentCorrect == Spec => []ShownIsCurrent
<1>1. PreviewsInv => ShownIsCurrent
  <2> SUFFICES ASSUME PreviewsInv PROVE ShownIsCurrent
    OBVIOUS
  <2>1. DOMAIN shown = 1..Len(shown)
    BY SeqLen DEF PreviewsInv, ScreenInv
  <2> QED
    BY <2>1 DEF PreviewsInv, ScreenInv, IsCurrent, ShownIsCurrent
<1> QED
  BY <1>1, PreviewsInvCorrect, PTL

\* The previews tab implements a screen that is wiped by every request and then shows
\* previews of it, one by one (MainWindow::makePreviews, previewReceived,
\* handleSearchResults; PreviewCoordinator).
THEOREM ScreenKeptCorrect == Spec => ScreenKept
<1>1. Init => Display!Init
  BY DEF Init, Display!Init
<1>2. PreviewsInv /\ [Next]_vars => [Display!Next]_(Display!screenVars)
  BY InvNext DEF ScreenStep, Display!screenVars
<1> QED
  BY <1>1, <1>2, PreviewsInvCorrect, PTL DEF Spec, ScreenKept, Display!Spec
----------------------------------------------------------------------------
(* Pages. *)
LEMMA PlacesType ==
    ASSUME NEW res, res \in Seq(Target), NEW f
    PROVE  /\ Places(res, f) \subseteq 1..Len(res)
           /\ Places(res, f) \subseteq Nat \ {0}
           /\ IsFiniteSet(Places(res, f))
           /\ Cardinality(Places(res, f)) \in Nat
<1>1. DOMAIN res = 1..Len(res) /\ Len(res) \in Nat
  OBVIOUS
<1>2. Places(res, f) \subseteq 1..Len(res)
  BY <1>1 DEF Places
<1>3. IsFiniteSet(1..Len(res))
  BY <1>1, FS_Interval
<1> QED
  BY <1>1, <1>2, <1>3, FS_Subset, FS_CardinalityType

LEMMA SelectedType ==
    ASSUME NEW res, res \in Seq(Target), NEW f
    PROVE  /\ Selected(res, f) \in Seq(Target)
           /\ Len(Selected(res, f)) = Cardinality(Places(res, f))
<1> DEFINE P == Places(res, f)
           Place(n) == CHOOSE i \in P : Cardinality(P \cap 1..i) = n
<1>1. Cardinality(P) \in Nat
  BY PlacesType
<1>2. ASSUME NEW n \in 1..Cardinality(P) PROVE res[Place(n)] \in Target
  <2>1. \E i \in P : Cardinality(P \cap 1..i) = n
    <3>1. P \subseteq Nat \ {0} /\ IsFiniteSet(P)
      BY PlacesType
    <3> HIDE DEF P
    <3> QED
      BY <3>1, Ranked
  <2>2. Place(n) \in P
    <3> HIDE DEF P
    <3> QED
      BY <2>1
  <2>3. P \subseteq 1..Len(res)
    BY PlacesType
  <2>4. \A i \in 1..Len(res) : res[i] \in Target
    OBVIOUS
  <2> HIDE DEF P, Place
  <2> QED
    BY <2>2, <2>3, <2>4
<1>3. Selected(res, f) = [n \in 1..Cardinality(P) |-> res[Place(n)]]
  BY DEF Selected
<1> HIDE DEF P, Place
<1>4. Selected(res, f) \in [1..Cardinality(P) -> Target]
  BY <1>2, <1>3
<1> QED
  BY <1>1, <1>4 DEF P

\* A page of the results of a file that has some is a page.
LEMMA PageType ==
    ASSUME NEW res, res \in Seq(Target), NEW f, Places(res, f) # {}, NEW p \in Nat \ {0}
    PROVE  PageOf(res, f, p) \in Seq(Target) /\ NumPages(res, f) \in Nat \ {0}
<1> DEFINE sel == Selected(res, f)
           n == Len(sel)
           from == (p - 1) * PerPage
           to == IF from + PerPage < n THEN from + PerPage ELSE n
<1>1. sel \in Seq(Target) /\ n \in Nat
  BY SelectedType
<1>2. n >= 1
  <2>1. Cardinality(Places(res, f)) # 0
    BY PlacesType, FS_EmptySet
  <2> QED
    BY <1>1, <2>1, SelectedType
<1>3. PerPage \in Nat \ {0}
  BY WindowAssumption
<1>4. from \in Nat
  BY <1>3
<1>5. PageOf(res, f, p) = SubSeq(sel, from + 1, to)
  BY DEF PageOf
<1>6. NumPages(res, f) = (n + PerPage - 1) \div PerPage
  BY DEF NumPages
<1> HIDE DEF sel, from
<1>7. to \in Nat /\ to <= n
  BY <1>1, <1>3, <1>4
<1> HIDE DEF to
<1>8. SubSeq(sel, from + 1, to) \in Seq(Target)
  BY <1>1, <1>4, <1>7
<1> HIDE DEF n
<1>9. ASSUME NEW a \in Nat, NEW b \in Nat \ {0}, a >= b PROVE a \div b \in Nat \ {0}
  <2> DEFINE q == a \div b
  <2>1. /\ q \in Int
        /\ b * q <= a
        /\ a < b * q + b
    BY <1>9
  <2> HIDE DEF q
  <2>2. q > 0
    BY <1>9, <2>1
  <2> QED
    BY <2>1, <2>2 DEF q
<1>10. (n + PerPage - 1) \div PerPage \in Nat \ {0}
  <2>1. n + PerPage - 1 \in Nat /\ n + PerPage - 1 >= PerPage
    BY <1>1, <1>2, <1>3
  <2> QED
    BY <1>3, <1>9, <2>1
<1> QED
  BY <1>5, <1>6, <1>8, <1>10

\* makePreviews corrects the page number to a page there is.
LEMMA PageNumbers ==
    ASSUME NEW res, res \in Seq(Target), NEW f, Places(res, f) # {},
           NEW spin \in Nat \ {0}, NEW p \in Nat \ {0}
    PROVE  /\ WithNested(res, f, spin, p) \in Seq(Nat \ {0})
           /\ WithNested(res, f, spin, p) # <<>>
<1>1. NumPages(res, f) \in Nat \ {0}
  BY PageType
<1>2. \/ WithNested(res, f, spin, p) = <<p>>
      \/ WithNested(res, f, spin, p) = <<NumPages(res, f), p>>
  BY DEF WithNested
<1>3. <<p>> \in Seq(Nat \ {0}) /\ <<NumPages(res, f), p>> \in Seq(Nat \ {0})
  BY <1>1
<1>4. <<p>> # <<>> /\ <<NumPages(res, f), p>> # <<>>
  OBVIOUS
<1> QED
  BY <1>2, <1>3, <1>4, Zenon
----------------------------------------------------------------------------
(* Types.  Pages are what they should be because the page number is at     *)
(* least 1 and the selected file has a result.                             *)
ClientTypes ==
    /\ clientPc \in {"idle", "count", "read"}
    /\ processed \in Nat
    /\ clientGeneration \in Nat
    /\ events \in Seq(Event)

ViewTypes ==
    /\ results \in Seq(Target)
    /\ file \in Files \cup {"", "all"}
    /\ clicks \in Nat
    /\ results # <<>> => Places(results, file) # {}

RequestTypes ==
    /\ requests \in Seq(Request)
    /\ generation \in Nat
    /\ targets \in Seq(Target)
    /\ wanted \in Nat
    /\ pageNumber \in Nat \ {0}
    /\ maximum \in Nat

ResultTypes ==
    /\ \A i \in DOMAIN previewResults : i \in DOMAIN targets /\ previewResults[i] \in Preview
    /\ shown \in Seq(Preview)

SwitchTypes ==
    /\ active \in BOOLEAN
    /\ searching \in BOOLEAN
    /\ searchEnabled \in BOOLEAN
    /\ pagingEnabled \in BOOLEAN
    /\ layout \in BOOLEAN
    /\ crashed \in BOOLEAN
    /\ told \in BOOLEAN
    /\ failed \in BOOLEAN

TypesInv ==
    ServerTypeOK /\ ClientTypes /\ ViewTypes /\ RequestTypes /\ ResultTypes /\ SwitchTypes

LEMMA TypesImply == TypesInv => TypeOK
BY DEF TypesInv, ClientTypes, ViewTypes, RequestTypes, ResultTypes, SwitchTypes, TypeOK, Call

LEMMA TypesInit == Init => TypesInv
<1> SUFFICES ASSUME Init PROVE TypesInv
  OBVIOUS
<1>0. /\ \A S : <<>> \in Seq(S)
      /\ DOMAIN <<>> = {}
  OBVIOUS
<1>1. ServerTypeOK
  <2>1. /\ server = "starting" /\ link = "down" /\ generating = {} /\ wire = <<>>
        /\ asked = [targets |-> <<>>, config |-> 0]
    BY DEF Init, NoRequest
  <2>2. asked \in Request /\ wire \in Seq(Preview \cup Count)
    BY <1>0, <2>1 DEF Request
  <2> QED
    BY <2>1, <2>2 DEF ServerTypeOK
<1>2. ClientTypes
  <2>1. clientPc = "idle" /\ processed = 0 /\ clientGeneration = 1 /\ events = <<>>
    BY DEF Init
  <2> QED
    BY <1>0, <2>1 DEF ClientTypes
<1>3. ViewTypes
  <2>1. results = <<>> /\ file = ""
    BY DEF Init
  <2>2. results \in Seq(Target) /\ (results # <<>> => Places(results, file) # {})
    BY <1>0, <2>1
  <2>3. file \in Files \cup {"", "all"}
    BY <2>1
  <2>4. clicks \in Nat
    <3>1. clicks = 0
      BY DEF Init
    <3> QED
      BY <3>1
  <2> QED
    BY <2>2, <2>3, <2>4 DEF ViewTypes
<1>4. RequestTypes /\ ResultTypes
  <2>1. /\ requests = <<>> /\ generation = 1 /\ targets = <<>> /\ wanted = 0
        /\ pageNumber = 1 /\ maximum = 1 /\ previewResults = <<>> /\ shown = <<>>
    BY DEF Init
  <2> QED
    BY <1>0, <2>1 DEF RequestTypes, ResultTypes
<1>5. SwitchTypes
  BY DEF Init, SwitchTypes
<1> QED
  BY <1>1, <1>2, <1>3, <1>4, <1>5 DEF TypesInv

LEMMA WindowTypesStay ==
    ASSUME TypesInv, UNCHANGED windowVars, UNCHANGED failed \/ failed' = TRUE
    PROVE  ViewTypes' /\ ResultTypes' /\ SwitchTypes'
<1>1. /\ UNCHANGED <<results, file, clicks>>
      /\ UNCHANGED <<active, searching, searchEnabled, pagingEnabled, layout, crashed, told>>
      /\ UNCHANGED <<targets, previewResults, shown>>
  BY DEF windowVars, viewVars, enabledVars, coordinatorVars, paneVars
<1>2. ViewTypes'
  BY <1>1 DEF TypesInv, ViewTypes
<1>3. ResultTypes'
  BY <1>1 DEF TypesInv, ResultTypes
<1>4. SwitchTypes'
  BY <1>1 DEF TypesInv, SwitchTypes
<1> QED
  BY <1>2, <1>3, <1>4

LEMMA ServerTypesStep ==
    ASSUME TypesInv, ServerStep \/ Die, UNCHANGED <<clientVars, windowVars>>
    PROVE  TypesInv'
<1>0. /\ UNCHANGED <<requests, clientPc, processed, clientGeneration, events, failed>>
      /\ UNCHANGED <<generation, targets, wanted, pageNumber, maximum>>
  BY DEF clientVars, windowVars, coordinatorVars, viewVars
<1>1. ClientTypes' /\ RequestTypes'
  BY <1>0 DEF TypesInv, ClientTypes, RequestTypes
<1>2. ViewTypes' /\ ResultTypes' /\ SwitchTypes'
  BY <1>0, WindowTypesStay
<1>3. ServerTypeOK'
  <2> USE DEF TypesInv, ServerTypeOK
  <2>1. asked.targets \in Seq(Target) /\ asked.config \in Nat
    BY DEF Request
  <2>2. CASE Listen
    BY <2>2 DEF Listen
  <2>3. CASE Accept
    <3>1. [count |-> Len(asked.targets)] \in Count
      BY <2>1 DEF Count
    <3>2. wire' \in Seq(Preview \cup Count)
      BY <2>3, <3>1 DEF Accept
    <3> QED
      BY <2>3, <3>2 DEF Accept
  <2>4. CASE Deliver
    <3> PICK i \in generating :
           /\ wire' = Append(wire, Rendered(asked.targets[i], asked.config))
           /\ generating' = generating \ {i}
      BY <2>4 DEF Deliver
    <3>1. asked.targets[i] \in Target
      BY <2>1
    <3>2. Rendered(asked.targets[i], asked.config) \in Preview
      BY <2>1, <3>1 DEF Rendered, Preview
    <3> QED
      BY <2>4, <3>2 DEF Deliver
  <2>5. CASE Shutdown
    BY <2>5 DEF Shutdown
  <2>6. CASE Die
    <3> PICK n \in 0..Len(wire) : wire' = SubSeq(wire, 1, n)
      BY <2>6 DEF Die
    <3>1. n \in Nat /\ n <= Len(wire)
      OBVIOUS
    <3>2. wire' \in Seq(Preview \cup Count)
      BY <3>1
    <3> QED
      BY <2>6, <3>2 DEF Die
  <2> QED
    BY <2>2, <2>3, <2>4, <2>5, <2>6 DEF ServerStep
<1> QED
  BY <1>1, <1>2, <1>3 DEF TypesInv

LEMMA SeqTypes ==
    /\ \A S : \A n \in Nat : [1..n -> S] \subseteq Seq(S)
    /\ \A S, s, t : s \in Seq(S) /\ t \in Seq(S) => s \o t \in Seq(S)
OBVIOUS

\* A message that is received carries a preview; the other events carry nothing.
LEMMA EventTypes ==
    /\ \A p \in Preview : clientGeneration \in Nat => Received(p) \in Event
    /\ Finished \in Event /\ Error \in Event
    /\ ComboChanged \in Event /\ PreviewReady \in Event
    /\ \A e \in Event : e.what = "received" => e.preview \in Preview /\ e.generation \in Nat
<1>1. \A p \in Preview : clientGeneration \in Nat => Received(p) \in Event
  BY DEF Received, Event
<1>2. Finished \in Event /\ Error \in Event
  BY DEF Finished, Error, Event
<1>3. ComboChanged \in Event /\ PreviewReady \in Event
  BY DEF ComboChanged, PreviewReady, Event
<1>4. ASSUME NEW e \in Event, e.what = "received"
      PROVE  e.preview \in Preview /\ e.generation \in Nat
  <2>1. e \in [what : {"received"}, preview : Preview, generation : Nat]
    BY <1>4 DEF Event
  <2> QED
    BY <2>1
<1> QED
  BY <1>1, <1>2, <1>3, <1>4

LEMMA ClientTypesStep ==
    ASSUME PreviewsInv, TypesInv, ClientStep, UNCHANGED windowVars
    PROVE  TypesInv'
<1> USE DEF TypesInv
<1>0. UNCHANGED <<generation, targets, wanted, pageNumber, maximum>>
  BY DEF windowVars, coordinatorVars, viewVars
<1>1. UNCHANGED failed \/ failed' = TRUE
  BY DEF ClientStep, StartRequest, ReadCount, MissCount, ReadPreview, ReadNothing, FinishRequest
<1>2. ViewTypes' /\ ResultTypes' /\ SwitchTypes'
  BY <1>1, WindowTypesStay
<1>3. asked.targets \in Seq(Target) /\ asked.config \in Nat
  BY DEF ServerTypeOK, Request
<1>4. SUFFICES ServerTypeOK' /\ ClientTypes' /\ requests' \in Seq(Request)
  BY <1>0, <1>2 DEF RequestTypes
<1>5. requests \in Seq(Request) /\ events \in Seq(Event) /\ wire \in Seq(Preview \cup Count)
  BY DEF RequestTypes, ClientTypes, ServerTypeOK
<1>6. Error \in Event /\ Finished \in Event
  BY EventTypes
<1>7. CASE StartRequest
  <2>1. /\ requests # <<>>
        /\ requests' = Tail(requests)
        /\ UNCHANGED <<processed, clientGeneration, server, generating>>
        /\ clientPc = "idle"
    BY <1>7 DEF StartRequest
  <2>2. requests' \in Seq(Request) /\ Head(requests) \in Request
    BY <1>5, <2>1
  <2>3. CASE Head(requests).targets # <<>> /\ server = "up"
    <3>1. /\ link' = "asked" /\ asked' = Head(requests) /\ wire' = <<>>
          /\ clientPc' = "count" /\ UNCHANGED events
      BY <1>7, <2>3 DEF StartRequest
    <3>2. generating = {}
      BY <2>1 DEF PreviewsInv, LinkInv
    <3>3. wire' \in Seq(Preview \cup Count)
      BY <3>1
    <3>4. ServerTypeOK'
      BY <2>1, <2>2, <3>1, <3>2, <3>3 DEF ServerTypeOK
    <3>5. ClientTypes'
      BY <2>1, <3>1 DEF ClientTypes
    <3> QED
      BY <2>2, <3>4, <3>5
  <2>4. CASE ~(Head(requests).targets # <<>> /\ server = "up")
    <3>1. /\ events' = events \/ events' = Append(events, Error)
          /\ UNCHANGED <<clientPc, link, asked, wire>>
      BY <1>7, <2>4 DEF StartRequest
    <3>2. events' \in Seq(Event)
      <4>1. events \in Seq(Event) /\ Error \in Event
        BY <1>5, <1>6
      <4>2. Append(events, Error) \in Seq(Event)
        BY <4>1, SMTT(30)
      <4> QED
        BY <3>1, <4>1, <4>2, Zenon
    <3> QED
      BY <2>1, <2>2, <3>1, <3>2 DEF ServerTypeOK, ClientTypes
  <2> QED
    BY <2>3, <2>4
<1>8. CASE ReadCount
  <2>1. wire' \in Seq(Preview \cup Count)
    BY <1>5, <1>8 DEF ReadCount
  <2> QED
    BY <1>5, <1>8, <2>1 DEF ReadCount, ServerTypeOK, ClientTypes
<1>9. CASE MissCount
  <2>1. events' \in Seq(Event)
    BY <1>5, <1>6, <1>9 DEF MissCount
  <2> QED
    BY <1>5, <1>9, <2>1 DEF MissCount, serverVars, ServerTypeOK, ClientTypes
<1>10. CASE ReadPreview
  <2>1. wire # <<>> /\ clientPc = "read"
    BY <1>10 DEF ReadPreview
  <2>2. wire' \in Seq(Preview \cup Count) /\ Head(wire) \in Preview \cup Count
    BY <1>5, <1>10, <2>1 DEF ReadPreview
  <2>3. IsPreview(Head(wire))
    <3>1. Head(wire) = wire[1] /\ 1 \in 1..Len(wire)
      BY <1>5, <2>1
    <3> QED
      BY <2>1, <3>1 DEF PreviewsInv, WireInv, FirstFrame, IsFrame
  <2>4. Head(wire) \in Preview
    <3>1. SUFFICES Head(wire) \notin Count
      BY <2>2
    <3>2. ASSUME Head(wire) \in Count PROVE FALSE
      <4>1. DOMAIN Head(wire) = {"count"}
        BY <3>2 DEF Count
      <4>2. DOMAIN Head(wire) = {"target", "config", "hasPreview"}
        BY <2>3 DEF IsPreview
      <4> QED
        BY <4>1, <4>2
    <3> QED
      BY <3>2
  <2>5. events' \in Seq(Event)
    <3>1. Received(Head(wire)) \in Event
      BY <2>4, EventTypes DEF ClientTypes
    <3> QED
      BY <1>5, <1>10, <3>1 DEF ReadPreview
  <2>6. processed' \in Nat
    BY <1>10 DEF ReadPreview, ClientTypes
  <2> QED
    BY <1>5, <1>10, <2>2, <2>5, <2>6 DEF ReadPreview, ServerTypeOK, ClientTypes
<1>11. CASE ReadNothing
  <2>1. /\ processed < Len(asked.targets) /\ processed \in Nat
        /\ events' = Append(events, Received(NoPreview(asked.config)))
    BY <1>11 DEF ReadNothing, ClientTypes
  <2>2. Target # {}
    BY <1>3, <2>1
  <2>3. NoPreview(asked.config) \in Preview
    BY <1>3, <2>2 DEF NoPreview, Preview
  <2>4. events' \in Seq(Event)
    <3>1. Received(NoPreview(asked.config)) \in Event
      BY <2>3, EventTypes DEF ClientTypes
    <3> QED
      BY <1>5, <2>1, <3>1
  <2>5. processed' \in Nat
    BY <1>11 DEF ReadNothing, ClientTypes
  <2> QED
    BY <1>5, <1>11, <2>4, <2>5 DEF ReadNothing, serverVars, ServerTypeOK, ClientTypes
<1>12. CASE FinishRequest
  <2>1. events' \in Seq(Event)
    <3>1. events' = Append(events, Finished) \/ events' = events \o <<Error, Finished>>
      BY <1>12 DEF FinishRequest
    <3>2. <<Error, Finished>> \in Seq(Event)
      BY <1>6
    <3>3. events \o <<Error, Finished>> \in Seq(Event)
      BY <1>5, <3>2, SeqTypes
    <3>4. Append(events, Finished) \in Seq(Event)
      BY <1>5, <1>6
    <3> QED
      BY <3>1, <3>3, <3>4
  <2>2. wire' \in Seq(Preview \cup Count)
    BY <1>12 DEF FinishRequest
  <2> QED
    BY <1>5, <1>12, <2>1, <2>2 DEF FinishRequest, ServerTypeOK, ClientTypes
<1> QED
  BY <1>7, <1>8, <1>9, <1>10, <1>11, <1>12 DEF ClientStep

\* makePreviews: the pages exist.
LEMMA AsksTypes ==
    ASSUME TypesInv, NEW res, res \in Seq(Target), NEW f, Places(res, f) # {},
           NEW spin \in Nat \ {0}, NEW pages, pages \in Seq(Nat \ {0}), pages # <<>>,
           MakePreviews(res, f, spin, pages)
    PROVE  RequestTypes' /\ ResultTypes'
<1> DEFINE calls == [k \in 1..Len(pages) |->
                        [targets |-> PageOf(res, f, pages[k]), config |-> wanted + k]]
<1>0. /\ generation' = generation + Len(pages)
      /\ targets' = PageOf(res, f, pages[Len(pages)])
      /\ previewResults' = <<>>
      /\ requests' = requests \o calls
      /\ wanted' = wanted + Len(pages)
      /\ shown' = <<>>
      /\ maximum' = NumPages(res, f)
      /\ pageNumber' = IF spin > NumPages(res, f) THEN NumPages(res, f) ELSE spin
  BY DEF MakePreviews, NextGeneration, Emptied
<1>1. /\ Len(pages) \in Nat /\ Len(pages) >= 1
      /\ \A k \in 1..Len(pages) : pages[k] \in Nat \ {0}
  OBVIOUS
<1>2. /\ generation \in Nat /\ wanted \in Nat
      /\ requests \in Seq(Request)
  BY DEF TypesInv, RequestTypes
<1>3. ASSUME NEW k \in 1..Len(pages) PROVE PageOf(res, f, pages[k]) \in Seq(Target)
  BY <1>1, PageType
<1>4. calls \in Seq(Request)
  <2>1. \A k \in 1..Len(pages) : calls[k] \in Request
    <3>1. \A k \in 1..Len(pages) : wanted + k \in Nat
      BY <1>1, <1>2
    <3> QED
      BY <1>3, <3>1 DEF Request
  <2>2. calls \in [1..Len(pages) -> Request]
    BY <2>1
  <2> HIDE DEF calls
  <2> QED
    BY <1>1, <2>2, SeqTypes
<1>5. requests' \in Seq(Request)
  <2> HIDE DEF calls
  <2> QED
    BY <1>0, <1>2, <1>4
<1>6. targets' \in Seq(Target)
  BY <1>0, <1>1, <1>3
<1>7. NumPages(res, f) \in Nat \ {0}
  BY PageType
<1>8. RequestTypes'
  BY <1>0, <1>1, <1>2, <1>5, <1>6, <1>7 DEF RequestTypes
<1>9. ResultTypes'
  <2>1. DOMAIN <<>> = {} /\ <<>> \in Seq(Preview)
    OBVIOUS
  <2> QED
    BY <1>0, <2>1 DEF ResultTypes
<1> QED
  BY <1>8, <1>9

LEMMA NothingAskedTypes ==
    ASSUME TypesInv, UNCHANGED <<maximum, coordinatorVars, requests, wanted>>,
           pageNumber' \in Nat \ {0}, shown' = shown \/ shown' = <<>>
    PROVE  RequestTypes' /\ ResultTypes'
<1>1. UNCHANGED <<generation, targets, previewResults>>
  BY DEF coordinatorVars
<1>2. RequestTypes'
  BY <1>1 DEF TypesInv, RequestTypes
<1>3. shown' \in Seq(Preview)
  <2>1. shown \in Seq(Preview)
    BY DEF TypesInv, ResultTypes
  <2>2. <<>> \in Seq(Preview)
    OBVIOUS
  <2> QED
    BY <2>1, <2>2
<1> QED
  BY <1>1, <1>2, <1>3 DEF TypesInv, ResultTypes

\* makePreviews as a handler of its own.
LEMMA MakesPageTypes ==
    ASSUME TypesInv, NEW spin \in Nat \ {0}, NEW p \in Nat \ {0},
           \/ MakePage(file, spin, p)
           \/ MakeNone(spin) /\ UNCHANGED <<searchEnabled, pagingEnabled>>
    PROVE  /\ RequestTypes' /\ ResultTypes'
           /\ searchEnabled' \in BOOLEAN /\ pagingEnabled' \in BOOLEAN
           /\ layout' \in BOOLEAN /\ told' \in BOOLEAN
<1>1. CASE MakeNone(spin) /\ UNCHANGED <<searchEnabled, pagingEnabled>>
  <2>1. RequestTypes' /\ ResultTypes'
    BY <1>1, NothingAskedTypes DEF MakeNone, paneVars
  <2>2. UNCHANGED <<searchEnabled, pagingEnabled, layout, told>>
    BY <1>1 DEF MakeNone, paneVars
  <2>3. SwitchTypes
    BY DEF TypesInv
  <2> QED
    BY <2>1, <2>2, <2>3 DEF SwitchTypes
<1>2. CASE results # <<>>
           /\ MakePreviews(results, file, spin, WithNested(results, file, spin, p))
  <2>1. results \in Seq(Target) /\ Places(results, file) # {}
    BY <1>2 DEF TypesInv, ViewTypes
  <2>2. RequestTypes' /\ ResultTypes'
    BY <1>2, <2>1, PageNumbers, AsksTypes
  <2>3. searchEnabled' = FALSE /\ pagingEnabled' = FALSE /\ layout' = TRUE /\ told' = FALSE
    BY <1>2 DEF MakePreviews
  <2>4. /\ searchEnabled' \in BOOLEAN /\ pagingEnabled' \in BOOLEAN
        /\ layout' \in BOOLEAN /\ told' \in BOOLEAN
    BY <2>3
  <2> QED
    BY <2>2, <2>4
<1> QED
  BY <1>1, <1>2 DEF MakePage

\* The rank of a preview of the page is that of a target with its key.
LEMMA Placed ==
    ASSUME targets \in Seq(Target), NEW p, \E k \in DOMAIN targets : targets[k] = p.target
    PROVE  /\ PositionOf(p) \in DOMAIN targets
           /\ KeyOf[targets[PositionOf(p)]] = KeyOf[p.target]
<1>1. DOMAIN targets = 1..Len(targets) /\ Len(targets) \in Nat
  OBVIOUS
<1>2. WithKey(p) # {} /\ WithKey(p) \subseteq 1..Len(targets)
  BY <1>1 DEF WithKey
<1>3. IsFiniteSet(WithKey(p)) /\ WithKey(p) \subseteq Nat
  <2>1. IsFiniteSet(1..Len(targets))
    BY <1>1, FS_Interval
  <2> QED
    BY <1>1, <1>2, <2>1, FS_Subset
<1>4. \E i \in WithKey(p) : \A k \in WithKey(p) : k <= i
  BY <1>2, <1>3, LargestOfFinite
<1>5. PositionOf(p) \in WithKey(p)
  BY <1>2, <1>4 DEF PositionOf
<1> QED
  BY <1>1, <1>5 DEF WithKey

\* A handler of the window leaves the client's thread and the server alone.
LEMMA OthersTypes ==
    ASSUME TypesInv, OthersWait, events' \in Seq(Event)
    PROVE  ServerTypeOK' /\ ClientTypes' /\ failed' \in BOOLEAN
<1>1. UNCHANGED <<server, link, asked, generating, wire>>
  BY DEF OthersWait, serverVars
<1>2. ServerTypeOK'
  BY <1>1 DEF TypesInv, ServerTypeOK
<1>3. ClientTypes'
  BY DEF OthersWait, TypesInv, ClientTypes
<1>4. failed' \in BOOLEAN
  <2>1. failed' = failed
    BY DEF OthersWait
  <2>2. failed \in BOOLEAN
    BY DEF TypesInv, SwitchTypes
  <2> QED
    BY <2>1, <2>2
<1> QED
  BY <1>2, <1>3, <1>4

LEMMA UserTypesStep ==
    ASSUME TypesInv, UserStep, OthersWait
    PROVE  TypesInv'
<1>0. ViewTypes /\ RequestTypes /\ ResultTypes /\ SwitchTypes /\ events \in Seq(Event)
  BY DEF TypesInv, ClientTypes
<1>1. clicks' \in Nat /\ UNCHANGED crashed
  <2>1. clicks' = clicks + 1
    BY DEF UserStep, Search, TurnPage, SelectFile, Scale, SwitchTab, Click
  <2>2. UNCHANGED crashed
    BY DEF UserStep, Search, TurnPage, SelectFile, Scale, SwitchTab
  <2>3. clicks \in Nat
    BY <1>0 DEF ViewTypes
  <2> QED
    BY <2>1, <2>2, <2>3
<1>2. events' \in Seq(Event)
  <2>1. events' = events \/ events' = Append(events, ComboChanged)
    BY DEF UserStep, Search, TurnPage, SelectFile, Scale, SwitchTab
  <2> QED
    BY <1>0, <2>1, EventTypes
<1>3. ServerTypeOK' /\ ClientTypes' /\ failed' \in BOOLEAN
  BY <1>2, OthersTypes
<1>4. SUFFICES ViewTypes' /\ RequestTypes' /\ ResultTypes' /\ SwitchTypes'
  BY <1>3 DEF TypesInv
<1>5. CASE Search
  <2>1. /\ UNCHANGED <<results, file, pageNumber, maximum, active>>
        /\ UNCHANGED <<maximum, coordinatorVars, requests, wanted>>
        /\ UNCHANGED <<pagingEnabled, layout, told, shown>>
        /\ searching' = TRUE
        /\ searchEnabled' = FALSE
    BY <1>5 DEF Search, viewVars, paneVars
  <2>2. ViewTypes'
    BY <1>0, <1>1, <2>1 DEF ViewTypes
  <2>3. RequestTypes' /\ ResultTypes'
    BY <1>0, <2>1, NothingAskedTypes DEF RequestTypes
  <2>4. SwitchTypes'
    BY <1>0, <1>1, <1>3, <2>1 DEF SwitchTypes
  <2> QED
    BY <2>2, <2>3, <2>4
<1>6. CASE TurnPage
  <2> PICK p \in 1..maximum \ {pageNumber} : MakePage(file, p, p)
    BY <1>6 DEF TurnPage
  <2>1. UNCHANGED <<results, file, active, searching>>
    BY <1>6 DEF TurnPage
  <2>2. p \in Nat \ {0}
    BY <1>0 DEF RequestTypes
  <2>3. /\ RequestTypes' /\ ResultTypes'
        /\ searchEnabled' \in BOOLEAN /\ pagingEnabled' \in BOOLEAN
        /\ layout' \in BOOLEAN /\ told' \in BOOLEAN
    BY <2>2, MakesPageTypes
  <2>4. ViewTypes'
    BY <1>0, <1>1, <2>1 DEF ViewTypes
  <2>5. SwitchTypes'
    BY <1>0, <1>1, <1>3, <2>1, <2>3 DEF SwitchTypes
  <2> QED
    BY <2>3, <2>4, <2>5
<1>7. CASE SelectFile
  <2> PICK f \in {"all"} \cup {results[i].path : i \in DOMAIN results} : file' = f
    BY <1>7 DEF SelectFile
  <2>1. /\ UNCHANGED <<results, pageNumber, maximum, active, enabledVars, coordinatorVars>>
        /\ UNCHANGED <<paneVars, told, wanted, requests>>
    BY <1>7 DEF SelectFile
  <2>2. file' \in Files \cup {"", "all"}
    <3>0. results \in Seq(Target)
      BY <1>0 DEF ViewTypes
    <3>1. \A i \in DOMAIN results : results[i] \in Target
      BY <3>0
    <3> QED
      BY <3>1 DEF Files
  <2>3. ASSUME results # <<>> PROVE Places(results, f) # {}
    <3>1. results \in Seq(Target)
      BY <1>0 DEF ViewTypes
    <3>2. 1 \in DOMAIN results
      BY <2>3, <3>1
    <3> QED
      BY <3>2 DEF Places
  <2>4. ViewTypes'
    BY <1>0, <1>1, <2>1, <2>2, <2>3 DEF ViewTypes
  <2>5. RequestTypes' /\ ResultTypes'
    BY <1>0, <2>1, NothingAskedTypes DEF RequestTypes, paneVars
  <2>6. SwitchTypes'
    BY <1>0, <1>1, <1>3, <2>1 DEF SwitchTypes, enabledVars, paneVars
  <2> QED
    BY <2>4, <2>5, <2>6
<1>8. CASE Scale
  <2>1. UNCHANGED <<results, file, active, searching>> /\ MakePage(file, pageNumber, pageNumber)
    BY <1>8 DEF Scale
  <2>2. pageNumber \in Nat \ {0}
    BY <1>0 DEF RequestTypes
  <2>3. /\ RequestTypes' /\ ResultTypes'
        /\ searchEnabled' \in BOOLEAN /\ pagingEnabled' \in BOOLEAN
        /\ layout' \in BOOLEAN /\ told' \in BOOLEAN
    BY <2>1, <2>2, MakesPageTypes
  <2>4. ViewTypes'
    BY <1>0, <1>1, <2>1 DEF ViewTypes
  <2>5. SwitchTypes'
    BY <1>0, <1>1, <1>3, <2>1, <2>3 DEF SwitchTypes
  <2> QED
    BY <2>3, <2>4, <2>5
<1>9. CASE SwitchTab
  <2>1. /\ UNCHANGED <<results, file, searching>>
        /\ active' = ~active
        /\ \/ MakePage(file, pageNumber, pageNumber)
           \/ MakeNone(pageNumber) /\ UNCHANGED <<searchEnabled, pagingEnabled>>
    BY <1>9 DEF SwitchTab
  <2>2. pageNumber \in Nat \ {0}
    BY <1>0 DEF RequestTypes
  <2>3. /\ RequestTypes' /\ ResultTypes'
        /\ searchEnabled' \in BOOLEAN /\ pagingEnabled' \in BOOLEAN
        /\ layout' \in BOOLEAN /\ told' \in BOOLEAN
    BY <2>1, <2>2, MakesPageTypes
  <2>4. ViewTypes'
    BY <1>0, <1>1, <2>1 DEF ViewTypes
  <2>5. SwitchTypes'
    BY <1>0, <1>1, <1>3, <2>1, <2>3 DEF SwitchTypes
  <2> QED
    BY <2>3, <2>4, <2>5
<1> QED
  BY <1>5, <1>6, <1>7, <1>8, <1>9 DEF UserStep

\* A search that is done: its pages are those of results there are.
LEMMA SearchDoneTypes ==
    ASSUME TypesInv, SearchDone
    PROVE  /\ ViewTypes' /\ RequestTypes' /\ ResultTypes'
           /\ events' \in Seq(Event)
           /\ searching' \in BOOLEAN /\ active' \in BOOLEAN
           /\ searchEnabled' \in BOOLEAN /\ pagingEnabled' \in BOOLEAN
           /\ layout' \in BOOLEAN /\ told' \in BOOLEAN
<1>0. ViewTypes /\ RequestTypes /\ ResultTypes /\ SwitchTypes /\ events \in Seq(Event)
  BY DEF TypesInv, ClientTypes
<1>1. events' \in Seq(Event)
  <2> PICK t \in {<<ComboChanged>>, <<ComboChanged, ComboChanged>>} : events' = events \o t
    BY DEF SearchDone
  <2>1. t \in Seq(Event)
    BY EventTypes
  <2> QED
    BY <1>0, <2>1, SeqTypes
<1> PICK res \in ResultLists \cup {<<>>} :
      /\ results' = res
      /\ active' = (active /\ res # <<>>)
      /\ LET spun == IF pageNumber # 1 /\ res # <<>> THEN <<1>> ELSE <<>>
             direct == IF active /\ res # <<>> THEN <<1>> ELSE <<>>
         IN IF spun \o direct = <<>>
            THEN /\ layout' = FALSE
                 /\ shown' = <<>>
                 /\ pageNumber' = 1
                 /\ searchEnabled' = TRUE
                 /\ UNCHANGED <<maximum, coordinatorVars, requests, wanted, told,
                                pagingEnabled>>
            ELSE MakePreviews(res, "all", 1, spun \o direct)
  BY DEF SearchDone
<1>2. res \in Seq(Target)
  <2>1. <<>> \in Seq(Target)
    OBVIOUS
  <2> QED
    BY <2>1, WindowAssumption
<1>3. ASSUME res # <<>> PROVE Places(res, "all") # {}
  <2>1. 1 \in DOMAIN res
    BY <1>2, <1>3
  <2> QED
    BY <2>1 DEF Places
<1>4. ViewTypes'
  <2>1. results' = res /\ file' = "all" /\ clicks' = clicks
    BY DEF SearchDone
  <2>2. clicks \in Nat
    BY <1>0 DEF ViewTypes
  <2> QED
    BY <1>2, <1>3, <2>1, <2>2 DEF ViewTypes
<1>5. searching' \in BOOLEAN /\ active' \in BOOLEAN
  <2>1. searching' = FALSE
    BY DEF SearchDone
  <2> QED
    BY <2>1
<1> DEFINE spun == IF pageNumber # 1 /\ res # <<>> THEN <<1>> ELSE <<>>
           direct == IF active /\ res # <<>> THEN <<1>> ELSE <<>>
           pages == spun \o direct
<1>6. CASE pages = <<>>
  <2>1. /\ layout' = FALSE /\ searchEnabled' = TRUE
        /\ UNCHANGED <<told, pagingEnabled>>
        /\ UNCHANGED <<maximum, coordinatorVars, requests, wanted>>
        /\ shown' = <<>>
    BY <1>6
  <2>2. pageNumber' = 1
    BY <1>6
  <2>3. RequestTypes' /\ ResultTypes'
    BY <2>1, <2>2, NothingAskedTypes
  <2>4. /\ searchEnabled' \in BOOLEAN /\ pagingEnabled' \in BOOLEAN
        /\ layout' \in BOOLEAN /\ told' \in BOOLEAN
    BY <1>0, <2>1 DEF SwitchTypes
  <2> QED
    BY <1>1, <1>4, <1>5, <2>3, <2>4
<1>7. CASE pages # <<>>
  <2>1. MakePreviews(res, "all", 1, pages)
    BY <1>7
  <2>2. res # <<>>
    BY <1>7
  <2>3. pages \in Seq(Nat \ {0})
    <3>1. <<1>> \in Seq(Nat \ {0}) /\ <<>> \in Seq(Nat \ {0})
      OBVIOUS
    <3>2. spun \in Seq(Nat \ {0}) /\ direct \in Seq(Nat \ {0})
      BY <3>1
    <3> HIDE DEF spun, direct
    <3> QED
      BY <3>2
  <2> HIDE DEF pages
  <2>4. RequestTypes' /\ ResultTypes'
    BY <1>2, <1>3, <1>7, <2>1, <2>2, <2>3, AsksTypes
  <2>5. searchEnabled' = FALSE /\ pagingEnabled' = FALSE /\ layout' = TRUE /\ told' = FALSE
    BY <2>1 DEF MakePreviews
  <2>6. /\ searchEnabled' \in BOOLEAN /\ pagingEnabled' \in BOOLEAN
        /\ layout' \in BOOLEAN /\ told' \in BOOLEAN
    BY <2>5
  <2> QED
    BY <1>1, <1>4, <1>5, <2>4, <2>6
<1> QED
  BY <1>6, <1>7

\* handleReceivedPreview keeps a preview at a rank there is.
LEMMA ReceivedTypes ==
    ASSUME PreviewsInv, TypesInv, HandleReceived, OthersWait
    PROVE  /\ RequestTypes' /\ ResultTypes' /\ events' \in Seq(Event)
           /\ KeptAtRank => KeptAtRank'
<1> DEFINE p == Head(events).preview
<1>0. /\ events # <<>> /\ Head(events).what = "received"
      /\ UNCHANGED <<requests, generation, targets, wanted, pageNumber, maximum, shown>>
  BY DEF HandleReceived, NextEvent, paneVars, viewVars
<1>1. events \in Seq(Event) /\ ResultTypes
  BY DEF TypesInv, ClientTypes
<1>2. Tail(events) \in Seq(Event) /\ Head(events) \in Event
  BY <1>0, <1>1
<1>3. p \in Preview
  BY <1>0, <1>2, EventTypes
<1>4. RequestTypes'
  BY <1>0 DEF TypesInv, RequestTypes
<1>5. CASE Takes(p, Head(events).generation)
  <2> DEFINE k == PositionOf(p)
  <2>1. /\ previewResults' = [i \in DOMAIN previewResults \cup {k} |->
                                IF i = k THEN p ELSE previewResults[i]]
        /\ events' = Append(Tail(events), PreviewReady)
    BY <1>5 DEF HandleReceived
  <2>2. \E i \in DOMAIN targets : targets[i] = p.target
    <3>1. IsMessage(Head(events))
      BY <1>0, SeqTail DEF PreviewsInv, EventsInv
    <3>2. /\ Head(events).generation \in Nat
          /\ Head(events).generation <= p.config + 1
          /\ p.config \in Nat /\ p.config <= wanted
      BY <1>0, <3>1 DEF IsMessage, IsPreview
    <3>3. Head(events).generation >= generation
      BY <1>5 DEF Takes
    <3>4. p.hasPreview
      BY <1>5 DEF Takes
    <3>5. p.config = wanted
      BY <3>2, <3>3 DEF PreviewsInv, RequestsInv
    <3> QED
      BY <1>0, <3>1, <3>4, <3>5 DEF IsMessage
  <2>3. targets \in Seq(Target)
    BY DEF TypesInv, RequestTypes
  <2>4. k \in DOMAIN targets /\ KeyOf[targets[k]] = KeyOf[p.target]
    BY <2>2, <2>3, Placed
  <2>5. events' \in Seq(Event)
    BY <1>2, <2>1, EventTypes
  <2> HIDE DEF k, p
  <2>6. ResultTypes'
    BY <1>0, <1>1, <1>3, <2>1, <2>4 DEF ResultTypes
  <2>7. KeptAtRank => KeptAtRank'
    BY <1>0, <2>1, <2>4 DEF KeptAtRank
  <2> QED
    BY <1>4, <2>5, <2>6, <2>7
<1>6. CASE ~Takes(p, Head(events).generation)
  <2>1. UNCHANGED previewResults /\ events' = Tail(events)
    BY <1>6 DEF HandleReceived
  <2> QED
    BY <1>0, <1>1, <1>2, <1>4, <2>1 DEF ResultTypes, KeptAtRank
<1> QED
  BY <1>5, <1>6

LEMMA EventTypesStep ==
    ASSUME PreviewsInv, TypesInv, EventStep, OthersWait
    PROVE  TypesInv' /\ (KeptAtRank => KeptAtRank')
<1>0. ViewTypes /\ RequestTypes /\ ResultTypes /\ SwitchTypes /\ events \in Seq(Event)
  BY DEF TypesInv, ClientTypes
<1>1. ASSUME ViewTypes', RequestTypes', ResultTypes', events' \in Seq(Event),
             active' \in BOOLEAN, searching' \in BOOLEAN, searchEnabled' \in BOOLEAN,
             pagingEnabled' \in BOOLEAN, layout' \in BOOLEAN, crashed' \in BOOLEAN,
             told' \in BOOLEAN
      PROVE  TypesInv'
  <2>1. ServerTypeOK' /\ ClientTypes' /\ failed' \in BOOLEAN
    BY <1>1, OthersTypes
  <2>2. SwitchTypes'
    BY <1>1, <2>1 DEF SwitchTypes
  <2> QED
    BY <1>1, <2>1, <2>2 DEF TypesInv
<1>2. ASSUME UNCHANGED <<results, file, clicks>> PROVE ViewTypes'
  BY <1>0, <1>2 DEF ViewTypes
<1>3. ASSUME events # <<>>, events' = Tail(events) PROVE events' \in Seq(Event)
  BY <1>0, <1>3
<1>4. ASSUME NEW b, b \in {active, searching, searchEnabled, pagingEnabled, layout, crashed,
                           told, TRUE, FALSE}
      PROVE  b \in BOOLEAN
  BY <1>0, <1>4, Zenon DEF SwitchTypes
<1>5. CASE SearchDone
  <2>1. crashed' \in BOOLEAN
    <3>1. crashed' = crashed
      BY <1>5 DEF SearchDone
    <3> QED
      BY <1>4, <3>1
  <2>2. TypesInv'
    BY <1>1, <1>5, <2>1, SearchDoneTypes
  <2>3. UNCHANGED <<targets, previewResults>> \/ previewResults' = <<>>
    BY <1>5 DEF SearchDone, MakePreviews, coordinatorVars
  <2> QED
    BY <2>2, <2>3 DEF KeptAtRank
<1>6. CASE SearchFails
  <2>1. /\ UNCHANGED <<results, file, clicks, events, targets, previewResults>>
        /\ UNCHANGED <<maximum, coordinatorVars, requests, wanted, shown>>
        /\ UNCHANGED <<active, pagingEnabled, layout, crashed, told>>
        /\ searching' = FALSE
        /\ searchEnabled' = TRUE
    BY <1>6 DEF SearchFails, viewVars, coordinatorVars, paneVars
  <2>2. pageNumber' \in Nat \ {0}
    <3>1. pageNumber' = pageNumber
      BY <1>6 DEF SearchFails, viewVars
    <3> QED
      BY <1>0, <3>1 DEF RequestTypes
  <2>3. ViewTypes' /\ RequestTypes' /\ ResultTypes' /\ events' \in Seq(Event)
    BY <1>0, <1>2, <2>1, <2>2, NothingAskedTypes
  <2>4. TypesInv'
    BY <1>1, <1>4, <2>1, <2>3
  <2> QED
    BY <2>1, <2>4 DEF KeptAtRank
<1>7. CASE HandleReceived
  <2>1. /\ RequestTypes' /\ ResultTypes' /\ events' \in Seq(Event)
        /\ KeptAtRank => KeptAtRank'
    BY <1>7, ReceivedTypes
  <2>2. /\ UNCHANGED <<results, file, clicks>>
        /\ UNCHANGED <<active, searching, searchEnabled, pagingEnabled, layout, crashed, told>>
    BY <1>7 DEF HandleReceived, viewVars, enabledVars, paneVars
  <2> QED
    BY <1>1, <1>2, <1>4, <2>1, <2>2
<1>8. CASE HandleReady
  <2>1. /\ UNCHANGED <<results, file, clicks, targets, previewResults>>
        /\ UNCHANGED <<requests, generation, wanted, pageNumber, maximum>>
        /\ UNCHANGED <<active, searching, searchEnabled, pagingEnabled, layout, told>>
        /\ events # <<>> /\ events' = Tail(events)
    BY <1>8 DEF HandleReady, NextEvent, viewVars, enabledVars, coordinatorVars
  <2>2. crashed' \in BOOLEAN
    <3>1. crashed' = ~layout
      BY <1>8 DEF HandleReady
    <3> QED
      BY <3>1
  <2>3. RequestTypes'
    BY <1>0, <2>1 DEF RequestTypes
  <2>4. shown' \in Seq(Preview)
    <3>1. shown \in Seq(Preview)
      BY <1>0 DEF ResultTypes
    <3>2. CASE InsertIndex + 1 \in DOMAIN previewResults
               /\ shown' = Inserted(shown, InsertIndex, previewResults[InsertIndex + 1])
      <4> DEFINE k == InsertIndex
                 p == previewResults[InsertIndex + 1]
      <4>1. p \in Preview
        BY <1>0, <3>2 DEF ResultTypes
      <4>2. k \in 0..Len(shown) /\ Len(shown) \in Nat
        BY <3>1 DEF InsertIndex
      <4>3. shown' = SubSeq(shown, 1, k) \o <<p>> \o SubSeq(shown, k + 1, Len(shown))
        BY <3>2 DEF Inserted
      <4> HIDE DEF k, p
      <4>4. SubSeq(shown, 1, k) \in Seq(Preview)
            /\ SubSeq(shown, k + 1, Len(shown)) \in Seq(Preview) /\ <<p>> \in Seq(Preview)
        BY <3>1, <4>1, <4>2
      <4>5. SubSeq(shown, 1, k) \o <<p>> \in Seq(Preview)
        BY <4>4, SeqTypes
      <4> QED
        BY <4>3, <4>4, <4>5, SeqTypes
    <3>3. CASE shown' = shown
      BY <3>1, <3>3
    <3> QED
      BY <1>8, <3>2, <3>3 DEF HandleReady
  <2>5. ResultTypes'
    BY <1>0, <2>1, <2>4 DEF ResultTypes
  <2>6. TypesInv'
    BY <1>1, <1>2, <1>3, <1>4, <2>1, <2>2, <2>3, <2>5
  <2> QED
    BY <2>1, <2>6 DEF KeptAtRank
<1>9. CASE HandleFinished \/ HandleError
  <2>1. /\ UNCHANGED <<results, file, clicks, targets, previewResults, shown>>
        /\ UNCHANGED <<requests, generation, wanted, pageNumber, maximum>>
        /\ UNCHANGED <<active, searching, layout, crashed>>
        /\ events # <<>> /\ events' = Tail(events)
    BY <1>9 DEF HandleFinished, HandleError, NextEvent, viewVars, enabledVars, paneVars,
                coordinatorVars
  <2>2. /\ searchEnabled' \in BOOLEAN /\ pagingEnabled' \in BOOLEAN /\ told' \in BOOLEAN
    <3>1. /\ searchEnabled' = searchEnabled \/ searchEnabled' = TRUE
          /\ pagingEnabled' = pagingEnabled \/ pagingEnabled' = TRUE
          /\ told' = told \/ told' = TRUE
      BY <1>9 DEF HandleFinished, HandleError, enabledVars
    <3> QED
      BY <1>4, <3>1
  <2>3. RequestTypes' /\ ResultTypes'
    BY <1>0, <2>1 DEF RequestTypes, ResultTypes
  <2>4. TypesInv'
    BY <1>1, <1>2, <1>3, <1>4, <2>1, <2>2, <2>3
  <2> QED
    BY <2>1, <2>4 DEF KeptAtRank
<1>10. CASE HandleCombo
  <2>1. /\ UNCHANGED <<results, file, clicks, active, searching, crashed>>
        /\ events # <<>> /\ events' = Tail(events)
        /\ \/ MakePage(file, pageNumber, 1)
           \/ MakeNone(pageNumber) /\ UNCHANGED <<searchEnabled, pagingEnabled>>
    BY <1>10 DEF HandleCombo, NextEvent
  <2>2. pageNumber \in Nat \ {0} /\ 1 \in Nat \ {0}
    BY <1>0 DEF RequestTypes
  <2>3. /\ RequestTypes' /\ ResultTypes'
        /\ searchEnabled' \in BOOLEAN /\ pagingEnabled' \in BOOLEAN
        /\ layout' \in BOOLEAN /\ told' \in BOOLEAN
    BY <2>1, <2>2, MakesPageTypes
  <2>4. TypesInv'
    BY <1>1, <1>2, <1>3, <1>4, <2>1, <2>3
  <2>5. UNCHANGED <<targets, previewResults>> \/ previewResults' = <<>>
    BY <2>1 DEF MakePage, MakeNone, MakePreviews, coordinatorVars
  <2> QED
    BY <2>4, <2>5 DEF KeptAtRank
<1> QED
  BY <1>5, <1>6, <1>7, <1>8, <1>9, <1>10 DEF EventStep

LEMMA TypesNext ==
    PreviewsInv /\ TypesInv /\ [Next]_vars => TypesInv' /\ (KeptAtRank => KeptAtRank')
<1> SUFFICES ASSUME PreviewsInv, TypesInv, [Next]_vars
             PROVE  TypesInv' /\ (KeptAtRank => KeptAtRank')
  OBVIOUS
<1>1. ASSUME UNCHANGED windowVars PROVE KeptAtRank => KeptAtRank'
  BY <1>1, Unchanged DEF KeptAtRank
<1>2. CASE Server \/ Death
  BY <1>1, <1>2, ServerTypesStep DEF Server, Death
<1>3. CASE Client
  BY <1>1, <1>3, ClientTypesStep DEF Client
<1>4. CASE Window
  BY <1>4, EventTypesStep DEF Window, OthersWait
<1>5. CASE User
  <2>1. TypesInv'
    BY <1>5, UserTypesStep DEF User, OthersWait
  <2>2. UNCHANGED <<targets, previewResults>> \/ previewResults' = <<>>
    BY <1>5 DEF User, UserStep, Search, TurnPage, SelectFile, Scale, SwitchTab, MakePage,
                MakeNone, MakePreviews, coordinatorVars
  <2> QED
    BY <2>1, <2>2 DEF KeptAtRank
<1>6. CASE UNCHANGED vars
  <2>1. /\ UNCHANGED windowVars
        /\ UNCHANGED serverVars /\ UNCHANGED clientVars
    BY <1>6 DEF vars
  <2>2. ViewTypes' /\ ResultTypes' /\ SwitchTypes'
    BY <2>1, WindowTypesStay DEF clientVars
  <2>3. ServerTypeOK' /\ ClientTypes'
    BY <2>1 DEF TypesInv, ServerTypeOK, ClientTypes, serverVars, clientVars
  <2>4. RequestTypes'
    BY <2>1 DEF TypesInv, RequestTypes, windowVars, viewVars, coordinatorVars, clientVars
  <2> QED
    BY <1>1, <2>1, <2>2, <2>3, <2>4 DEF TypesInv
<1> QED
  BY <1>2, <1>3, <1>4, <1>5, <1>6 DEF Next

\* The types of the previews' variables: page numbers start at 1, the selected file has
\* a result, and what is kept has a rank on the page (MainWindow::makePreviews,
\* PreviewCoordinator::handleReceivedPreview).
THEOREM PreviewsTypes == Spec => []TypeOK
<1>1. Spec => []TypesInv
  BY TypesInit, TypesNext, PreviewsInvCorrect, PTL DEF Spec
<1> QED
  BY <1>1, TypesImply, PTL

\* In whatever order the renderers finish, a preview is kept at the rank of a target of its
\* path and page number (PreviewCoordinator::handleReceivedPreview, startGeneration).
THEOREM KeptAtRankCorrect == Spec => []KeptAtRank
<1>1. Init => KeptAtRank
  <2>1. DOMAIN <<>> = {}
    OBVIOUS
  <2> QED
    BY <2>1 DEF Init, KeptAtRank
<1>2. Spec => [](PreviewsInv /\ TypesInv)
  BY TypesInit, TypesNext, PreviewsInvCorrect, PTL DEF Spec
<1> QED
  BY <1>1, <1>2, TypesNext, PTL DEF Spec
----------------------------------------------------------------------------
(* Nothing is missing at rest.  As long as no request was given up and the *)
(* server lives, the client's generation is that of the request it serves, *)
(* no answer is lost, and each preview of the last request is somewhere:   *)
(* still to be asked for, served, on its way as a message, or kept.        *)
Unhurt == ~failed /\ server # "dead"

GenerationInv ==
    ~failed =>
        /\ clientPc = "idle" => clientGeneration = wanted - Len(requests) + 1
        /\ clientPc = "count" => clientGeneration = asked.config
        /\ clientPc = "read" => clientGeneration = asked.config + 1
        /\ \A n \in 1..Len(events) :
              events[n].what = "received" =>
                  events[n].generation = events[n].preview.config + 1

\* Of the answers to a request each is read, written or still being rendered.
AnswersInv ==
    Unhurt =>
        /\ clientPc = "count" /\ link # "asked" =>
              Len(wire) + Cardinality(generating) = Len(asked.targets) + 1
        /\ clientPc = "read" =>
              processed + Len(wire) + Cardinality(generating) = Len(asked.targets)

Kept(t) == \E k \in DOMAIN targets : KeyOf[targets[k]] = KeyOf[t] /\ k \in DOMAIN previewResults

Carries(e, t) ==
    /\ e.what = "received"
    /\ e.preview.hasPreview
    /\ e.preview.target = t
    /\ e.preview.config = wanted

OnItsWay(t) == \E n \in 1..Len(events) : Carries(events[n], t)

Served(i) ==
    /\ clientPc # "idle"
    /\ asked.config = wanted
    /\ \/ link = "asked"
       \/ i \in generating
       \/ \E n \in 1..Len(wire) :
             n >= FirstFrame /\ wire[n].hasPreview /\ wire[n].target = targets[i]

SomewhereInv ==
    Unhurt /\ requests = <<>> =>
        \A i \in DOMAIN targets :
            targets[i] \notin Unrenderable =>
                Kept(targets[i]) \/ OnItsWay(targets[i]) \/ Served(i)

CompleteInv == GenerationInv /\ AnswersInv /\ SomewhereInv

LEMMA CompleteInit == Init => CompleteInv
<1> SUFFICES ASSUME Init PROVE CompleteInv
  OBVIOUS
<1>1. /\ wanted = 0 /\ clientGeneration = 1 /\ clientPc = "idle"
      /\ requests = <<>> /\ events = <<>> /\ targets = <<>>
  BY DEF Init
<1>2. Len(<<>>) = 0 /\ DOMAIN <<>> = {}
  OBVIOUS
<1> QED
  BY <1>1, <1>2 DEF CompleteInv, GenerationInv, AnswersInv, SomewhereInv

LEMMA Counts ==
    ASSUME TypesInv
    PROVE  /\ IsFiniteSet(generating) /\ Cardinality(generating) \in Nat
           /\ DOMAIN asked.targets = 1..Len(asked.targets) /\ Len(asked.targets) \in Nat
           /\ Len(wire) \in Nat /\ processed \in Nat
<1>1. asked.targets \in Seq(Target) /\ wire \in Seq(Preview \cup Count) /\ processed \in Nat
  BY DEF TypesInv, ServerTypeOK, Request, ClientTypes
<1>2. /\ DOMAIN asked.targets = 1..Len(asked.targets) /\ Len(asked.targets) \in Nat
      /\ Len(wire) \in Nat
  BY <1>1
<1>3. generating \subseteq 1..Len(asked.targets)
  BY <1>2 DEF TypesInv, ServerTypeOK
<1>4. IsFiniteSet(generating) /\ Cardinality(generating) \in Nat
  <2>1. IsFiniteSet(1..Len(asked.targets))
    BY <1>2, FS_Interval
  <2>2. IsFiniteSet(generating)
    BY <1>3, <2>1, FS_Subset
  <2> QED
    BY <2>2, FS_CardinalityType
<1> QED
  BY <1>1, <1>2, <1>4

\* No message is lost.
MessagesKept ==
    \A n \in 1..Len(events) :
        events[n].what = "received" => \E m \in 1..Len(events') : events'[m] = events[n]

LEMMA MessagesKeptBy ==
    ASSUME EventsInv
    PROVE  /\ events' = events => MessagesKept
           /\ \A e : events' = Append(events, e) => MessagesKept
           /\ \A t : IsSeq(t) /\ events' = events \o t => MessagesKept
           /\ events # <<>> /\ Head(events).what # "received" /\ events' = Tail(events)
                 => MessagesKept
<1>0. IsSeq(events) /\ Len(events) \in Nat
  BY SeqLen DEF EventsInv
<1>1. ASSUME events' = events PROVE MessagesKept
  BY <1>1 DEF MessagesKept
<1>2. ASSUME NEW e, events' = Append(events, e) PROVE MessagesKept
  <2>1. /\ Len(events') = Len(events) + 1
        /\ \A i \in 1..Len(events) : events'[i] = events[i]
    BY <1>0, <1>2, SeqAppend
  <2>2. \A i \in 1..Len(events) : i \in 1..Len(events')
    BY <1>0, <2>1
  <2> QED
    BY <2>1, <2>2 DEF MessagesKept
<1>3. ASSUME NEW t, IsSeq(t), events' = events \o t PROVE MessagesKept
  <2>1. /\ Len(events') = Len(events) + Len(t) /\ Len(t) \in Nat
        /\ \A i \in 1..Len(events) : events'[i] = events[i]
    BY <1>0, <1>3, SeqConcat, SeqLen
  <2>2. \A i \in 1..Len(events) : i \in 1..Len(events')
    BY <1>0, <2>1
  <2> QED
    BY <2>1, <2>2 DEF MessagesKept
<1>4. ASSUME events # <<>>, Head(events).what # "received", events' = Tail(events)
      PROVE  MessagesKept
  <2>1. /\ Len(events') = Len(events) - 1
        /\ \A i \in 1..Len(events) - 1 : events'[i] = events[i + 1]
        /\ events[1].what # "received"
    BY <1>0, <1>4, SeqTail
  <2>2. ASSUME NEW i \in 1..Len(events), i # 1
        PROVE  \E m \in 1..Len(events') : events'[m] = events[i]
    <3>1. i - 1 \in 1..Len(events') /\ i - 1 \in 1..Len(events) - 1 /\ (i - 1) + 1 = i
      BY <1>0, <2>1, <2>2
    <3>2. events'[i - 1] = events[i]
      BY <2>1, <3>1
    <3> QED
      BY <3>1, <3>2
  <2> QED
    BY <2>1, <2>2 DEF MessagesKept
<1> QED
  BY <1>1, <1>2, <1>3, <1>4

\* What is asked for stays, and what was served still is or has become a message.
LEMMA CarryOver ==
    ASSUME SomewhereInv, MessagesKept, Unhurt' => Unhurt,
           UNCHANGED <<wanted, targets, previewResults, requests>>,
           Unhurt /\ Unhurt' =>
               \A i \in DOMAIN targets :
                   targets[i] \notin Unrenderable /\ Served(i)
                       => Served(i)' \/ OnItsWay(targets[i])'
    PROVE  SomewhereInv'
<1> SUFFICES ASSUME Unhurt', requests = <<>>, NEW i \in DOMAIN targets,
                    targets[i] \notin Unrenderable
             PROVE  Kept(targets[i])' \/ OnItsWay(targets[i])' \/ Served(i)'
  BY DEF SomewhereInv
<1>1. Kept(targets[i]) \/ OnItsWay(targets[i]) \/ Served(i)
  BY DEF SomewhereInv
<1>2. CASE Kept(targets[i])
  BY <1>2 DEF Kept
<1>3. CASE OnItsWay(targets[i])
  BY <1>3 DEF OnItsWay, Carries, MessagesKept
<1>4. CASE Served(i)
  BY <1>4
<1> QED
  BY <1>1, <1>2, <1>3, <1>4

LEMMA ServerComplete ==
    ASSUME PreviewsInv, TypesInv, CompleteInv, ServerStep \/ Die,
           UNCHANGED <<clientVars, windowVars>>
    PROVE  CompleteInv'
<1> USE DEF CompleteInv
<1>0. /\ UNCHANGED <<asked, requests, clientPc, processed, clientGeneration, events, failed>>
      /\ UNCHANGED <<wanted, targets, previewResults>>
  BY Unchanged DEF clientVars, ServerStep, Listen, Accept, Deliver, Shutdown, Die
<1>1. GenerationInv'
  BY <1>0 DEF GenerationInv
<1>2. MessagesKept
  BY <1>0, MessagesKeptBy DEF PreviewsInv
<1>3. Unhurt' => Unhurt
  BY <1>0 DEF Unhurt, ServerStep, Listen, Accept, Deliver, Shutdown, Die
<1>4. SUFFICES /\ AnswersInv'
               /\ Unhurt /\ Unhurt' =>
                     \A i \in DOMAIN targets :
                         targets[i] \notin Unrenderable /\ Served(i) => Served(i)'
  BY <1>0, <1>1, <1>2, <1>3, CarryOver
<1>5. CASE Listen \/ Shutdown
  <2>1. /\ UNCHANGED <<generating, wire>>
        /\ link' = link \/ (link = "open" /\ link' = "down")
    <3>1. CASE Listen
      BY <3>1 DEF Listen
    <3>2. CASE Shutdown
      BY <3>2 DEF Shutdown
    <3> QED
      BY <1>5, <3>1, <3>2
  <2>2. AnswersInv'
    BY <1>0, <1>3, <2>1 DEF AnswersInv
  <2> QED
    BY <1>0, <2>1, <2>2 DEF Served, FirstFrame
<1>6. CASE Accept
  <2>1. /\ link = "asked" /\ link' = "open"
        /\ wire' = <<[count |-> Len(asked.targets)]>>
        /\ generating' = DOMAIN asked.targets
    BY <1>6 DEF Accept
  <2>2. clientPc = "count"
    BY <2>1 DEF PreviewsInv, LinkInv
  <2>3. AnswersInv'
    <3>1. Len(wire') = 1
      BY <2>1
    <3>2. Cardinality(generating') = Len(asked.targets) /\ Len(asked.targets) \in Nat
      <4>1. Len(asked.targets) \in Nat /\ generating' = 1..Len(asked.targets)
        BY <2>1, Counts
      <4>2. Cardinality(1..Len(asked.targets)) = Len(asked.targets)
        BY <4>1, FS_Interval
      <4> QED
        BY <4>1, <4>2
    <3>3. Len(asked'.targets) = Len(asked.targets)
      BY <1>0
    <3> QED
      BY <1>0, <2>2, <3>1, <3>2, <3>3 DEF AnswersInv
  <2>4. ASSUME NEW i \in DOMAIN targets, Served(i) PROVE Served(i)'
    <3>1. asked.targets = targets
      BY <2>4 DEF Served, PreviewsInv, ClientInv
    <3> QED
      BY <1>0, <2>1, <2>4, <3>1 DEF Served
  <2> QED
    BY <2>3, <2>4
<1>7. CASE Deliver
  <2> PICK j \in generating :
         /\ wire' = Append(wire, Rendered(asked.targets[j], asked.config))
         /\ generating' = generating \ {j}
    BY <1>7 DEF Deliver
  <2>0. link = "open" /\ link' = "open"
    BY <1>7 DEF Deliver
  <2> DEFINE p == Rendered(asked.targets[j], asked.config)
  <2>1. /\ Len(wire') = Len(wire) + 1 /\ Len(wire) \in Nat
        /\ \A n \in 1..Len(wire) : wire'[n] = wire[n]
        /\ wire'[Len(wire) + 1] = p
    BY SeqAppend, SeqLen DEF PreviewsInv, WireInv
  <2>2. p.target = asked.targets[j] /\ p.hasPreview = (asked.targets[j] \notin Unrenderable)
    BY DEF Rendered
  <2>3. AnswersInv'
    <3>1. Cardinality(generating') = Cardinality(generating) - 1
          /\ Cardinality(generating) \in Nat
      BY Counts, FS_RemoveElement
    <3>2. Len(asked.targets) \in Nat /\ processed \in Nat
      BY Counts
    <3>3. Len(wire') + Cardinality(generating') = Len(wire) + Cardinality(generating)
      BY <2>1, <3>1
    <3>4. processed + Len(wire') + Cardinality(generating')
            = processed + Len(wire) + Cardinality(generating)
      BY <2>1, <3>1, <3>2
    <3> QED
      BY <1>0, <1>3, <2>0, <3>3, <3>4 DEF AnswersInv
  <2>4. FirstFrame' = FirstFrame /\ Len(wire) + 1 >= FirstFrame
    <3>1. clientPc = "count" => Len(wire) >= 1
      BY <2>0, SeqLen, <2>1 DEF PreviewsInv, LinkInv, WireInv
    <3> QED
      BY <1>0, <2>1, <3>1 DEF FirstFrame
  <2>5. ASSUME NEW i \in DOMAIN targets, targets[i] \notin Unrenderable, Served(i)
        PROVE  Served(i)'
    <3>1. asked.targets = targets
      BY <2>5 DEF Served, PreviewsInv, ClientInv
    <3>2. CASE i = j
      <4>1. wire'[Len(wire) + 1].hasPreview /\ wire'[Len(wire) + 1].target = targets[i]
        BY <2>1, <2>2, <2>5, <3>1, <3>2
      <4>2. Len(wire) + 1 \in 1..Len(wire')
        BY <2>1
      <4> QED
        BY <1>0, <2>4, <2>5, <4>1, <4>2 DEF Served
    <3>3. CASE i # j
      <4>1. \A n \in 1..Len(wire) : n \in 1..Len(wire')
        BY <2>1
      <4> QED
        BY <1>0, <2>0, <2>1, <2>4, <2>5, <3>3, <4>1 DEF Served
    <3> QED
      BY <3>2, <3>3
  <2> QED
    BY <2>3, <2>5
<1>8. CASE Die
  <2>1. ~Unhurt'
    BY <1>8 DEF Die, Unhurt
  <2> QED
    BY <2>1 DEF AnswersInv
<1> QED
  BY <1>5, <1>6, <1>7, <1>8 DEF ServerStep

LEMMA ClientComplete ==
    ASSUME PreviewsInv, TypesInv, CompleteInv, ClientStep, UNCHANGED windowVars
    PROVE  CompleteInv'
<1> USE DEF CompleteInv
<1>0. UNCHANGED <<wanted, targets, previewResults>>
  BY Unchanged
<1>1. /\ Cardinality(generating) \in Nat
      /\ DOMAIN asked.targets = 1..Len(asked.targets) /\ Len(asked.targets) \in Nat
      /\ Len(wire) \in Nat /\ processed \in Nat
  BY Counts
<1>2. /\ IsSeq(events) /\ IsSeq(wire) /\ IsSeq(requests) /\ Len(events) \in Nat
      /\ EventsInv
      /\ Len(requests) \in Nat /\ wanted \in Nat
  BY SeqLen DEF PreviewsInv, EventsInv, WireInv, RequestsInv
<1>3. CASE StartRequest
  <2>1. CASE Head(requests).targets # <<>> /\ server = "up"
    <3>1. /\ clientPc = "idle" /\ clientPc' = "count" /\ link' = "asked"
          /\ requests # <<>> /\ requests' = Tail(requests)
          /\ asked' = Head(requests)
          /\ UNCHANGED <<events, failed, clientGeneration, server>>
      BY <1>3, <2>1 DEF StartRequest
    <3>2. Len(requests) >= 1 /\ Len(requests') = Len(requests) - 1 /\ IsSeq(requests')
      BY <1>2, <3>1, SeqTail
    <3>3. asked'.config = wanted - Len(requests) + 1
      <4>1. Head(requests) = requests[1]
        BY <1>2, <3>1, SeqTail
      <4> QED
        BY <1>2, <3>1, <3>2, <4>1 DEF PreviewsInv, RequestsInv
    <3>4. GenerationInv'
      BY <1>0, <3>1, <3>3 DEF GenerationInv
    <3>5. AnswersInv'
      BY <3>1 DEF AnswersInv
    <3>6. SomewhereInv'
      <4>1. ASSUME requests' = <<>>, NEW i PROVE Served(i)'
        <5>1. asked'.config = wanted
          <6>1. Len(requests') = 0
            BY <3>2, <4>1, SeqLen
          <6> QED
            BY <1>2, <3>2, <3>3, <6>1
        <5> QED
          BY <1>0, <3>1, <5>1 DEF Served
      <4> QED
        BY <4>1 DEF SomewhereInv
    <3> QED
      BY <3>4, <3>5, <3>6
  <2>2. CASE ~(Head(requests).targets # <<>> /\ server = "up")
    <3>1. failed' = TRUE
      BY <1>3, <2>2 DEF StartRequest
    <3> QED
      BY <3>1 DEF GenerationInv, AnswersInv, SomewhereInv, Unhurt
  <2> QED
    BY <2>1, <2>2
<1>4. CASE ReadCount
  <2>1. /\ clientPc = "count" /\ clientPc' = "read"
        /\ wire # <<>> /\ wire' = Tail(wire)
        /\ clientGeneration' = clientGeneration + 1
        /\ processed' = 0
        /\ UNCHANGED <<requests, events, failed, server, link, asked, generating>>
    BY <1>4 DEF ReadCount
  <2>2. /\ Len(wire') = Len(wire) - 1
        /\ \A n \in 1..Len(wire) - 1 : wire'[n] = wire[n + 1]
    BY <1>2, <2>1, SeqTail
  <2>3. GenerationInv'
    BY <1>0, <2>1 DEF GenerationInv
  <2>4. AnswersInv'
    <3>1. link # "asked"
      BY <2>1 DEF PreviewsInv, LinkInv
    <3>2. Unhurt' => Unhurt
      BY <2>1 DEF Unhurt
    <3>3. Unhurt' => Len(wire) + Cardinality(generating) = Len(asked.targets) + 1
      BY <2>1, <3>1, <3>2 DEF AnswersInv
    <3>4. Unhurt' => processed' + Len(wire') + Cardinality(generating) = Len(asked.targets)
      BY <1>1, <2>1, <2>2, <3>3
    <3> QED
      BY <2>1, <3>4 DEF AnswersInv
  <2>5. SomewhereInv'
    <3>1. ASSUME NEW i \in DOMAIN targets, Served(i) PROVE Served(i)'
      <4>1. asked'.config = wanted' /\ clientPc' # "idle" /\ FirstFrame = 2 /\ FirstFrame' = 1
        BY <1>0, <2>1, <3>1 DEF Served, FirstFrame
      <4>2. CASE link = "asked" \/ i \in generating
        BY <2>1, <4>1, <4>2 DEF Served
      <4>3. ASSUME NEW n \in 1..Len(wire), n >= FirstFrame, wire[n].hasPreview,
                   wire[n].target = targets[i]
            PROVE  Served(i)'
        <5>1. n - 1 \in 1..Len(wire') /\ n - 1 \in 1..Len(wire) - 1 /\ n - 1 >= 1
              /\ (n - 1) + 1 = n
          BY <1>1, <2>2, <4>1, <4>3
        <5>2. wire'[n - 1] = wire[n]
          BY <2>2, <5>1
        <5> QED
          BY <1>0, <4>1, <4>3, <5>1, <5>2 DEF Served
      <4> QED
        BY <3>1, <4>2, <4>3 DEF Served
    <3>2. MessagesKept /\ (Unhurt' => Unhurt)
      BY <1>2, <2>1, MessagesKeptBy DEF Unhurt
    <3> QED
      BY <1>0, <2>1, <3>1, <3>2, CarryOver
  <2> QED
    BY <2>3, <2>4, <2>5
<1>5. CASE MissCount
  <2>1. failed' = TRUE
    BY <1>5 DEF MissCount
  <2> QED
    BY <2>1 DEF GenerationInv, AnswersInv, SomewhereInv, Unhurt
<1>6. CASE ReadPreview
  <2> DEFINE e == Received(Head(wire))
  <2>1. /\ clientPc = "read" /\ clientPc' = "read"
        /\ wire # <<>> /\ wire' = Tail(wire)
        /\ events' = Append(events, e)
        /\ processed' = processed + 1
        /\ UNCHANGED <<requests, clientGeneration, failed, server, link, asked, generating>>
    BY <1>6 DEF ReadPreview
  <2>2. /\ Len(wire) >= 1 /\ Len(wire') = Len(wire) - 1
        /\ \A n \in 1..Len(wire) - 1 : wire'[n] = wire[n + 1]
        /\ Head(wire) = wire[1]
    BY <1>2, <2>1, SeqTail
  <2>3. e.what = "received" /\ e.preview = Head(wire) /\ e.generation = clientGeneration
    BY DEF Received
  <2>4. Head(wire).config = asked.config
    BY <2>1, <2>2 DEF PreviewsInv, WireInv, FirstFrame, IsFrame
  <2> HIDE DEF e
  <2>5. /\ Len(events') = Len(events) + 1
        /\ \A n \in 1..Len(events) : events'[n] = events[n]
        /\ events'[Len(events) + 1] = e
    BY <1>2, <2>1, SeqAppend
  <2>6. GenerationInv'
    <3>1. ASSUME ~failed, NEW n \in 1..Len(events'), events'[n].what = "received"
          PROVE  events'[n].generation = events'[n].preview.config + 1
      <4>1. CASE n \in 1..Len(events)
        BY <2>5, <3>1, <4>1 DEF GenerationInv
      <4>2. CASE n = Len(events) + 1
        BY <2>1, <2>3, <2>4, <2>5, <3>1, <4>2 DEF GenerationInv
      <4> QED
        BY <1>2, <2>5, <4>1, <4>2
    <3> QED
      BY <1>0, <2>1, <3>1 DEF GenerationInv
  <2>7. AnswersInv'
    <3>1. processed' + Len(wire') + Cardinality(generating)
            = processed + Len(wire) + Cardinality(generating)
      BY <1>1, <2>1, <2>2
    <3> QED
      BY <2>1, <3>1 DEF AnswersInv, Unhurt
  <2>8. SomewhereInv'
    <3>1. ASSUME NEW i \in DOMAIN targets, Served(i) PROVE Served(i)' \/ OnItsWay(targets[i])'
      <4>1. asked.config = wanted /\ FirstFrame = 1 /\ FirstFrame' = 1
        BY <2>1, <3>1 DEF Served, FirstFrame
      <4>2. CASE link = "asked" \/ i \in generating
        BY <1>0, <2>1, <4>1, <4>2 DEF Served
      <4>3. ASSUME NEW n \in 1..Len(wire), wire[n].hasPreview, wire[n].target = targets[i]
            PROVE  Served(i)' \/ OnItsWay(targets[i])'
        <5>1. CASE n = 1
          <6>1. Carries(e, targets[i])
            BY <2>2, <2>3, <2>4, <4>1, <4>3, <5>1 DEF Carries
          <6>2. Len(events) + 1 \in 1..Len(events')
            BY <1>2, <2>5
          <6> QED
            BY <1>0, <2>5, <6>1, <6>2 DEF OnItsWay, Carries
        <5>2. CASE n # 1
          <6>1. n - 1 \in 1..Len(wire') /\ n - 1 \in 1..Len(wire) - 1 /\ n - 1 >= 1
                /\ (n - 1) + 1 = n
            BY <1>1, <2>2, <4>3, <5>2
          <6>2. wire'[n - 1] = wire[n]
            BY <2>2, <6>1
          <6> QED
            BY <1>0, <2>1, <4>1, <4>3, <6>1, <6>2 DEF Served
        <5> QED
          BY <5>1, <5>2
      <4> QED
        BY <3>1, <4>2, <4>3 DEF Served
    <3>2. MessagesKept /\ (Unhurt' => Unhurt)
      BY <1>2, <2>1, MessagesKeptBy DEF Unhurt
    <3> QED
      BY <1>0, <2>1, <3>1, <3>2, CarryOver
  <2> QED
    BY <2>6, <2>7, <2>8
<1>7. CASE ReadNothing
  <2> DEFINE e == Received(NoPreview(asked.config))
  <2>1. /\ clientPc = "read"
        /\ processed < Len(asked.targets) /\ wire = <<>> /\ link = "down"
        /\ events' = Append(events, e)
        /\ UNCHANGED <<requests, clientPc, clientGeneration, failed, asked, server>>
    BY <1>7 DEF ReadNothing, serverVars
  <2>2. ~Unhurt
    <3>1. Len(wire) = 0
      BY <1>2, <2>1, SeqLen
    <3>2. generating = {}
      BY <2>1 DEF PreviewsInv, LinkInv
    <3>3. Cardinality(generating) = 0
      BY <3>2, FS_EmptySet
    <3> QED
      BY <1>1, <2>1, <3>1, <3>3 DEF AnswersInv
  <2>3. ~Unhurt'
    BY <2>1, <2>2 DEF Unhurt
  <2>4. e.what = "received" /\ e.preview.config = asked.config /\ e.generation = clientGeneration
    BY DEF Received, NoPreview
  <2> HIDE DEF e
  <2>5. /\ Len(events') = Len(events) + 1
        /\ \A n \in 1..Len(events) : events'[n] = events[n]
        /\ events'[Len(events) + 1] = e
    BY <1>2, <2>1, SeqAppend
  <2>6. GenerationInv'
    <3>1. ASSUME ~failed, NEW n \in 1..Len(events'), events'[n].what = "received"
          PROVE  events'[n].generation = events'[n].preview.config + 1
      <4>1. CASE n \in 1..Len(events)
        BY <2>5, <3>1, <4>1 DEF GenerationInv
      <4>2. CASE n = Len(events) + 1
        BY <2>1, <2>4, <2>5, <3>1, <4>2 DEF GenerationInv
      <4> QED
        BY <1>2, <2>5, <4>1, <4>2
    <3> QED
      BY <1>0, <2>1, <3>1 DEF GenerationInv
  <2> QED
    BY <2>3, <2>6 DEF AnswersInv, SomewhereInv
<1>8. CASE FinishRequest
  <2>1. /\ clientPc = "read" /\ clientPc' = "idle"
        /\ \/ processed = Len(asked.targets)
           \/ processed < Len(asked.targets) /\ wire = <<>> /\ link = "down"
        /\ \/ events' = Append(events, Finished)
           \/ events' = events \o <<Error, Finished>>
        /\ UNCHANGED <<requests, clientGeneration, failed, server, asked>>
    BY <1>8 DEF FinishRequest
  <2>2. Unhurt => generating = {} /\ Len(wire) = 0
    <3>1. SUFFICES ASSUME Unhurt PROVE Cardinality(generating) = 0 /\ Len(wire) = 0
      BY Counts, FS_EmptySet
    <3>2. processed + Len(wire) + Cardinality(generating) = Len(asked.targets)
      BY <2>1, <3>1 DEF AnswersInv
    <3>3. CASE processed = Len(asked.targets)
      BY <1>1, <3>2, <3>3
    <3>4. CASE processed < Len(asked.targets) /\ wire = <<>> /\ link = "down"
      <4>1. generating = {}
        BY <3>4 DEF PreviewsInv, LinkInv
      <4> QED
        BY <1>2, <3>4, <4>1, FS_EmptySet, SeqLen
    <3> QED
      BY <2>1, <3>3, <3>4
  <2>3. \A n \in 1..Len(events') :
           \/ events'[n].what # "received"
           \/ n \in 1..Len(events) /\ events'[n] = events[n]
    <3>1. Finished.what = "finished" /\ Error.what = "error"
      BY DEF Finished, Error
    <3>2. CASE events' = Append(events, Finished)
      <4>1. /\ Len(events') = Len(events) + 1
            /\ \A n \in 1..Len(events) : events'[n] = events[n]
            /\ events'[Len(events) + 1] = Finished
        BY <1>2, <3>2, SeqAppend
      <4>2. \A n \in 1..Len(events') : n \in 1..Len(events) \/ n = Len(events) + 1
        BY <1>2, <4>1
      <4> QED
        BY <3>1, <4>1, <4>2
    <3>3. CASE events' = events \o <<Error, Finished>>
      <4>1. IsSeq(<<Error, Finished>>) /\ Len(<<Error, Finished>>) = 2
        BY SeqTuple
      <4>2. /\ Len(events') = Len(events) + 2
            /\ \A n \in 1..Len(events) : events'[n] = events[n]
            /\ \A n \in 1..2 : events'[Len(events) + n] = <<Error, Finished>>[n]
        BY <1>2, <3>3, <4>1, SeqConcat
      <4>3. events'[Len(events) + 1] = Error /\ events'[Len(events) + 2] = Finished
        BY <4>2
      <4>4. \A n \in 1..Len(events') :
               n \in 1..Len(events) \/ n = Len(events) + 1 \/ n = Len(events) + 2
        BY <1>2, <4>2
      <4> QED
        BY <3>1, <4>2, <4>3, <4>4
    <3> QED
      BY <2>1, <3>2, <3>3
  <2>4. GenerationInv'
    <3>1. ~failed => clientGeneration = wanted - Len(requests) + 1
      <4>1. asked.config = wanted - Len(requests)
        BY <2>1 DEF PreviewsInv, ClientInv
      <4> QED
        BY <2>1, <4>1 DEF GenerationInv
    <3>2. ~failed => \A n \in 1..Len(events') :
             events'[n].what = "received" => events'[n].generation = events'[n].preview.config + 1
      BY <2>3 DEF GenerationInv
    <3> QED
      BY <1>0, <2>1, <3>1, <3>2 DEF GenerationInv
  <2>5. AnswersInv'
    BY <2>1 DEF AnswersInv
  <2>6. SomewhereInv'
    <3>1. ASSUME Unhurt, NEW i, Served(i) PROVE FALSE
      <4>1. link # "asked"
        BY <2>1 DEF PreviewsInv, LinkInv
      <4> QED
        BY <2>2, <3>1, <4>1 DEF Served
    <3>2. MessagesKept
      <4>1. IsSeq(<<Error, Finished>>)
        BY SeqTuple
      <4> QED
        BY <1>2, <2>1, <4>1, MessagesKeptBy
    <3>3. Unhurt' => Unhurt
      BY <2>1 DEF Unhurt
    <3> QED
      BY <1>0, <2>1, <3>1, <3>2, <3>3, CarryOver
  <2> QED
    BY <2>4, <2>5, <2>6
<1> QED
  BY <1>3, <1>4, <1>5, <1>6, <1>7, <1>8 DEF ClientStep

\* What a handler of the window does to the messages and the requests.
Unasked == UNCHANGED <<wanted, coordinatorVars, requests>>
Asked ==
    \E res, f, spin, pages :
        IsSeq(pages) /\ pages # <<>> /\ MakePreviews(res, f, spin, pages)

LEMMA PageAsked ==
    ASSUME NEW f, NEW spin, NEW p, MakePage(f, spin, p) \/ MakeNone(spin)
    PROVE  Unasked \/ Asked
<1>1. CASE MakeNone(spin)
  BY <1>1 DEF MakeNone, Unasked
<1>2. CASE MakePreviews(results, f, spin, WithNested(results, f, spin, p))
  <2>1. \/ WithNested(results, f, spin, p) = <<p>>
        \/ WithNested(results, f, spin, p) = <<NumPages(results, f), p>>
    BY DEF WithNested
  <2>2. IsSeq(<<p>>) /\ IsSeq(<<NumPages(results, f), p>>)
    BY SeqTuple
  <2>3. <<p>> # <<>> /\ <<NumPages(results, f), p>> # <<>>
    OBVIOUS
  <2>4. WithNested(results, f, spin, p) # <<>> /\ IsSeq(WithNested(results, f, spin, p))
    BY <2>1, <2>2, <2>3, Zenon
  <2> QED
    BY <1>2, <2>4 DEF Asked
<1> QED
  BY <1>1, <1>2 DEF MakePage

LEMMA WindowMoves ==
    ASSUME EventsInv, UserStep \/ EventStep
    PROVE  HandleReceived \/ (NoNewPreview /\ MessagesKept /\ (Unasked \/ Asked))
<1>1. CASE Search \/ SearchFails
  <2>1. events' = events /\ Unasked
    BY <1>1 DEF Search, SearchFails, Unasked
  <2> QED
    BY <2>1, EventsKept, MessagesKeptBy
<1>2. CASE TurnPage \/ Scale \/ SwitchTab
  <2>1. events' = events
    BY <1>2 DEF TurnPage, Scale, SwitchTab
  <2>2. \E p : MakePage(file, p, p) \/ MakeNone(p)
    BY <1>2 DEF TurnPage, Scale, SwitchTab
  <2> QED
    BY <2>1, <2>2, EventsKept, MessagesKeptBy, PageAsked
<1>3. CASE SelectFile
  <2>1. events' = Append(events, ComboChanged) /\ ComboChanged.what # "received" /\ Unasked
    BY <1>3 DEF SelectFile, ComboChanged, Unasked
  <2> QED
    BY <2>1, EventsKept, MessagesKeptBy
<1>4. CASE SearchDone
  <2>1. NoNewPreview
    BY <1>4, SearchDoneMessages
  <2>2. MessagesKept
    <3> PICK t \in {<<ComboChanged>>, <<ComboChanged, ComboChanged>>} : events' = events \o t
      BY <1>4 DEF SearchDone
    <3>1. IsSeq(t)
      BY SeqTuple
    <3> QED
      BY <3>1, MessagesKeptBy
  <2>3. Unasked \/ Asked
    <3> PICK res \in ResultLists \cup {<<>>} :
          LET spun == IF pageNumber # 1 /\ res # <<>> THEN <<1>> ELSE <<>>
              direct == IF active /\ res # <<>> THEN <<1>> ELSE <<>>
          IN IF spun \o direct = <<>>
             THEN UNCHANGED <<coordinatorVars, requests, wanted>>
             ELSE MakePreviews(res, "all", 1, spun \o direct)
      BY <1>4 DEF SearchDone
    <3> DEFINE spun == IF pageNumber # 1 /\ res # <<>> THEN <<1>> ELSE <<>>
               direct == IF active /\ res # <<>> THEN <<1>> ELSE <<>>
    <3>1. CASE spun \o direct = <<>>
      BY <3>1 DEF Unasked
    <3>2. CASE spun \o direct # <<>>
      <4>1. MakePreviews(res, "all", 1, spun \o direct)
        BY <3>2
      <4>2. IsSeq(spun \o direct)
        <5>1. IsSeq(spun) /\ IsSeq(direct)
          BY SeqTuple
        <5> QED
          BY <5>1, SeqConcat
      <4> HIDE DEF spun, direct
      <4> QED
        BY <3>2, <4>1, <4>2 DEF Asked
    <3> QED
      BY <3>1, <3>2
  <2> QED
    BY <2>1, <2>2, <2>3
<1>5. CASE HandleReady \/ HandleFinished \/ HandleError
  <2>1. events # <<>> /\ Head(events).what # "received" /\ events' = Tail(events) /\ Unasked
    BY <1>5 DEF HandleReady, HandleFinished, HandleError, NextEvent, Unasked
  <2> QED
    BY <2>1, EventsKept, MessagesKeptBy
<1>6. CASE HandleCombo
  <2>1. events # <<>> /\ Head(events).what # "received" /\ events' = Tail(events)
    BY <1>6 DEF HandleCombo, NextEvent
  <2>2. MakePage(file, pageNumber, 1) \/ MakeNone(pageNumber)
    BY <1>6 DEF HandleCombo
  <2> QED
    BY <2>1, <2>2, EventsKept, MessagesKeptBy, PageAsked
<1> QED
  BY <1>1, <1>2, <1>3, <1>4, <1>5, <1>6 DEF UserStep, EventStep

LEMMA UnaskedComplete ==
    ASSUME PreviewsInv, CompleteInv, OthersWait, NoNewPreview, MessagesKept, Unasked
    PROVE  CompleteInv'
<1>0. /\ UNCHANGED <<wanted, targets, previewResults, requests, asked, generating, wire, link>>
      /\ UNCHANGED <<server, clientPc, clientGeneration, processed, failed>>
  BY DEF Unasked, coordinatorVars, OthersWait, serverVars
<1>1. GenerationInv'
  BY <1>0 DEF CompleteInv, GenerationInv, NoNewPreview
<1>2. AnswersInv'
  BY <1>0 DEF CompleteInv, AnswersInv, Unhurt
<1>3. SomewhereInv'
  <2>1. (Unhurt' => Unhurt) /\ \A i : Served(i) => Served(i)'
    BY <1>0 DEF Unhurt, Served, FirstFrame
  <2> QED
    BY <1>0, <2>1, CarryOver DEF CompleteInv
<1> QED
  BY <1>1, <1>2, <1>3 DEF CompleteInv

LEMMA AskedComplete ==
    ASSUME PreviewsInv, CompleteInv, OthersWait, NoNewPreview, Asked
    PROVE  CompleteInv'
<1> PICK res, f, spin, pages :
      IsSeq(pages) /\ pages # <<>> /\ MakePreviews(res, f, spin, pages)
  BY DEF Asked
<1> DEFINE calls == [k \in 1..Len(pages) |->
                        [targets |-> PageOf(res, f, pages[k]), config |-> wanted + k]]
<1>0. /\ UNCHANGED <<asked, generating, wire, link>>
      /\ UNCHANGED <<server, clientPc, clientGeneration, processed, failed>>
      /\ wanted' = wanted + Len(pages)
      /\ requests' = requests \o calls
  BY DEF OthersWait, serverVars, MakePreviews
<1>1. /\ Len(pages) \in Nat /\ Len(pages) >= 1
      /\ Len(requests) \in Nat /\ IsSeq(requests) /\ wanted \in Nat
  BY SeqLen DEF PreviewsInv, RequestsInv
<1>2. IsSeq(calls) /\ Len(calls) = Len(pages)
  <2>1. calls \in Seq({calls[i] : i \in 1..Len(pages)})
    BY <1>1
  <2>2. Len(calls) = Len(pages)
    BY <1>1
  <2> QED
    BY <2>1, <2>2, SeqOf
<1> HIDE DEF calls
<1>3. Len(requests') = Len(requests) + Len(pages) /\ requests' # <<>>
  <2>1. IsSeq(requests') /\ Len(requests') = Len(requests) + Len(pages)
    BY <1>0, <1>1, <1>2, SeqConcat
  <2> QED
    BY <1>1, <2>1, SeqLen
<1>4. wanted' - Len(requests') = wanted - Len(requests)
  BY <1>0, <1>1, <1>3
<1>5. GenerationInv'
  BY <1>0, <1>4 DEF CompleteInv, GenerationInv, NoNewPreview
<1>6. AnswersInv'
  BY <1>0 DEF CompleteInv, AnswersInv, Unhurt
<1>7. SomewhereInv'
  BY <1>3 DEF SomewhereInv
<1> QED
  BY <1>5, <1>6, <1>7 DEF CompleteInv

\* A message of the last request is taken, and its preview kept.
LEMMA ReceivedComplete ==
    ASSUME PreviewsInv, TypesInv, CompleteInv, OthersWait, HandleReceived
    PROVE  CompleteInv'
<1> DEFINE e == Head(events)
           p == e.preview
<1>0. /\ events # <<>> /\ e.what = "received"
      /\ UNCHANGED <<wanted, generation, targets, requests>>
      /\ UNCHANGED <<asked, generating, wire, link>>
      /\ UNCHANGED <<server, clientPc, clientGeneration, processed, failed>>
      /\ events' = Tail(events) \/ events' = Append(Tail(events), PreviewReady)
  BY DEF HandleReceived, NextEvent, OthersWait, serverVars
<1>1. /\ IsSeq(events) /\ Len(events) \in Nat /\ Len(events) >= 1
      /\ IsSeq(Tail(events)) /\ Len(Tail(events)) = Len(events) - 1
      /\ \A n \in 1..Len(events) - 1 : Tail(events)[n] = events[n + 1]
      /\ e = events[1]
  BY <1>0, SeqTail, SeqLen DEF PreviewsInv, EventsInv
<1>2. /\ \A n \in 1..Len(events) - 1 : n \in 1..Len(events') /\ events'[n] = events[n + 1]
      /\ \A n \in 1..Len(events') :
            n \in 1..Len(events) - 1 \/ events'[n].what # "received"
  <2>1. CASE events' = Tail(events)
    BY <1>1, <2>1
  <2>2. CASE events' = Append(Tail(events), PreviewReady)
    <3>1. /\ Len(events') = Len(events)
          /\ \A n \in 1..Len(events) - 1 : events'[n] = events[n + 1]
          /\ events'[Len(events)] = PreviewReady
      BY <1>1, <2>2, SeqAppend
    <3>2. /\ \A n \in 1..Len(events) - 1 : n \in 1..Len(events')
          /\ \A n \in 1..Len(events') : n \in 1..Len(events) - 1 \/ n = Len(events)
      BY <1>1, <3>1
    <3> QED
      BY <3>1, <3>2 DEF PreviewReady
  <2> QED
    BY <1>0, <2>1, <2>2
<1>3. GenerationInv'
  <2>1. ASSUME ~failed, NEW n \in 1..Len(events'), events'[n].what = "received"
        PROVE  events'[n].generation = events'[n].preview.config + 1
    <3>1. n + 1 \in 1..Len(events) /\ events'[n] = events[n + 1]
      BY <1>1, <1>2, <2>1
    <3> QED
      BY <2>1, <3>1 DEF CompleteInv, GenerationInv
  <2> QED
    BY <1>0, <2>1 DEF CompleteInv, GenerationInv
<1>4. AnswersInv'
  BY <1>0 DEF CompleteInv, AnswersInv, Unhurt
<1>5. SomewhereInv'
  <2> SUFFICES ASSUME Unhurt, requests = <<>>, NEW i \in DOMAIN targets,
                      targets[i] \notin Unrenderable
               PROVE  Kept(targets[i])' \/ OnItsWay(targets[i])' \/ Served(i)'
    BY <1>0 DEF SomewhereInv, Unhurt
  <2>1. Kept(targets[i]) \/ OnItsWay(targets[i]) \/ Served(i)
    BY DEF CompleteInv, SomewhereInv
  <2>2. CASE Kept(targets[i])
    <3>1. DOMAIN previewResults \subseteq DOMAIN previewResults'
      BY DEF HandleReceived
    <3> QED
      BY <1>0, <2>2, <3>1 DEF Kept
  <2>3. CASE Served(i)
    BY <1>0, <2>3 DEF Served, FirstFrame
  <2>4. ASSUME NEW n \in 1..Len(events), Carries(events[n], targets[i]), n # 1
        PROVE  OnItsWay(targets[i])'
    <3>1. n - 1 \in 1..Len(events) - 1 /\ (n - 1) + 1 = n
      BY <1>1, <2>4
    <3>2. n - 1 \in 1..Len(events') /\ events'[n - 1] = events[n]
      BY <1>2, <3>1
    <3> QED
      BY <1>0, <2>4, <3>2 DEF OnItsWay, Carries
  <2>5. CASE Carries(e, targets[i])
    <3>1. p.hasPreview /\ p.target = targets[i] /\ p.config = wanted
      BY <2>5 DEF Carries
    <3>2. e.generation = p.config + 1
      BY <1>0, <1>1 DEF CompleteInv, GenerationInv, Unhurt
    <3>3. Takes(p, e.generation)
      <4>1. generation = wanted + 1 /\ wanted \in Nat
        BY DEF PreviewsInv, RequestsInv
      <4>2. e.generation >= generation
        BY <3>1, <3>2, <4>1
      <4> QED
        BY <3>1, <4>2 DEF Takes
    <3>4. DOMAIN previewResults' = DOMAIN previewResults \cup {PositionOf(p)}
      BY <3>3 DEF HandleReceived
    <3>5. PositionOf(p) \in DOMAIN targets /\ KeyOf[targets[PositionOf(p)]] = KeyOf[p.target]
      BY <3>1, Placed DEF TypesInv, RequestTypes
    <3> HIDE DEF p, e
    <3> QED
      BY <1>0, <3>1, <3>4, <3>5 DEF Kept
  <2> QED
    BY <1>1, <2>1, <2>2, <2>3, <2>4, <2>5 DEF OnItsWay
<1> QED
  BY <1>3, <1>4, <1>5 DEF CompleteInv

LEMMA CompleteNext == PreviewsInv /\ TypesInv /\ CompleteInv /\ [Next]_vars => CompleteInv'
<1> SUFFICES ASSUME PreviewsInv, TypesInv, CompleteInv, [Next]_vars PROVE CompleteInv'
  OBVIOUS
<1>1. CASE Server \/ Death
  BY <1>1, ServerComplete DEF Server, Death
<1>2. CASE Client
  BY <1>2, ClientComplete DEF Client
<1>3. CASE Window \/ User
  <2>1. OthersWait /\ EventsInv /\ (UserStep \/ EventStep)
    BY <1>3 DEF Window, User, OthersWait, PreviewsInv
  <2> QED
    BY <2>1, WindowMoves, UnaskedComplete, AskedComplete, ReceivedComplete
<1>4. CASE UNCHANGED vars
  <2>1. OthersWait /\ events' = events /\ Unasked
    BY <1>4 DEF vars, OthersWait, clientVars, Unasked, windowVars
  <2> QED
    BY <2>1, EventsKept, MessagesKeptBy, UnaskedComplete DEF PreviewsInv
<1> QED
  BY <1>1, <1>2, <1>3, <1>4 DEF Next

\* If no request was given up and the server lives, then the coordinator has, once
\* everything has come to rest, a current preview of every target of the page that can be
\* rendered and shares its key with no other; and of those that share one, of one of them:
\* for any overlap of generations (IPCPreviewClient::start,
\* PreviewCoordinator::startGeneration, handleReceivedPreview).
THEOREM CompleteAtRestCorrect == Spec => []CompleteAtRest
<1>1. PreviewsInv /\ TypesInv /\ KeptAtRank /\ CompleteInv => CompleteAtRest
  <2> SUFFICES ASSUME PreviewsInv, TypesInv, KeptAtRank, CompleteInv, Quiet, ~failed,
                      server = "up", NEW i \in DOMAIN targets,
                      targets[i] \notin Unrenderable
               PROVE  \E k \in DOMAIN previewResults :
                        /\ previewResults[k].config = wanted
                        /\ previewResults[k].target \in Sharing(i)
    BY DEF CompleteAtRest
  <2>1. Kept(targets[i]) \/ OnItsWay(targets[i]) \/ Served(i)
    BY DEF CompleteInv, SomewhereInv, Unhurt, Quiet
  <2>2. Len(events) = 0
    BY SeqLen DEF Quiet, PreviewsInv, EventsInv
  <2>3. ~OnItsWay(targets[i])
    BY <2>2 DEF OnItsWay
  <2>4. ~Served(i)
    BY DEF Served, Quiet
  <2>5. PICK k \in DOMAIN targets :
          KeyOf[targets[k]] = KeyOf[targets[i]] /\ k \in DOMAIN previewResults
    BY <2>1, <2>3, <2>4 DEF Kept
  <2>6. IsCurrent(previewResults[k]) /\ previewResults[k].target \in Target
    BY <2>5 DEF PreviewsInv, ScreenInv, TypesInv, ResultTypes, Preview
  <2>7. KeyOf[previewResults[k].target] = KeyOf[targets[k]]
    BY <2>5 DEF KeptAtRank
  <2> QED
    BY <2>5, <2>6, <2>7 DEF IsCurrent, Sharing
<1>2. Spec => [](PreviewsInv /\ TypesInv)
  BY TypesInit, TypesNext, PreviewsInvCorrect, PTL DEF Spec
<1>3. Spec => []CompleteInv
  BY <1>2, CompleteInit, CompleteNext, PTL DEF Spec
<1> QED
  BY <1>1, <1>2, <1>3, KeptAtRankCorrect, PTL
=============================================================================
