--------------------------- MODULE PreviewWindow ---------------------------
(***************************************************************************)
(* The GUI thread: PreviewCoordinator, and the part of MainWindow that     *)
(* searches and shows previews.  One event or click is one step, as in the *)
(* program's event loop.                                                   *)
(***************************************************************************)
EXTENDS PreviewClient, FiniteSets

CONSTANTS
    KeyOf,            \* path and page number written one after the other
    ResultLists,      \* previewable results a search may have, best first
    PerPage,          \* previewsPerPage
    MaxClicks         \* bound on what the user does

ASSUME WindowAssumption ==
    /\ DOMAIN KeyOf = Target
    /\ ResultLists \subseteq Seq(Target)
    /\ PerPage \in Nat \ {0}
    /\ MaxClicks \in Nat

VARIABLES
    results,          \* previewableSearchResults
    file,             \* comboPreviewFiles: "all" or a path; at first ""
    pageNumber,       \* value of spinPreviewPage
    maximum,          \* maximum of spinPreviewPage
    active,           \* the previews tab is the current one
    searching,        \* searchFuture is running
    searchEnabled,    \* txtSearch
    pagingEnabled,    \* spinPreviewPage, comboPreviewFiles
    generation,       \* currentPreviewGeneration of the coordinator
    targets,          \* keys of previewOrder, by position
    previewResults,   \* by position, where it is no nullptr
    layout,           \* the previews tab has a layout
    shown,            \* the previews in it
    crashed,          \* a null pointer was dereferenced
    clicks,           \* what the user did so far
    told,             \* history: an error was shown since the last startGeneration
    wanted            \* history: config of the last startGeneration

viewVars == <<results, file, pageNumber, maximum, active>>
enabledVars == <<searching, searchEnabled, pagingEnabled>>
coordinatorVars == <<generation, targets, previewResults>>
paneVars == <<layout, shown>>
windowVars == <<viewVars, enabledVars, coordinatorVars, paneVars, crashed, clicks, told, wanted>>

ComboChanged == [what |-> "combo"]
PreviewReady == [what |-> "ready"]
Files == {t.path : t \in Target}

\* The render targets of all pages: the results of the selected file, in their order.
Places(res, f) == {i \in DOMAIN res : f \in {"all", res[i].path}}
Selected(res, f) ==
    [n \in 1..Cardinality(Places(res, f)) |->
        res[CHOOSE i \in Places(res, f) : Cardinality(Places(res, f) \cap 1..i) = n]]
NumPages(res, f) == (Len(Selected(res, f)) + PerPage - 1) \div PerPage
\* targets.mid(beginOffset, length)
PageOf(res, f, p) ==
    LET from == (p - 1) * PerPage
        n == Len(Selected(res, f))
    IN  SubSeq(Selected(res, f), from + 1, IF from + PerPage < n THEN from + PerPage ELSE n)

\* setMaximum corrects the page number, which calls makePreviews of that page first.
WithNested(res, f, spin, p) ==
    IF spin > NumPages(res, f) THEN <<NumPages(res, f), p>> ELSE <<p>>

\* Slip: startGeneration does not count.
SameGeneration(n) == generation

\* startGeneration counts the generation and queues the request for the client.
NextGeneration(n) == generation + n

\* Slip: the previews of the last request are not deleted.
LeftThere(s) == s

\* qDeleteAll of what is in the pane.
Emptied(s) == <<>>

\* makePreviews of these pages, one after the other: a fresh layout, then
\* startGeneration, which queues the request for the client's thread.
MakePreviews(res, f, spin, pages) ==
    /\ generation' = NextGeneration(Len(pages))
    /\ targets' = PageOf(res, f, pages[Len(pages)])
    /\ previewResults' = <<>>
    /\ requests' = requests \o [k \in 1..Len(pages) |->
                        [targets |-> PageOf(res, f, pages[k]), config |-> wanted + k]]
    /\ wanted' = wanted + Len(pages)
    /\ layout' = TRUE
    /\ shown' = Emptied(shown)
    /\ searchEnabled' = FALSE
    /\ pagingEnabled' = FALSE
    /\ told' = FALSE
    /\ maximum' = NumPages(res, f)
    /\ pageNumber' = IF spin > NumPages(res, f) THEN NumPages(res, f) ELSE spin

MakeNone(spin) ==
    /\ pageNumber' = spin
    /\ UNCHANGED <<maximum, coordinatorVars, requests, wanted, paneVars, told>>

\* makePreviews(p) as a handler of its own.
MakePage(f, spin, p) ==
    IF results = <<>>
    THEN MakeNone(spin) /\ UNCHANGED <<searchEnabled, pagingEnabled>>
    ELSE MakePreviews(results, f, spin, WithNested(results, f, spin, p))

Click ==
    /\ ~crashed
    /\ clicks < MaxClicks
    /\ clicks' = clicks + 1

\* lineEditReturnPressed
Search ==
    /\ Click
    /\ searchEnabled
    /\ searching' = TRUE
    /\ searchEnabled' = FALSE
    /\ UNCHANGED <<viewVars, coordinatorVars, pagingEnabled, paneVars, crashed, told, wanted,
                   requests, events>>

\* The search is done: txtSearch is enabled and handleSearchResults runs.  It deletes
\* the layout; setValue(1) and clearing the combo box call makePreviews as well.
SearchDone ==
    /\ ~crashed
    /\ searching
    /\ searching' = FALSE
    /\ UNCHANGED <<crashed, clicks>>
    /\ file' = "all"
    /\ \E res \in ResultLists \cup {<<>>} :
        /\ results' = res
        /\ active' = (active /\ res # <<>>)
        /\ LET spun == IF pageNumber # 1 /\ res # <<>> THEN <<1>> ELSE <<>>
               direct == IF active /\ res # <<>> THEN <<1>> ELSE <<>>
           IN IF spun \o direct = <<>>
              THEN /\ layout' = FALSE
                   /\ shown' = <<>>
                   /\ pageNumber' = 1
                   /\ searchEnabled' = TRUE
                   /\ UNCHANGED <<maximum, coordinatorVars, requests, wanted, told,
                                  pagingEnabled>>
              ELSE MakePreviews(res, "all", 1, spun \o direct)
    /\ events' = events \o (IF file = "" THEN <<ComboChanged>>
                                         ELSE <<ComboChanged, ComboChanged>>)

\* The search threw: handleSearchError.
SearchFails ==
    /\ ~crashed
    /\ searching
    /\ searching' = FALSE
    /\ searchEnabled' = TRUE
    /\ UNCHANGED <<viewVars, pagingEnabled, coordinatorVars, paneVars, crashed, clicks, told,
                   wanted, requests, events>>

\* spinPreviewPageValueChanged
TurnPage ==
    /\ Click
    /\ active
    /\ pagingEnabled
    /\ \E p \in 1..maximum \ {pageNumber} : MakePage(file, p, p)
    /\ UNCHANGED <<results, file, active, searching, crashed, events>>

\* The user selects a file; the slot is queued.
SelectFile ==
    /\ Click
    /\ active
    /\ pagingEnabled
    /\ \E f \in {"all"} \cup {results[i].path : i \in DOMAIN results} :
        /\ f # file
        /\ file' = f
    /\ events' = Append(events, ComboChanged)
    /\ UNCHANGED <<results, pageNumber, maximum, active, enabledVars, coordinatorVars,
                   paneVars, crashed,
                   told, wanted, requests>>

\* comboScaleChanged: neither the tab nor a running generation is in its way.
Scale ==
    /\ Click
    /\ active
    /\ MakePage(file, pageNumber, pageNumber)
    /\ UNCHANGED <<results, file, active, searching, crashed, events>>

\* tabChanged; the tab can be opened when there is something to preview.
SwitchTab ==
    /\ Click
    /\ results # <<>>
    /\ active' = ~active
    /\ IF active THEN MakeNone(pageNumber) /\ UNCHANGED <<searchEnabled, pagingEnabled>>
                 ELSE MakePage(file, pageNumber, pageNumber)
    /\ UNCHANGED <<results, file, searching, crashed, events>>

UserStep == Search \/ TurnPage \/ SelectFile \/ Scale \/ SwitchTab
----------------------------------------------------------------------------
NextEvent(e) ==
    /\ ~crashed
    /\ events # <<>>
    /\ Head(events).what = e

\* Slip: previews of an older generation are taken.
TakeAny(p, g) == p.hasPreview

\* handleReceivedPreview takes what is not of an older generation.
Takes(p, g) == g >= generation /\ p.hasPreview

WithKey(p) == {i \in 1..Len(targets) : KeyOf[targets[i]] = KeyOf[p.target]}

\* Slip: positions start one too far.
OneTooFar(p) ==
    IF WithKey(p) = {} THEN 1
    ELSE (CHOOSE i \in WithKey(p) : \A k \in WithKey(p) : k <= i) + 1

\* previewOrder: the last target with a key has it; an unknown key gets the first place.
PositionOf(p) ==
    IF WithKey(p) = {} THEN 1
    ELSE CHOOSE i \in WithKey(p) : \A k \in WithKey(p) : k <= i

HandleReceived ==
    /\ NextEvent("received")
    /\ LET p == Head(events).preview IN
         IF Takes(p, Head(events).generation)
         THEN /\ previewResults' = [i \in DOMAIN previewResults \cup {PositionOf(p)} |->
                                    IF i = PositionOf(p) THEN p ELSE previewResults[i]]
              /\ events' = Append(Tail(events), PreviewReady)
         ELSE /\ UNCHANGED previewResults
              /\ events' = Tail(events)
    /\ UNCHANGED <<viewVars, enabledVars, generation, targets, paneVars, crashed, clicks,
                   told, wanted, requests>>

\* Where previewReceived inserts: the index of the last widget, if there is one.
InsertIndex == IF shown = <<>> THEN 0 ELSE Len(shown) - 1

\* insertWidget
Inserted(s, i, p) == SubSeq(s, 1, i) \o <<p>> \o SubSeq(s, i + 1, Len(s))

\* previewReceived, the queued slot of previewReady.
HandleReady ==
    /\ NextEvent("ready")
    /\ events' = Tail(events)
    /\ crashed' = ~layout
    /\ IF layout /\ InsertIndex + 1 \in DOMAIN previewResults
       THEN shown' = Inserted(shown, InsertIndex, previewResults[InsertIndex + 1])
       ELSE UNCHANGED shown
    /\ UNCHANGED <<viewVars, enabledVars, coordinatorVars, layout, clicks, told, wanted,
                   requests>>

\* Slip: completedGeneration enables the search line only.
EnableSearchOnly ==
    /\ NextEvent("finished")
    /\ events' = Tail(events)
    /\ searchEnabled' = TRUE
    /\ UNCHANGED <<viewVars, searching, pagingEnabled, coordinatorVars, paneVars, crashed,
                   clicks, told, wanted, requests>>

\* completedGeneration
HandleFinished ==
    /\ NextEvent("finished")
    /\ events' = Tail(events)
    /\ pagingEnabled' = TRUE
    /\ searchEnabled' = TRUE
    /\ UNCHANGED <<viewVars, searching, coordinatorVars, paneVars, crashed, clicks, told,
                   wanted, requests>>

\* The IPC error box.
HandleError ==
    /\ NextEvent("error")
    /\ events' = Tail(events)
    /\ told' = TRUE
    /\ UNCHANGED <<viewVars, enabledVars, coordinatorVars, paneVars, crashed, clicks, wanted,
                   requests>>

\* The queued slot of comboPreviewFiles.
HandleCombo ==
    /\ NextEvent("combo")
    /\ events' = Tail(events)
    /\ IF active THEN MakePage(file, pageNumber, 1)
                 ELSE MakeNone(pageNumber) /\ UNCHANGED <<searchEnabled, pagingEnabled>>
    /\ UNCHANGED <<results, file, active, searching, crashed, clicks>>

EventStep ==
    \/ SearchDone
    \/ SearchFails
    \/ HandleReceived
    \/ HandleReady
    \/ HandleFinished
    \/ HandleError
    \/ HandleCombo
=============================================================================
