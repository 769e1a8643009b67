----------------------------- MODULE SearchPage -----------------------------
(***************************************************************************)
(* One search and what is shown of it: the answer, and the preview of a    *)
(* text file among the results, with the words of the search marked. The   *)
(* search reads the index, the preview the file as it is on disk.          *)
(***************************************************************************)
EXTENDS Search, PlainTextPreview

CONSTANTS
    OnDisk,           \* the expressions and the text of the file that go together
    TextFile          \* the file of the index that the preview is of

ASSUME TextFileAssumption == TextFile \in Files
ASSUME OnDiskAssumption ==
    \A c \in OnDisk : c.expressions \subseteq Seq(Lexemes) /\ c.texts \subseteq Seq(SUBSET Vocabulary)
ASSUME WordsAssumption ==
    \A l \in Lexemes : l.kind \in {"word", "c"} =>
        l.value \subseteq Vocabulary /\ IsFiniteSet(l.value)

VARIABLES
    disk                  \* the lines of the text file

vars == <<searchVars, disk, readerVars>>

\* Slip: of each filter one word is taken.
FirstOnly(q) ==
    {<<CHOOSE w \in t.value : TRUE>> :
        t \in {q.tokens[i] : i \in {k \in DOMAIN q.tokens : q.tokens[k].type = ContentContains}}}

\* wordsToHighlight: the words of the content filters, filter by filter.
Orders(value) == Bijection(1..Cardinality(value), value)
Lengthened(lists, value) == UNION {{ws \o o : o \in Orders(value)} : ws \in lists}
WordsToHighlight(q) ==
    LET upTo[n \in 0..Len(q.tokens)] ==
            IF n = 0 THEN {<<>>}
            ELSE IF q.tokens[n].type = ContentContains
            THEN Lengthened(upTo[n - 1], q.tokens[n].value)
            ELSE upTo[n - 1]
    IN  upTo[Len(q.tokens)]

\* makePreviews and a worker, for the text file, when it is among the results.
MakePreview ==
    /\ answer.by = "line"
    /\ TextFile.path \in answer.result.files
    /\ \E ws \in WordsToHighlight(ContentQuery(LineQuery)) : OpenFile(disk, ws)
    /\ UNCHANGED <<searchVars, disk>>

Init ==
    /\ \E c \in OnDisk : expression \in c.expressions /\ disk \in c.texts
    /\ answer = NotAsked
    /\ ReaderInit

Next ==
    \/ SearchByCommand /\ UNCHANGED <<disk, readerVars>>
    \/ SearchByLine /\ UNCHANGED <<disk, readerVars>>
    \/ MakePreview
    \/ ReadLine /\ UNCHANGED <<searchVars, disk>>
    \/ EndOfText /\ UNCHANGED <<searchVars, disk>>
    \/ SortSnippets /\ UNCHANGED <<searchVars, disk>>

Spec == Init /\ [][Next]_vars
----------------------------------------------------------------------------
\* A text file that a search of the content finds, whose every c: must hold, and that still
\* has the words it was indexed with, gets a preview in which every word searched for is
\* counted: the words are those of the query that found it, and no line with one is passed
\* over (mainwindow.cpp:779-828, 937-953). Left out are words that a shorter one tears, and
\* words that end with *: the file is found without the star (sqlitesearch.cpp:80-85), and the
\* preview counts and marks the word with it, mostly never.
IndexedAs(page) ==
    page.words = UNION {disk[n] \cup UNION {Parts[v] : v \in disk[n]} : n \in DOMAIN disk}
LoneWordsAre ==
    IF Kinds \cap ContentKinds # {} /\ Kinds \cap PathKinds = {}
    THEN PathContains ELSE ContentContains
WordsMeant ==
    LET ts == Reading(expression, LoneWordsAre, {"sort"})
    IN  UNION {ts[i].value : i \in {k \in DOMAIN ts : ts[k].type = ContentContains}}
FoundMeansMarked ==
    /\ readerPc = "done"
    /\ TextFile.path \in RunQuery(ContentQuery(LineQuery)).files
    /\ Usable(ContentQuery(LineQuery).tokens)
    /\ \A page \in TextFile.pages : IndexedAs(page)
    => \A w \in WordsMeant \ DOMAIN Stripped :
          (\A i \in DOMAIN words : words[i] \notin Parts[w]) => Total(w) > 0
=============================================================================
