-------------------------- MODULE PlainTextPreview --------------------------
(***************************************************************************)
(* The preview of a text file: generateLineBasedPreviewText reads it line  *)
(* by line, puts the lines with a searched word and those around them into *)
(* snippets, marks and counts the words, and shows the best snippets.      *)
(*                                                                         *)
(* A line is the set of the words that stand in it, as escaped for HTML.   *)
(* No searched words overlap in part and case is left out.                 *)
(***************************************************************************)
EXTENDS Integers, Sequences, FiniteSets, FiniteSetsExt, Functions, Sums

CONSTANTS
    Vocabulary,       \* the words of the texts
    Parts,            \* the words that stand within a word
    Markup,           \* the words that stand in the tags that mark a word
    ContextLines,     \* contextLinesCount
    MaxSnippets       \* MAX_SNIPPETS

ASSUME VocabularyAssumption ==
    /\ Parts \in [Vocabulary -> SUBSET Vocabulary]
    /\ \A v \in Vocabulary : \A w \in Parts[v] : Parts[w] \subseteq Parts[v]
    /\ Markup \subseteq Vocabulary
ASSUME ContextLinesAssumption == ContextLines \in Nat \ {0}
ASSUME MaxSnippetsAssumption == MaxSnippets \in Nat

VARIABLES
    text,             \* the lines of the file on disk
    words,            \* config.wordsToHighlight
    readerPc,         \* "idle", "unreadable", "read", "sort", "done"
    lineCount,
    queue,            \* the LimitQueue: the lines to show should the next one match
    justRead,         \* justReadLinesCount
    current,          \* currentSnippet
    snippets

readerVars == <<text, words, readerPc, lineCount, queue, justRead, current, snippets>>

\* struct Snippet. An entry is a line and the number that is printed before it.
NoSnippet == [lines |-> <<>>, counts |-> [w \in Vocabulary |-> 0]]
Entry(number, line) == [number |-> number, line |-> line]

Occurs(w, n) == \E v \in text[n] : v = w \/ w \in Parts[v]

\* The place i of the list finds its word in line n when the words before it are marked:
\* a word within others is marked there, and tears them, if it stands nowhere alone;
\* the tags that mark a word have words too.
Hit(i, n) ==
    \/ /\ Occurs(words[i], n)
       /\ \A j \in 1..i - 1 : words[j] \in Parts[words[i]] => words[j] \in text[n]
    \/ words[i] \in Markup /\ \E j \in 1..i - 1 : Occurs(words[j], n)
HitsOn(n) == {i \in DOMAIN words : Hit(i, n)}

\* Slip: the map of the counts is not added to but set.
OneForEach(s, entries) ==
    [lines |-> s.lines \o entries,
     counts |-> [w \in Vocabulary |->
        IF \E k \in DOMAIN entries : \E i \in HitsOn(entries[k].line) : words[i] = w
        THEN 1 ELSE s.counts[w]]]

\* appendLine, of several lines one after the other.
AppendLines(s, entries) ==
    [lines |-> s.lines \o entries,
     counts |-> [w \in Vocabulary |-> s.counts[w] +
        Cardinality({p \in (DOMAIN words) \X (DOMAIN entries) :
                        words[p[1]] = w /\ Hit(p[1], entries[p[2]].line)})]]

\* Slip: the oldest line is not dropped, the new one is.
KeepOldest(q, n) == IF Len(q) = ContextLines THEN q ELSE Append(q, n)

\* LimitQueue::enqueue
Enqueue(q, n) == Append(IF Len(q) = ContextLines THEN Tail(q) ELSE q, n)

\* Slip: the numbers are taken when the line itself is counted among the queued ones.
NumberedFromItself(n) == [k \in DOMAIN queue |-> Entry(n - Len(queue) + k, queue[k])]

\* The queue as it is emptied: lineCount - queue.size(), then dequeue.
QueuedEntries(n) == [k \in DOMAIN queue |-> Entry(n - Len(queue) + k - 1, queue[k])]

Matched(n) == \E i \in DOMAIN words : Occurs(words[i], n)

\* generate, when a worker takes the target: the file may not open.
OpenFile(t, ws) ==
    /\ readerPc = "idle"
    /\ text' = t
    /\ words' = ws
    /\ readerPc' \in {"read", "unreadable"}
    /\ UNCHANGED <<lineCount, queue, justRead, current, snippets>>

\* A line in the context of an earlier match.
ReadOn(n) ==
    /\ justRead > 0
    /\ current' = AppendLines(current, <<Entry(n, n)>>)
    /\ justRead' = IF justRead = 1 /\ HitsOn(n) # {} THEN ContextLines ELSE justRead - 1
    /\ UNCHANGED <<queue, snippets>>

\* Any other line. The context of a match has ended just before it when justRead is 0.
ReadAnew(n) ==
    LET ended == justRead = 0
        started == IF ended THEN NoSnippet ELSE current
    IN  /\ justRead <= 0
        /\ snippets' = IF ended THEN Append(snippets, current) ELSE snippets
        /\ \/ /\ Matched(n)
              /\ current' = AppendLines(started, QueuedEntries(n) \o <<Entry(n, n)>>)
              /\ queue' = <<>>
              /\ justRead' = ContextLines
           \/ /\ ~Matched(n)
              /\ current' = started
              /\ queue' = Enqueue(queue, n)
              /\ justRead' = -1

ReadLine ==
    /\ readerPc = "read"
    /\ lineCount < Len(text)
    /\ lineCount' = lineCount + 1
    /\ ReadOn(lineCount + 1) \/ ReadAnew(lineCount + 1)
    /\ UNCHANGED <<text, words, readerPc>>

EndOfText ==
    /\ readerPc = "read"
    /\ lineCount = Len(text)
    /\ readerPc' = "sort"
    /\ snippets' = IF current.lines = <<>> THEN snippets ELSE Append(snippets, current)
    /\ UNCHANGED <<text, words, lineCount, queue, justRead, current>>

DifferentWords(s) == Cardinality({w \in Vocabulary : s.counts[w] > 0})
TotalWords(s) == MapThenSumSet(LAMBDA w : s.counts[w], Vocabulary)
Better(a, b) ==
    \/ DifferentWords(a) > DifferentWords(b)
    \/ DifferentWords(a) = DifferentWords(b) /\ TotalWords(a) > TotalWords(b)

\* std::sort, which may leave equal ones in any order.
SortSnippets ==
    /\ readerPc = "sort"
    /\ readerPc' = "done"
    /\ \E f \in Bijection(DOMAIN snippets, DOMAIN snippets) :
          /\ \A i, j \in DOMAIN snippets : Better(snippets[f[i]], snippets[f[j]]) => i < j
          /\ snippets' = [i \in DOMAIN snippets |-> snippets[f[i]]]
    /\ UNCHANGED <<text, words, lineCount, queue, justRead, current>>

ReaderInit ==
    /\ text = <<>>
    /\ words = <<>>
    /\ readerPc = "idle"
    /\ lineCount = 0
    /\ queue = <<>>
    /\ justRead = -1
    /\ current = NoSnippet
    /\ snippets = <<>>

ReaderNext ==
    \/ \E t \in Seq(SUBSET Vocabulary), ws \in Seq(Vocabulary) : OpenFile(t, ws)
    \/ ReadLine
    \/ EndOfText
    \/ SortSnippets

ReaderSpec == ReaderInit /\ [][ReaderNext]_readerVars
----------------------------------------------------------------------------
\* What is displayed: the best snippets, and the totals of all of them.
Shown == {i \in DOMAIN snippets : i <= MaxSnippets}
Truncated == Shown # DOMAIN snippets
Total(w) == Sum([i \in DOMAIN snippets |-> snippets[i].counts[w]])

\* A line and its number are those of a line of the file.
Snippet ==
    [lines : Seq([number : 1..Len(text), line : 1..Len(text)]), counts : [Vocabulary -> Nat]]
ReaderTypeOK ==
    /\ text \in Seq(SUBSET Vocabulary)
    /\ words \in Seq(Vocabulary)
    /\ readerPc \in {"idle", "unreadable", "read", "sort", "done"}
    /\ lineCount \in 0..Len(text)
    /\ queue \in Seq(1..Len(text)) /\ Len(queue) <= ContextLines
    /\ justRead \in -1..ContextLines
    /\ current \in Snippet
    /\ snippets \in Seq(Snippet)

LinesOf(s) == {s.lines[k].line : k \in DOMAIN s.lines}

\* A line is printed with its own number, under the line before it, and at most once in
\* all snippets (previewgeneratorplaintext.cpp:138-183: the number of a queued line is
\* computed from the size of the queue that is being emptied).
LinesInOrder ==
    /\ \A i \in DOMAIN snippets : \A k \in DOMAIN snippets[i].lines :
          /\ snippets[i].lines[k].number = snippets[i].lines[k].line
          /\ k > 1 => snippets[i].lines[k].line = snippets[i].lines[k - 1].line + 1
    /\ \A i, j \in DOMAIN snippets : i # j =>
          LinesOf(snippets[i]) \cap LinesOf(snippets[j]) = {}

\* When the file is read, a line with a searched word is in a snippet, so are the
\* contextLinesCount lines before it and the line after it, and all contextLinesCount after
\* the first match of a snippet (previewgeneratorplaintext.cpp:138-182: what the queue
\* still holds, and when the context is renewed).
InSnippet(n) == \E i \in DOMAIN snippets : n \in LinesOf(snippets[i])
ContextAround ==
    readerPc = "done" => \A n \in DOMAIN text : Matched(n) =>
        /\ \A m \in n - ContextLines..n + 1 : m \in DOMAIN text => InSnippet(m)
        /\ (\A m \in n - ContextLines..n - 1 : m \in DOMAIN text => ~Matched(m)) =>
              \A m \in n..n + ContextLines : m \in DOMAIN text => InSnippet(m)

\* What the header counts for a word, in the snippets that are shown and in those that are cut
\* off: the lines the word occurs in, also as a part of another, times the places it has in
\* the list. That is not how many times it occurs, as the comment on the map says
\* (previewgeneratorplaintext.cpp:84): twice in a line counts once, and a word that two filters
\* name counts twice. No line is missed or counted anew for its snippet. Left out are words
\* that another searched word may tear or a tag may hold (previewgeneratorplaintext.cpp:104-127).
Whole(w) == w \notin Markup /\ \A i \in DOMAIN words : words[i] \notin Parts[w]
EveryMatchCounted ==
    readerPc = "done" => \A i \in DOMAIN words : Whole(words[i]) =>
        Total(words[i]) = Cardinality({k \in DOMAIN words : words[k] = words[i]}) *
                          Cardinality({n \in DOMAIN text : Occurs(words[i], n)})
=============================================================================
