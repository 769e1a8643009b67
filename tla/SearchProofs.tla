---------------------------- MODULE SearchProofs ----------------------------
(***************************************************************************)
(* For every index, every expression, every text and any number of lines   *)
(* of context: what a search finds is what its expression means, and the   *)
(* preview of a text shows, in order and with its context, and counts      *)
(* every line with a searched word.                                        *)
(***************************************************************************)
EXTENDS SearchPage, OrderLemmas, SequenceTheorems, FiniteSetTheorems, TLAPS

Line == 1..Len(text)
EntryType == [number : Line, line : Line]

\* Consecutive lines, each with its own number.
Ordered(s) ==
    \A k \in DOMAIN s.lines :
        /\ s.lines[k].number = s.lines[k].line
        /\ k > 1 => s.lines[k].line = s.lines[k - 1].line + 1

Disjoint ==
    \A i, j \in DOMAIN snippets : i # j => LinesOf(snippets[i]) \cap LinesOf(snippets[j]) = {}

UnreadInv ==
    readerPc \in {"idle", "unreadable"} =>
        /\ lineCount = 0
        /\ queue = <<>>
        /\ justRead = -1
        /\ current = NoSnippet
        /\ snippets = <<>>

\* The queue holds the lines just read, and none while a context is read.
QueueInv ==
    readerPc \in {"idle", "read"} =>
        /\ \A k \in DOMAIN queue : queue[k] = lineCount - Len(queue) + k
        /\ justRead >= 0 => queue = <<>>

\* The current snippet ends with the line just read; snippets stand in the order of the text.
CurrentInv ==
    readerPc \in {"idle", "read"} =>
        /\ justRead = -1 => current.lines = <<>>
        /\ justRead >= 0 => /\ current.lines # <<>>
                            /\ current.lines[Len(current.lines)].line = lineCount
        /\ \A n \in LinesOf(current) : n <= lineCount
        /\ \A i \in DOMAIN snippets : \A m \in LinesOf(snippets[i]) :
              /\ m <= lineCount
              /\ \A n \in LinesOf(current) : m < n
              /\ \A k \in DOMAIN queue : m < queue[k]

OrderInv ==
    /\ ReaderTypeOK
    /\ UnreadInv
    /\ QueueInv
    /\ CurrentInv
    /\ Ordered(current)
    /\ \A i \in DOMAIN snippets : Ordered(snippets[i])
    /\ Disjoint
----------------------------------------------------------------------------
LEMMA NoSnippetFacts ==
    /\ NoSnippet \in Snippet
    /\ NoSnippet.lines = <<>>
    /\ LinesOf(NoSnippet) = {}
    /\ Ordered(NoSnippet)
BY DEF NoSnippet, Snippet, LinesOf, Ordered

LEMMA SnippetFacts ==
    ASSUME NEW s \in Snippet
    PROVE  /\ LinesOf(s) \subseteq Line
           /\ s.lines \in Seq(EntryType)
           /\ Len(s.lines) \in Nat
           /\ DOMAIN s.lines = 1..Len(s.lines)
<1>1. s.lines \in Seq(EntryType) /\ DOMAIN s.lines = 1..Len(s.lines) /\ Len(s.lines) \in Nat
  BY DEF Snippet, EntryType, Line
<1>2. \A k \in DOMAIN s.lines : s.lines[k] \in EntryType
  BY <1>1
<1>3. \A k \in DOMAIN s.lines : s.lines[k].line \in Line
  BY <1>2 DEF EntryType
<1> QED
  BY <1>1, <1>3 DEF LinesOf

LEMMA OrderFacts ==
    ASSUME OrderInv
    PROVE  /\ lineCount \in Nat /\ Len(text) \in Nat /\ lineCount <= Len(text)
           /\ Line \subseteq Int
           /\ queue \in Seq(Line) /\ Len(queue) \in Nat /\ DOMAIN queue = 1..Len(queue)
           /\ \A k \in DOMAIN queue : queue[k] \in Line
           /\ justRead \in -1..ContextLines /\ ContextLines \in Nat \ {0}
           /\ current \in Snippet /\ LinesOf(current) \subseteq Line
           /\ snippets \in Seq(Snippet) /\ Len(snippets) \in Nat
           /\ DOMAIN snippets = 1..Len(snippets)
           /\ \A i \in DOMAIN snippets : snippets[i] \in Snippet /\ LinesOf(snippets[i]) \subseteq Line
<1>1. ReaderTypeOK
  BY DEF OrderInv
<1>2. /\ lineCount \in Nat /\ Len(text) \in Nat /\ lineCount <= Len(text)
      /\ Line \subseteq Int
      /\ queue \in Seq(Line) /\ Len(queue) \in Nat /\ DOMAIN queue = 1..Len(queue)
      /\ justRead \in -1..ContextLines /\ ContextLines \in Nat \ {0}
      /\ current \in Snippet
      /\ snippets \in Seq(Snippet) /\ Len(snippets) \in Nat
      /\ DOMAIN snippets = 1..Len(snippets)
  BY <1>1, ContextLinesAssumption DEF ReaderTypeOK, Line
<1>3. /\ \A k \in DOMAIN queue : queue[k] \in Line
      /\ \A i \in DOMAIN snippets : snippets[i] \in Snippet
  BY <1>2
<1> QED
  BY <1>2, <1>3, SnippetFacts

\* What appendLine does to the lines of a snippet.
LEMMA AppendLinesFacts ==
    ASSUME ReaderTypeOK, NEW s \in Snippet, NEW e \in Seq(EntryType)
    PROVE  LET r == AppendLines(s, e) IN
           /\ r \in Snippet
           /\ r.lines = s.lines \o e
           /\ DOMAIN r.lines = 1..Len(s.lines) + Len(e)
           /\ \A k \in 1..Len(s.lines) : r.lines[k] = s.lines[k]
           /\ \A k \in 1..Len(e) : r.lines[Len(s.lines) + k] = e[k]
           /\ LinesOf(r) = LinesOf(s) \cup {e[k].line : k \in 1..Len(e)}
<1> DEFINE r == AppendLines(s, e)
<1>1. /\ s.lines \in Seq(EntryType) /\ s.counts \in [Vocabulary -> Nat]
      /\ Len(s.lines) \in Nat /\ Len(e) \in Nat
      /\ DOMAIN s.lines = 1..Len(s.lines) /\ DOMAIN e = 1..Len(e)
  BY DEF Snippet, EntryType, Line
<1>2. r.lines = s.lines \o e
  BY DEF AppendLines
<1>3. r.lines \in Seq(EntryType) /\ Len(r.lines) = Len(s.lines) + Len(e)
  BY <1>1, <1>2, ConcatProperties
<1>4. \A k \in 1..Len(s.lines) : r.lines[k] = s.lines[k]
  BY <1>1, <1>2, ConcatProperties
<1>5. \A k \in 1..Len(e) : r.lines[Len(s.lines) + k] = e[k]
  BY <1>1, <1>2, ConcatProperties
<1>6. r.counts \in [Vocabulary -> Nat]
  <2> SUFFICES ASSUME NEW w \in Vocabulary
               PROVE  Cardinality({p \in (DOMAIN words) \X (DOMAIN e) :
                        words[p[1]] = w /\ Hit(p[1], e[p[2]].line)}) \in Nat
    BY <1>1 DEF AppendLines
  <2>1. IsFiniteSet(DOMAIN words) /\ IsFiniteSet(DOMAIN e)
    BY <1>1, FS_Interval DEF ReaderTypeOK
  <2>2. IsFiniteSet((DOMAIN words) \X (DOMAIN e))
    BY <2>1, FS_Product
  <2> QED
    BY <2>2, FS_Subset, FS_CardinalityType
<1>7. r \in Snippet
  BY <1>3, <1>6 DEF Snippet, AppendLines, EntryType, Line
<1>8. DOMAIN r.lines = 1..Len(s.lines) + Len(e)
  BY <1>1, <1>3
<1>9. LinesOf(r) = LinesOf(s) \cup {e[k].line : k \in 1..Len(e)}
  <2>1. ASSUME NEW x \in LinesOf(r)
        PROVE  x \in LinesOf(s) \cup {e[k].line : k \in 1..Len(e)}
    <3>1. PICK k \in 1..Len(s.lines) + Len(e) : x = r.lines[k].line
      BY <1>8, <2>1 DEF LinesOf
    <3>2. CASE k <= Len(s.lines)
      <4>1. k \in DOMAIN s.lines
        BY <1>1, <3>1, <3>2
      <4>2. x = s.lines[k].line
        BY <1>1, <1>4, <3>1, <4>1
      <4> QED
        BY <4>1, <4>2 DEF LinesOf
    <3>3. CASE k > Len(s.lines)
      <4>1. k - Len(s.lines) \in 1..Len(e) /\ k = Len(s.lines) + (k - Len(s.lines))
        BY <1>1, <3>1, <3>3
      <4> QED
        BY <1>5, <3>1, <4>1
    <3> QED
      BY <1>1, <3>1, <3>2, <3>3
  <2>2. LinesOf(s) \subseteq LinesOf(r)
    BY <1>1, <1>4, <1>8 DEF LinesOf
  <2>3. ASSUME NEW k \in 1..Len(e) PROVE e[k].line \in LinesOf(r)
    <3>1. Len(s.lines) + k \in DOMAIN r.lines
      BY <1>1, <1>8
    <3> QED
      BY <1>5, <3>1 DEF LinesOf
  <2> QED
    BY <2>1, <2>2, <2>3
<1> QED
  BY <1>2, <1>4, <1>5, <1>7, <1>8, <1>9

\* The entries that a line with a match appends: those of the queue and its own.
LEMMA QueuedFacts ==
    ASSUME ReaderTypeOK, QueueInv, readerPc = "read", lineCount < Len(text)
    PROVE  LET n == lineCount + 1
               e == QueuedEntries(n) \o <<Entry(n, n)>>
           IN  /\ e \in Seq(EntryType)
               /\ Len(e) = Len(queue) + 1
               /\ \A k \in 1..Len(e) : /\ e[k].line = n - Len(queue) + k - 1
                                       /\ e[k].number = e[k].line
               /\ {e[k].line : k \in 1..Len(e)} = {queue[k] : k \in DOMAIN queue} \cup {n}
<1> DEFINE n == lineCount + 1
           q == QueuedEntries(n)
           e == q \o <<Entry(n, n)>>
<1>1. /\ queue \in Seq(Line) /\ Len(queue) \in Nat /\ DOMAIN queue = 1..Len(queue)
      /\ lineCount \in Nat /\ Len(text) \in Nat /\ n \in Line
      /\ \A k \in 1..Len(queue) : queue[k] = lineCount - Len(queue) + k /\ queue[k] \in Line
  BY DEF ReaderTypeOK, QueueInv, Line
<1>2. /\ q = [k \in 1..Len(queue) |-> [number |-> n - Len(queue) + k - 1, line |-> queue[k]]]
      /\ \A k \in 1..Len(queue) : n - Len(queue) + k - 1 = queue[k]
  <2>1. q = [k \in DOMAIN queue |-> [number |-> n - Len(queue) + k - 1, line |-> queue[k]]]
    BY DEF QueuedEntries, Entry
  <2>2. \A k \in 1..Len(queue) : n - Len(queue) + k - 1 = queue[k]
    BY <1>1
  <2> QED
    BY <1>1, <2>1, <2>2
<1>3. q \in Seq(EntryType) /\ Len(q) = Len(queue)
  <2>1. \A k \in 1..Len(queue) : q[k] \in EntryType
    BY <1>1, <1>2 DEF EntryType
  <2>2. q \in [1..Len(queue) -> EntryType]
    BY <1>2, <2>1
  <2> HIDE DEF q
  <2> QED
    BY <1>1, <2>2
<1>4. <<Entry(n, n)>> \in Seq(EntryType) /\ Len(<<Entry(n, n)>>) = 1
  BY <1>1 DEF Entry, EntryType
<1>5. e \in Seq(EntryType) /\ Len(e) = Len(queue) + 1
  BY <1>3, <1>4, ConcatProperties
<1>6. \A k \in 1..Len(queue) : e[k] = q[k]
  BY <1>1, <1>3, <1>4, ConcatProperties
<1>7. e[Len(queue) + 1] = Entry(n, n)
  BY <1>1, <1>3, <1>4, ConcatProperties
<1>11. e[Len(queue) + 1].line = n /\ e[Len(queue) + 1].number = n
  <2>1. Entry(n, n).line = n /\ Entry(n, n).number = n
    BY DEF Entry
  <2> QED
    BY <1>7, <2>1
<1>8. \A k \in 1..Len(queue) : e[k].line = queue[k] /\ e[k].number = queue[k]
  BY <1>2, <1>6
<1>9. ASSUME NEW k \in 1..Len(e)
      PROVE  e[k].line = n - Len(queue) + k - 1 /\ e[k].number = e[k].line
  <2>1. CASE k \in 1..Len(queue)
    BY <1>2, <1>8, <2>1
  <2>2. CASE k = Len(queue) + 1
    BY <1>1, <1>11, <2>2
  <2> QED
    BY <1>1, <1>5, <2>1, <2>2
<1>10. {e[k].line : k \in 1..Len(e)} = {queue[k] : k \in DOMAIN queue} \cup {n}
  <2>1. 1..Len(e) = (1..Len(queue)) \cup {Len(queue) + 1}
    BY <1>1, <1>5
  <2>3. {e[k].line : k \in 1..Len(e)} =
          {e[k].line : k \in 1..Len(queue)} \cup {e[Len(queue) + 1].line}
    BY <2>1
  <2>4. {e[k].line : k \in 1..Len(queue)} = {queue[k] : k \in 1..Len(queue)}
    BY <1>8
  <2> QED
    BY <1>1, <1>11, <2>3, <2>4
<1> QED
  BY <1>5, <1>9, <1>10
----------------------------------------------------------------------------
LEMMA OrderInit == ReaderInit => OrderInv
<1> SUFFICES ASSUME ReaderInit PROVE OrderInv
  OBVIOUS
<1> USE DEF ReaderInit
<1>1. ReaderTypeOK
  BY NoSnippetFacts, ContextLinesAssumption DEF ReaderTypeOK
<1>2. UnreadInv /\ QueueInv /\ Disjoint
  BY DEF UnreadInv, QueueInv, Disjoint
<1>3. CurrentInv
  BY NoSnippetFacts DEF CurrentInv
<1> QED
  BY <1>1, <1>2, <1>3, NoSnippetFacts DEF OrderInv

LEMMA OpenFileKeepsOrder ==
    ASSUME OrderInv, NEW t \in Seq(SUBSET Vocabulary), NEW ws \in Seq(Vocabulary), OpenFile(t, ws)
    PROVE  OrderInv'
<1>1. /\ lineCount = 0 /\ queue = <<>> /\ justRead = -1 /\ current = NoSnippet /\ snippets = <<>>
      /\ UNCHANGED <<lineCount, queue, justRead, current, snippets>>
      /\ text' = t /\ words' = ws /\ readerPc' \in {"read", "unreadable"}
  BY DEF OrderInv, UnreadInv, OpenFile
<1>2. NoSnippet \in Snippet' /\ LinesOf(NoSnippet) = {} /\ NoSnippet.lines = <<>>
  BY DEF NoSnippet, Snippet, LinesOf
<1>3. ReaderTypeOK'
  BY <1>1, <1>2, ContextLinesAssumption DEF ReaderTypeOK
<1>4. UnreadInv' /\ QueueInv' /\ Disjoint'
  BY <1>1 DEF UnreadInv, QueueInv, Disjoint, NoSnippet
<1>5. CurrentInv'
  BY <1>1, <1>2 DEF CurrentInv, LinesOf
<1>6. Ordered(current)' /\ \A i \in DOMAIN snippets' : Ordered(snippets[i])'
  BY <1>1, <1>2 DEF Ordered
<1> QED
  BY <1>3, <1>4, <1>5, <1>6 DEF OrderInv

\* Appending to a snippet keeps its lines in order if the first of them follows its last.
LEMMA AppendKeepsOrdered ==
    ASSUME ReaderTypeOK, NEW s \in Snippet, Ordered(s), NEW e \in Seq(EntryType), NEW f \in Int,
           \A k \in 1..Len(e) : e[k].line = f + k /\ e[k].number = e[k].line,
           s.lines # <<>> => s.lines[Len(s.lines)].line = f
    PROVE  Ordered(AppendLines(s, e))
<1> DEFINE r == AppendLines(s, e)
<1>1. /\ s.lines \in Seq(EntryType) /\ Len(s.lines) \in Nat /\ DOMAIN s.lines = 1..Len(s.lines)
      /\ Len(e) \in Nat
  BY DEF Snippet, EntryType, Line
<1>2. /\ DOMAIN r.lines = 1..Len(s.lines) + Len(e)
      /\ \A k \in 1..Len(s.lines) : r.lines[k] = s.lines[k]
      /\ \A k \in 1..Len(e) : r.lines[Len(s.lines) + k] = e[k]
  BY AppendLinesFacts
<1> HIDE DEF r
<1> SUFFICES ASSUME NEW k \in DOMAIN r.lines
             PROVE  /\ r.lines[k].number = r.lines[k].line
                    /\ k > 1 => r.lines[k].line = r.lines[k - 1].line + 1
  BY DEF Ordered, r
<1>3. CASE k <= Len(s.lines)
  <2>1. k \in 1..Len(s.lines) /\ (k > 1 => k - 1 \in 1..Len(s.lines))
    BY <1>1, <1>2, <1>3
  <2>2. /\ s.lines[k].number = s.lines[k].line
        /\ k > 1 => s.lines[k].line = s.lines[k - 1].line + 1
    BY <1>1, <2>1 DEF Ordered
  <2> QED
    BY <1>2, <2>1, <2>2
<1>4. CASE k > Len(s.lines)
  <2>1. PICK l \in 1..Len(e) : k = Len(s.lines) + l
    <3>1. k - Len(s.lines) \in 1..Len(e)
      BY <1>1, <1>2, <1>4
    <3> QED
      BY <1>1, <1>2, <3>1
  <2>2. r.lines[k].line = f + l /\ r.lines[k].number = r.lines[k].line
    BY <1>2, <2>1
  <2>3. CASE l > 1
    <3>1. l - 1 \in 1..Len(e) /\ k - 1 = Len(s.lines) + (l - 1)
      <4>1. l \in Nat /\ Len(e) \in Nat /\ Len(s.lines) \in Nat /\ l <= Len(e)
        BY <1>1, <2>1
      <4>2. l - 1 \in 1..Len(e)
        BY <2>3, <4>1
      <4>3. k - 1 = Len(s.lines) + (l - 1)
        BY <2>1, <4>1
      <4> QED
        BY <4>2, <4>3
    <3>2. r.lines[k - 1].line = f + (l - 1)
      BY <1>2, <3>1
    <3> QED
      BY <2>2, <3>2
  <2>4. CASE l = 1 /\ Len(s.lines) > 0
    <3>1. k - 1 = Len(s.lines) /\ k - 1 \in 1..Len(s.lines) /\ s.lines # <<>>
      BY <1>1, <2>1, <2>4
    <3>2. r.lines[k - 1].line = f
      BY <1>2, <3>1
    <3> QED
      BY <2>2, <2>4, <3>2
  <2>5. CASE l = 1 /\ Len(s.lines) = 0
    BY <2>1, <2>2, <2>5
  <2> QED
    BY <1>1, <2>3, <2>4, <2>5
<1> QED
  BY <1>1, <1>2, <1>3, <1>4

\* The line of a context.
LEMMA ReadOnCovers ==
    ASSUME OrderInv, ReadLine, ReadOn(lineCount + 1)
    PROVE  /\ current' \in Snippet /\ Ordered(current')
           /\ LinesOf(current') = LinesOf(current) \cup {lineCount + 1}
           /\ current'.lines # <<>>
           /\ current'.lines[Len(current'.lines)].line = lineCount + 1
           /\ queue = <<>> /\ justRead \in 1..ContextLines /\ justRead' \in 0..ContextLines
           /\ UNCHANGED <<text, words, readerPc, queue, snippets>> /\ readerPc = "read"
           /\ lineCount' = lineCount + 1 /\ lineCount + 1 \in Line
<1> DEFINE n == lineCount + 1
           e == <<Entry(n, n)>>
<1>1. /\ readerPc = "read" /\ n \in Line
      /\ lineCount' = n /\ justRead \in 1..ContextLines /\ justRead' \in 0..ContextLines
      /\ queue = <<>>
      /\ UNCHANGED <<text, words, readerPc, queue, snippets>>
      /\ current' = AppendLines(current, e)
  BY OrderFacts
     DEF OrderInv, QueueInv, ReadLine, ReadOn, Line
<1>2. /\ e \in Seq(EntryType) /\ Len(e) = 1 /\ e[1].line = n /\ e[1].number = n
      /\ {e[k].line : k \in 1..Len(e)} = {n}
  BY <1>1 DEF Entry, EntryType
<1>3. current.lines # <<>> /\ current.lines[Len(current.lines)].line = lineCount
  BY <1>1 DEF OrderInv, CurrentInv
<1> HIDE DEF e
<1>4. /\ current' \in Snippet
      /\ DOMAIN current'.lines = 1..Len(current.lines) + 1
      /\ current'.lines[Len(current.lines) + 1] = e[1]
      /\ LinesOf(current') = LinesOf(current) \cup {n}
  <2> DEFINE r == AppendLines(current, e)
  <2>1. ReaderTypeOK /\ current \in Snippet
    BY OrderFacts DEF OrderInv
  <2>2. /\ r \in Snippet
        /\ DOMAIN r.lines = 1..Len(current.lines) + Len(e)
        /\ \A k \in 1..Len(e) : r.lines[Len(current.lines) + k] = e[k]
        /\ LinesOf(r) = LinesOf(current) \cup {e[k].line : k \in 1..Len(e)}
    BY <1>2, <2>1, AppendLinesFacts
  <2> HIDE DEF r
  <2>3. current' = r
    BY <1>1 DEF r
  <2> QED
    BY <1>2, <2>2, <2>3
<1>5. Ordered(current')
  <2>1. /\ ReaderTypeOK /\ current \in Snippet /\ Ordered(current) /\ lineCount \in Int
    BY OrderFacts DEF OrderInv
  <2>2. \A k \in 1..Len(e) : e[k].line = lineCount + k /\ e[k].number = e[k].line
    BY <1>2
  <2>3. Ordered(AppendLines(current, e))
    BY <1>2, <1>3, <2>1, <2>2, AppendKeepsOrdered
  <2> QED
    BY <1>1, <2>3
<1>6. current'.lines # <<>> /\ current'.lines[Len(current'.lines)].line = n
  <2>1. Len(current.lines) \in Nat /\ current'.lines \in Seq(EntryType)
    BY <1>4, OrderFacts, SnippetFacts
  <2>2. Len(current'.lines) = Len(current.lines) + 1
    BY <1>4, <2>1
  <2> QED
    BY <1>2, <1>4, <2>1, <2>2
<1> QED
  BY <1>1, <1>4, <1>5, <1>6

LEMMA ReadOnKeepsOrder ==
    ASSUME OrderInv, ReadLine, ReadOn(lineCount + 1)
    PROVE  OrderInv'
<1> DEFINE n == lineCount + 1
<1>1. Snippet' = Snippet
  BY ReadOnCovers DEF Snippet
<1>2. ReaderTypeOK'
  BY <1>1, ReadOnCovers DEF OrderInv, ReaderTypeOK, Line
<1>3. CurrentInv'
  <2>1. LinesOf(current') = LinesOf(current) \cup {n} /\ readerPc = "read" /\ n \in Int
    BY ReadOnCovers, OrderFacts
  <2>2. \A m \in LinesOf(current') : m <= n
    BY <2>1, OrderFacts DEF OrderInv, CurrentInv
  <2>3. \A i \in DOMAIN snippets : \A m \in LinesOf(snippets[i]) :
            m <= n /\ \A l \in LinesOf(current') : m < l
    <3> SUFFICES ASSUME NEW i \in DOMAIN snippets, NEW m \in LinesOf(snippets[i])
                 PROVE  m <= n /\ \A l \in LinesOf(current') : m < l
      OBVIOUS
    <3>1. m \in Int /\ m <= lineCount /\ \A l \in LinesOf(current) : m < l
      BY <2>1, OrderFacts DEF OrderInv, CurrentInv
    <3> QED
      BY <2>1, <3>1, OrderFacts
  <2> QED
    BY <2>2, <2>3, ReadOnCovers DEF CurrentInv
<1>4. UnreadInv' /\ QueueInv'
  BY ReadOnCovers DEF UnreadInv, QueueInv
<1>5. Disjoint' /\ \A i \in DOMAIN snippets' : Ordered(snippets'[i])
  BY ReadOnCovers DEF OrderInv, Disjoint
<1> QED
  BY <1>2, <1>3, <1>4, <1>5, ReadOnCovers DEF OrderInv

\* The snippet to which a line outside every context belongs; the last one, if its context
\* has just ended, is put away.
Started == IF justRead = 0 THEN NoSnippet ELSE current

LEMMA ReadAnewFacts ==
    ASSUME OrderInv, ReadLine, ReadAnew(lineCount + 1)
    PROVE  /\ Started \in Snippet /\ Started.lines = <<>> /\ LinesOf(Started) = {} /\ Ordered(Started)
           /\ snippets' \in Seq(Snippet)
           /\ \A i \in DOMAIN snippets' :
                /\ Ordered(snippets'[i])
                /\ \A m \in LinesOf(snippets'[i]) :
                      m \in Line /\ m <= lineCount /\ \A k \in DOMAIN queue : m < queue[k]
           /\ \A i, j \in DOMAIN snippets' :
                i # j => LinesOf(snippets'[i]) \cap LinesOf(snippets'[j]) = {}
           /\ UNCHANGED <<text, words, readerPc>> /\ readerPc = "read"
           /\ lineCount' = lineCount + 1 /\ lineCount' \in Line
<1>1. /\ readerPc = "read" /\ UNCHANGED <<text, words, readerPc>>
      /\ justRead <= 0 /\ lineCount' = lineCount + 1 /\ lineCount < Len(text)
      /\ snippets' = IF justRead = 0 THEN Append(snippets, current) ELSE snippets
  BY DEF ReadLine, ReadAnew
<1>2. justRead \in {-1, 0} /\ lineCount' \in Line
  BY <1>1, OrderFacts DEF Line
<1>3. Started \in Snippet /\ Started.lines = <<>>
  BY <1>1, <1>2, OrderFacts, NoSnippetFacts DEF Started, OrderInv, CurrentInv
<1>4. LinesOf(Started) = {} /\ Ordered(Started)
  BY <1>3 DEF LinesOf, Ordered
<1>5. \A i \in DOMAIN snippets :
          /\ Ordered(snippets[i])
          /\ \A m \in LinesOf(snippets[i]) :
                /\ m \in Line /\ m <= lineCount
                /\ \A k \in DOMAIN queue : m < queue[k]
                /\ \A l \in LinesOf(current) : m < l
  BY <1>1, OrderFacts DEF OrderInv, CurrentInv
<1>6. CASE justRead = -1
  <2>1. snippets' = snippets
    BY <1>1, <1>6
  <2> QED
    BY <1>1, <1>2, <1>3, <1>4, <1>5, <2>1, OrderFacts DEF OrderInv, Disjoint
<1>7. CASE justRead = 0
  <2>1. snippets' = Append(snippets, current) /\ queue = <<>>
    BY <1>1, <1>7 DEF OrderInv, QueueInv
  <2>2. /\ snippets' \in Seq(Snippet)
        /\ DOMAIN snippets' = (DOMAIN snippets) \cup {Len(snippets) + 1}
        /\ Len(snippets) + 1 \notin DOMAIN snippets
        /\ snippets'[Len(snippets) + 1] = current
        /\ \A i \in DOMAIN snippets : snippets'[i] = snippets[i]
    BY <2>1, OrderFacts
  <2>3. /\ Ordered(current)
        /\ \A m \in LinesOf(current) : m \in Line /\ m <= lineCount
    BY <1>1, OrderFacts DEF OrderInv, CurrentInv
  <2>4. \A i \in DOMAIN snippets : LinesOf(snippets[i]) \cap LinesOf(current) = {}
    BY <1>5, OrderFacts
  <2>5. \A i \in DOMAIN snippets' :
          /\ Ordered(snippets'[i])
          /\ \A m \in LinesOf(snippets'[i]) :
                m \in Line /\ m <= lineCount /\ \A k \in DOMAIN queue : m < queue[k]
    BY <1>5, <2>1, <2>2, <2>3
  <2>6. ASSUME NEW i \in DOMAIN snippets', NEW j \in DOMAIN snippets', i # j
        PROVE  LinesOf(snippets'[i]) \cap LinesOf(snippets'[j]) = {}
    <3>1. CASE i \in DOMAIN snippets /\ j \in DOMAIN snippets
      BY <2>2, <2>6, <3>1 DEF OrderInv, Disjoint
    <3>2. CASE i = Len(snippets) + 1 \/ j = Len(snippets) + 1
      BY <2>2, <2>4, <2>6, <3>2
    <3> QED
      BY <2>2, <3>1, <3>2
  <2> QED
    BY <1>1, <1>2, <1>3, <1>4, <2>2, <2>5, <2>6
<1> QED
  BY <1>2, <1>6, <1>7

\* A line without a match is queued.
LEMMA EnqueueFacts ==
    ASSUME OrderInv, ReadLine, ReadAnew(lineCount + 1), ~Matched(lineCount + 1)
    PROVE  /\ queue' \in Seq(Line) /\ Len(queue') \in Nat /\ Len(queue') <= ContextLines
           /\ DOMAIN queue' = 1..Len(queue')
           /\ \A k \in DOMAIN queue' : queue'[k] = (lineCount + 1) - Len(queue') + k
           /\ \A k \in DOMAIN queue' :
                 queue'[k] = lineCount + 1 \/ \E l \in DOMAIN queue : queue'[k] = queue[l]
           /\ Len(queue') = ContextLines \/ Len(queue') = Len(queue) + 1
<1> DEFINE n == lineCount + 1
<1>5. queue' = Enqueue(queue, n)
  BY DEF ReadAnew
<1>6. n \in Line
  BY ReadAnewFacts
<1>1. /\ queue \in Seq(Line) /\ Len(queue) \in Nat /\ DOMAIN queue = 1..Len(queue)
      /\ Len(queue) <= ContextLines /\ ContextLines \in Nat \ {0} /\ lineCount \in Nat
      /\ \A k \in 1..Len(queue) : queue[k] = lineCount - Len(queue) + k
  BY OrderFacts DEF OrderInv, ReaderTypeOK, QueueInv, ReadLine
<1>0. Len(queue) \in Nat /\ ContextLines \in Nat /\ Len(queue) <= ContextLines
  BY <1>1
<1>2. CASE Len(queue) = ContextLines
  <2>1. queue # <<>> /\ queue' = Append(Tail(queue), n)
    BY <1>5, <1>1, <1>2 DEF Enqueue
  <2>2. /\ Tail(queue) \in Seq(Line) /\ Len(Tail(queue)) = Len(queue) - 1
        /\ \A k \in 1..Len(queue) - 1 : Tail(queue)[k] = queue[k + 1]
    BY <1>1, <2>1, HeadTailProperties
  <2>3. /\ queue' \in Seq(Line) /\ Len(queue') = Len(queue)
        /\ queue'[Len(queue)] = n
        /\ \A k \in 1..Len(queue) - 1 : queue'[k] = queue[k + 1]
    BY <1>6, <1>1, <2>1, <2>2, AppendProperties
  <2>4. ASSUME NEW k \in 1..Len(queue)
        PROVE  /\ queue'[k] = n - Len(queue) + k
               /\ queue'[k] = n \/ \E l \in DOMAIN queue : queue'[k] = queue[l]
    <3>1. CASE k = Len(queue)
      BY <1>1, <2>3, <3>1
    <3>2. CASE k < Len(queue)
      <4>1. k \in 1..Len(queue) - 1 /\ k + 1 \in 1..Len(queue)
        BY <1>1, <3>2
      <4>2. queue'[k] = queue[k + 1] /\ queue[k + 1] = lineCount - Len(queue) + (k + 1)
        BY <1>1, <2>3, <4>1
      <4>3. queue'[k] = n - Len(queue) + k
        BY <1>1, <4>2
      <4>4. \E l \in DOMAIN queue : queue'[k] = queue[l]
        BY <1>1, <4>1, <4>2
      <4> QED
        BY <4>3, <4>4
    <3>3. k = Len(queue) \/ k < Len(queue)
      BY <1>0
    <3> QED
      BY <3>1, <3>2, <3>3
  <2>5. DOMAIN queue' = 1..Len(queue')
    BY <2>3
  <2>6. Len(queue') \in Nat /\ Len(queue') <= ContextLines
    BY <1>1, <2>3
  <2>7. Len(queue') = ContextLines
    BY <1>2, <2>3
  <2>8. \A k \in DOMAIN queue' :
            /\ queue'[k] = n - Len(queue') + k
            /\ queue'[k] = n \/ \E l \in DOMAIN queue : queue'[k] = queue[l]
    BY <2>3, <2>4, <2>5
  <2> QED
    BY <2>3, <2>5, <2>6, <2>7, <2>8
<1>3. CASE Len(queue) < ContextLines
  <2>1. queue' = Append(queue, n)
    <3>1. Len(queue) # ContextLines
      BY <1>0, <1>3
    <3> QED
      BY <1>5, <3>1 DEF Enqueue
  <2>2. /\ queue' \in Seq(Line) /\ Len(queue') = Len(queue) + 1
        /\ queue'[Len(queue) + 1] = n
        /\ \A k \in 1..Len(queue) : queue'[k] = queue[k]
    BY <1>6, <1>1, <2>1, AppendProperties
  <2>3. ASSUME NEW k \in 1..Len(queue) + 1
        PROVE  /\ queue'[k] = n - (Len(queue) + 1) + k
               /\ queue'[k] = n \/ \E l \in DOMAIN queue : queue'[k] = queue[l]
    <3>1. CASE k = Len(queue) + 1
      BY <1>1, <2>2, <3>1
    <3>2. CASE k \in 1..Len(queue)
      BY <1>1, <2>2, <3>2
    <3> QED
      BY <1>1, <3>1, <3>2
  <2>4. DOMAIN queue' = 1..Len(queue')
    BY <2>2
  <2>5. Len(queue') \in Nat /\ Len(queue') <= ContextLines
    BY <1>1, <1>3, <2>2
  <2>6. \A k \in DOMAIN queue' :
            /\ queue'[k] = n - Len(queue') + k
            /\ queue'[k] = n \/ \E l \in DOMAIN queue : queue'[k] = queue[l]
    BY <2>2, <2>3, <2>4
  <2> QED
    BY <2>2, <2>4, <2>5, <2>6
<1>4. Len(queue) = ContextLines \/ Len(queue) < ContextLines
  BY <1>0
<1> QED
  BY <1>2, <1>3, <1>4

LEMMA PassOverKeepsOrder ==
    ASSUME OrderInv, ReadLine, ReadAnew(lineCount + 1), ~Matched(lineCount + 1)
    PROVE  OrderInv'
<1> DEFINE n == lineCount + 1
<1>1. /\ current' = Started /\ queue' = Enqueue(queue, n) /\ justRead' = -1
  BY DEF ReadAnew, Started
<1>2. lineCount' = n /\ n \in Line /\ readerPc' = "read" /\ Snippet' = Snippet
  BY ReadAnewFacts DEF Snippet
<1>3. /\ queue' \in Seq(Line) /\ Len(queue') \in Nat /\ Len(queue') <= ContextLines
      /\ DOMAIN queue' = 1..Len(queue')
      /\ \A k \in DOMAIN queue' : queue'[k] = n - Len(queue') + k
      /\ \A k \in DOMAIN queue' : queue'[k] = n \/ \E l \in DOMAIN queue : queue'[k] = queue[l]
  BY EnqueueFacts
<1>4. ReaderTypeOK'
  BY <1>1, <1>2, <1>3, ReadAnewFacts, OrderFacts DEF OrderInv, ReaderTypeOK, Line
<1>5. UnreadInv' /\ QueueInv' /\ Disjoint'
  BY <1>1, <1>2, <1>3, ReadAnewFacts DEF UnreadInv, QueueInv, Disjoint
<1>6. CurrentInv'
  <2>1. \A i \in DOMAIN snippets' : \A m \in LinesOf(snippets'[i]) :
            m <= n /\ \A k \in DOMAIN queue' : m < queue'[k]
    <3> SUFFICES ASSUME NEW i \in DOMAIN snippets', NEW m \in LinesOf(snippets'[i])
                 PROVE  m <= n /\ \A k \in DOMAIN queue' : m < queue'[k]
      OBVIOUS
    <3>1. /\ m \in Int /\ lineCount \in Int /\ m <= lineCount
          /\ \A k \in DOMAIN queue : m < queue[k]
      BY ReadAnewFacts, OrderFacts
    <3> QED
      BY <1>3, <3>1
  <2>2. LinesOf(current') = {} /\ current'.lines = <<>>
    BY <1>1, ReadAnewFacts
  <2> QED
    BY <1>1, <1>2, <2>1, <2>2 DEF CurrentInv
<1>7. Ordered(current') /\ \A i \in DOMAIN snippets' : Ordered(snippets'[i])
  BY <1>1, ReadAnewFacts
<1> QED
  BY <1>4, <1>5, <1>6, <1>7 DEF OrderInv

\* A line with a match, and the lines queued before it.
LEMMA MatchFacts ==
    ASSUME OrderInv, ReadLine, ReadAnew(lineCount + 1), Matched(lineCount + 1)
    PROVE  /\ current' \in Snippet /\ Ordered(current')
           /\ LinesOf(current') = {queue[k] : k \in DOMAIN queue} \cup {lineCount + 1}
           /\ current'.lines # <<>>
           /\ current'.lines[Len(current'.lines)].line = lineCount + 1
           /\ queue' = <<>> /\ justRead' = ContextLines
<1> DEFINE n == lineCount + 1
           e == QueuedEntries(n) \o <<Entry(n, n)>>
<1>1. /\ current' = AppendLines(Started, e) /\ queue' = <<>> /\ justRead' = ContextLines
  BY DEF ReadAnew, Started
<1>2. /\ e \in Seq(EntryType) /\ Len(e) = Len(queue) + 1
      /\ \A k \in 1..Len(e) : e[k].line = n - Len(queue) + k - 1 /\ e[k].number = e[k].line
      /\ {e[k].line : k \in 1..Len(e)} = {queue[k] : k \in DOMAIN queue} \cup {n}
  BY QueuedFacts DEF OrderInv, ReadLine
<1> HIDE DEF e
<1>3. /\ Started \in Snippet /\ Started.lines = <<>> /\ LinesOf(Started) = {} /\ Ordered(Started)
  BY ReadAnewFacts
<1>4. ReaderTypeOK /\ lineCount \in Nat /\ Len(queue) \in Nat
  BY OrderFacts DEF OrderInv
<1> DEFINE r == AppendLines(Started, e)
<1>5. /\ r \in Snippet
      /\ DOMAIN r.lines = 1..Len(Started.lines) + Len(e)
      /\ \A k \in 1..Len(e) : r.lines[Len(Started.lines) + k] = e[k]
      /\ LinesOf(r) = LinesOf(Started) \cup {e[k].line : k \in 1..Len(e)}
  BY <1>2, <1>3, <1>4, AppendLinesFacts
<1>6. Ordered(r)
  <2>1. \A k \in 1..Len(e) : e[k].line = (lineCount - Len(queue)) + k /\ e[k].number = e[k].line
    BY <1>2, <1>4
  <2>2. lineCount - Len(queue) \in Int
    BY <1>4
  <2> QED
    BY <1>2, <1>3, <1>4, <2>1, <2>2, AppendKeepsOrdered
<1> HIDE DEF r
<1>7. /\ Len(r.lines) = Len(queue) + 1 /\ r.lines # <<>>
      /\ r.lines[Len(r.lines)].line = n
  <2>1. Len(Started.lines) = 0 /\ r.lines \in Seq(EntryType)
    BY <1>3, <1>5, SnippetFacts
  <2>2. DOMAIN r.lines = 1..Len(queue) + 1 /\ Len(r.lines) = Len(queue) + 1
    BY <1>2, <1>4, <1>5, <2>1
  <2>3. Len(queue) + 1 \in 1..Len(e)
    BY <1>2, <1>4
  <2>4. r.lines[Len(queue) + 1] = e[Len(queue) + 1]
    BY <1>4, <1>5, <2>1, <2>3
  <2>5. e[Len(queue) + 1].line = n
    BY <1>2, <1>4, <2>3
  <2> QED
    BY <1>4, <2>2, <2>4, <2>5
<1>8. current' = r
  BY <1>1 DEF r
<1> QED
  BY <1>1, <1>2, <1>3, <1>5, <1>6, <1>7, <1>8

LEMMA MatchKeepsOrder ==
    ASSUME OrderInv, ReadLine, ReadAnew(lineCount + 1), Matched(lineCount + 1)
    PROVE  OrderInv'
<1> DEFINE n == lineCount + 1
<1>1. lineCount' = n /\ n \in Line /\ readerPc' = "read" /\ Snippet' = Snippet
  BY ReadAnewFacts DEF Snippet
<1>2. ReaderTypeOK'
  <2>1. /\ ReaderTypeOK /\ UNCHANGED <<text, words>> /\ snippets' \in Seq(Snippet)
        /\ current' \in Snippet /\ queue' = <<>> /\ justRead' = ContextLines
    BY MatchFacts, ReadAnewFacts DEF OrderInv
  <2> QED
    BY <1>1, <2>1, ContextLinesAssumption DEF ReaderTypeOK, Line
<1>3. UnreadInv' /\ QueueInv' /\ Disjoint'
  BY <1>1, MatchFacts, ReadAnewFacts DEF UnreadInv, QueueInv, Disjoint
<1>4. CurrentInv'
  <2>1. \A l \in LinesOf(current') : l <= n
    <3>1. /\ LinesOf(current') = {queue[k] : k \in DOMAIN queue} \cup {n}
          /\ lineCount \in Nat /\ Len(queue) \in Nat /\ DOMAIN queue = 1..Len(queue)
      BY MatchFacts, OrderFacts
    <3>2. \A k \in 1..Len(queue) : queue[k] = lineCount - Len(queue) + k
      BY <3>1 DEF OrderInv, QueueInv, ReadLine
    <3>3. \A k \in 1..Len(queue) : queue[k] <= n
      BY <3>1, <3>2
    <3> QED
      BY <3>1, <3>3
  <2>2. ASSUME NEW i \in DOMAIN snippets', NEW m \in LinesOf(snippets'[i])
        PROVE  m <= n /\ \A l \in LinesOf(current') : m < l
    <3>1. /\ m \in Int /\ m <= lineCount /\ \A k \in DOMAIN queue : m < queue[k]
          /\ lineCount \in Int
      BY ReadAnewFacts, OrderFacts
    <3>2. LinesOf(current') = {queue[k] : k \in DOMAIN queue} \cup {n}
      BY MatchFacts
    <3> QED
      BY <3>1, <3>2
  <2>3. justRead' = ContextLines /\ ContextLines >= 0 /\ ContextLines # -1 /\ queue' = <<>>
    BY MatchFacts, ContextLinesAssumption
  <2> QED
    BY <1>1, <2>1, <2>2, <2>3, MatchFacts DEF CurrentInv
<1> QED
  BY <1>2, <1>3, <1>4, MatchFacts, ReadAnewFacts DEF OrderInv

LEMMA EndOfTextKeepsOrder ==
    ASSUME OrderInv, EndOfText
    PROVE  OrderInv'
<1>1. /\ readerPc = "read" /\ readerPc' = "sort"
      /\ UNCHANGED <<text, words, lineCount, queue, justRead, current>>
      /\ snippets' = IF current.lines = <<>> THEN snippets ELSE Append(snippets, current)
  BY DEF EndOfText
<1>2. Snippet' = Snippet
  BY <1>1 DEF Snippet
<1>3. /\ snippets' \in Seq(Snippet)
      /\ \A i \in DOMAIN snippets' : Ordered(snippets'[i])
      /\ \A i, j \in DOMAIN snippets' :
            i # j => LinesOf(snippets'[i]) \cap LinesOf(snippets'[j]) = {}
  <2>1. CASE snippets' = snippets
    BY <2>1, OrderFacts DEF OrderInv, Disjoint
  <2>2. CASE snippets' = Append(snippets, current)
    <3>1. /\ snippets' \in Seq(Snippet)
          /\ DOMAIN snippets' = (DOMAIN snippets) \cup {Len(snippets) + 1}
          /\ Len(snippets) + 1 \notin DOMAIN snippets
          /\ snippets'[Len(snippets) + 1] = current
          /\ \A i \in DOMAIN snippets : snippets'[i] = snippets[i]
      BY <2>2, OrderFacts
    <3>2. \A i \in DOMAIN snippets : LinesOf(snippets[i]) \cap LinesOf(current) = {}
      BY <1>1, OrderFacts DEF OrderInv, CurrentInv
    <3>3. ASSUME NEW i \in DOMAIN snippets', NEW j \in DOMAIN snippets', i # j
          PROVE  LinesOf(snippets'[i]) \cap LinesOf(snippets'[j]) = {}
      <4>1. CASE i \in DOMAIN snippets /\ j \in DOMAIN snippets
        BY <3>1, <3>3, <4>1 DEF OrderInv, Disjoint
      <4>2. CASE i = Len(snippets) + 1 \/ j = Len(snippets) + 1
        BY <3>1, <3>2, <3>3, <4>2
      <4> QED
        BY <3>1, <4>1, <4>2
    <3>4. \A i \in DOMAIN snippets' : Ordered(snippets'[i])
      BY <3>1 DEF OrderInv
    <3> QED
      BY <3>1, <3>3, <3>4
  <2> QED
    BY <1>1, <2>1, <2>2
<1>4. ReaderTypeOK'
  BY <1>1, <1>2, <1>3 DEF OrderInv, ReaderTypeOK
<1>5. UnreadInv' /\ QueueInv' /\ CurrentInv' /\ Disjoint'
  BY <1>1, <1>3 DEF UnreadInv, QueueInv, CurrentInv, Disjoint
<1> QED
  BY <1>1, <1>3, <1>4, <1>5 DEF OrderInv

LEMMA SortFacts ==
    ASSUME OrderInv, SortSnippets
    PROVE  /\ readerPc = "sort" /\ readerPc' = "done"
           /\ UNCHANGED <<text, words, lineCount, queue, justRead, current>>
           /\ snippets' \in Seq(Snippet)
           /\ \E f \in [DOMAIN snippets -> DOMAIN snippets] :
                /\ DOMAIN snippets' = DOMAIN snippets
                /\ \A i \in DOMAIN snippets : snippets'[i] = snippets[f[i]]
                /\ \A i, j \in DOMAIN snippets : i # j => f[i] # f[j]
                /\ \A i \in DOMAIN snippets : \E j \in DOMAIN snippets : f[j] = i
<1>1. PICK f \in Bijection(DOMAIN snippets, DOMAIN snippets) :
            snippets' = [i \in DOMAIN snippets |-> snippets[f[i]]]
  BY DEF SortSnippets
<1>2. /\ f \in [DOMAIN snippets -> DOMAIN snippets]
      /\ \A i, j \in DOMAIN snippets : i # j => f[i] # f[j]
      /\ \A i \in DOMAIN snippets : \E j \in DOMAIN snippets : f[j] = i
  BY DEF Bijection, Injection, Surjection, IsInjective
<1>3. \A i \in 1..Len(snippets) : snippets[f[i]] \in Snippet
  BY <1>2, OrderFacts
<1>4. snippets' \in [1..Len(snippets) -> Snippet]
  BY <1>1, <1>3, OrderFacts
<1>5. snippets' \in Seq(Snippet)
  <2>1. Len(snippets) \in Nat
    BY OrderFacts
  <2> QED
    BY <1>4, <2>1
<1>6. DOMAIN snippets' = DOMAIN snippets /\ \A i \in DOMAIN snippets : snippets'[i] = snippets[f[i]]
  BY <1>1
<1>7. /\ readerPc = "sort" /\ readerPc' = "done"
      /\ UNCHANGED <<text, words, lineCount, queue, justRead, current>>
  BY DEF SortSnippets
<1> QED
  BY <1>2, <1>5, <1>6, <1>7

LEMMA SortKeepsOrder ==
    ASSUME OrderInv, SortSnippets
    PROVE  OrderInv'
<1>1. Snippet' = Snippet
  BY SortFacts DEF Snippet
<1>2. /\ \A i \in DOMAIN snippets' : Ordered(snippets'[i])
      /\ Disjoint'
  <2>1. PICK f \in [DOMAIN snippets -> DOMAIN snippets] :
            /\ DOMAIN snippets' = DOMAIN snippets
            /\ \A i \in DOMAIN snippets : snippets'[i] = snippets[f[i]]
            /\ \A i, j \in DOMAIN snippets : i # j => f[i] # f[j]
    BY SortFacts
  <2>2. \A i \in DOMAIN snippets : f[i] \in DOMAIN snippets
    OBVIOUS
  <2>3. \A i \in DOMAIN snippets' : Ordered(snippets'[i])
    BY <2>1, <2>2 DEF OrderInv
  <2>4. Disjoint'
    BY <2>1, <2>2 DEF OrderInv, Disjoint
  <2> QED
    BY <2>3, <2>4
<1>3. ReaderTypeOK'
  BY <1>1, SortFacts DEF OrderInv, ReaderTypeOK
<1>4. UnreadInv' /\ QueueInv' /\ CurrentInv'
  BY SortFacts DEF UnreadInv, QueueInv, CurrentInv
<1>5. Ordered(current')
  BY SortFacts DEF OrderInv
<1> QED
  BY <1>2, <1>3, <1>4, <1>5 DEF OrderInv

LEMMA OrderStutter ==
    ASSUME OrderInv, UNCHANGED readerVars
    PROVE  OrderInv'
BY DEF OrderInv, ReaderTypeOK, UnreadInv, QueueInv, CurrentInv, Ordered, Disjoint, Snippet,
       readerVars

LEMMA OrderNext == OrderInv /\ [ReaderNext]_readerVars => OrderInv'
<1> SUFFICES ASSUME OrderInv, [ReaderNext]_readerVars PROVE OrderInv'
  OBVIOUS
<1>1. CASE \E t \in Seq(SUBSET Vocabulary), ws \in Seq(Vocabulary) : OpenFile(t, ws)
  BY <1>1, OpenFileKeepsOrder
<1>2. CASE ReadLine
  <2>1. ReadOn(lineCount + 1) \/ ReadAnew(lineCount + 1)
    BY <1>2 DEF ReadLine
  <2> QED
    BY <1>2, <2>1, ReadOnKeepsOrder, PassOverKeepsOrder, MatchKeepsOrder
<1>3. CASE EndOfText
  BY <1>3, EndOfTextKeepsOrder
<1>4. CASE SortSnippets
  BY <1>4, SortKeepsOrder
<1>5. CASE UNCHANGED readerVars
  BY <1>5, OrderStutter
<1> QED
  BY <1>1, <1>2, <1>3, <1>4, <1>5 DEF ReaderNext

\* The inductive invariant, with the type invariant in it.
THEOREM OrderCorrect == ReaderSpec => []OrderInv
BY OrderInit, OrderNext, PTL DEF ReaderSpec

\* Every line of every text is printed with its own number, under its predecessor, at most once.
THEOREM LinesInOrderCorrect == ReaderSpec => []LinesInOrder
<1>1. OrderInv => LinesInOrder
  BY DEF OrderInv, LinesInOrder, Ordered, Disjoint
<1> QED
  BY <1>1, OrderCorrect, PTL
----------------------------------------------------------------------------
\* The line is in a snippet, or in the one being read.
Covered(m) == m \in LinesOf(current) \/ InSnippet(m)
Queued(m) == \E k \in DOMAIN queue : queue[k] = m

\* No line of the context before it matches.
Isolated(n) == \A m \in n - ContextLines..n - 1 : m \in DOMAIN text => ~Matched(m)

\* While the text is read: the lines around the matches so far are covered, those that
\* are not can still be had from the queue, and justRead tells how far the context reaches,
\* and from which match.
BeforeMatches ==
    \A m \in 1..lineCount : Matched(m) => \A l \in m - ContextLines..m : l >= 1 => Covered(l)
WindowKept == \A m \in 1..lineCount : m > lineCount - ContextLines => Covered(m) \/ Queued(m)
AfterMatches ==
    /\ \A m \in 1..lineCount - 1 : Matched(m) => Covered(m + 1)
    /\ lineCount > 0 /\ Matched(lineCount) => justRead >= 1
AfterIsolated ==
    \A m \in 1..lineCount : Matched(m) /\ Isolated(m) =>
        /\ \A l \in m..m + ContextLines : l <= lineCount => Covered(l)
        /\ justRead >= m + ContextLines - lineCount
ContextHasMatch ==
    justRead >= 0 => /\ lineCount - ContextLines + justRead >= 1
                     /\ Matched(lineCount - ContextLines + justRead)

Around ==
    \A n \in DOMAIN text : Matched(n) =>
        /\ \A m \in n - ContextLines..n + 1 : m \in DOMAIN text => InSnippet(m)
        /\ Isolated(n) => \A m \in n..n + ContextLines : m \in DOMAIN text => InSnippet(m)

CoverInv ==
    /\ readerPc = "read" =>
          BeforeMatches /\ WindowKept /\ AfterMatches /\ AfterIsolated /\ ContextHasMatch
    /\ readerPc \in {"sort", "done"} => Around

\* A line that matches has a hit: nothing tears the first word of the list that is in it.
LEMMA MatchIsHit ==
    ASSUME words \in Seq(Vocabulary), text \in Seq(SUBSET Vocabulary), NEW n \in DOMAIN text
    PROVE  Matched(n) <=> HitsOn(n) # {}
<1> DEFINE S == {i \in DOMAIN words : Occurs(words[i], n)}
<1>1. ASSUME Matched(n) PROVE HitsOn(n) # {}
  <2>1. S \in SUBSET Nat /\ S # {}
    BY <1>1 DEF Matched
  <2>2. PICK m \in S : \A k \in S : m <= k
    BY <2>1, LeastNatural
  <2>3. ASSUME NEW j \in 1..m - 1, words[j] \in Parts[words[m]] PROVE FALSE
    <3>1. m \in DOMAIN words /\ j \in DOMAIN words /\ m \in Int /\ j < m
      BY <2>1
    <3>2. PICK v \in text[n] : v = words[m] \/ words[m] \in Parts[v]
      BY DEF Occurs
    <3>3. v \in Vocabulary
      BY <3>2
    <3>4. words[j] \in Parts[v]
      BY <2>3, <3>2, <3>3, VocabularyAssumption
    <3>5. j \in S
      BY <3>1, <3>2, <3>4 DEF Occurs
    <3> QED
      BY <2>2, <3>1, <3>5
  <2>4. Hit(m, n)
    BY <2>3 DEF Hit
  <2> QED
    BY <2>4 DEF HitsOn
<1>2. ASSUME HitsOn(n) # {} PROVE Matched(n)
  <2>1. PICK i \in DOMAIN words : Hit(i, n)
    BY <1>2 DEF HitsOn
  <2>2. CASE Occurs(words[i], n)
    BY <2>2 DEF Matched
  <2>3. CASE \E j \in 1..i - 1 : Occurs(words[j], n)
    <3>1. \A j \in 1..i - 1 : j \in DOMAIN words
      OBVIOUS
    <3> QED
      BY <2>3, <3>1 DEF Matched
  <2> QED
    BY <2>1, <2>2, <2>3 DEF Hit
<1> QED
  BY <1>1, <1>2

LEMMA SameText ==
    ASSUME UNCHANGED <<text, words>>
    PROVE  \A m : Matched(m)' = Matched(m) /\ Isolated(m)' = Isolated(m)
BY DEF Matched, Isolated, Occurs

\* What is in a snippet stays in one.
LEMMA CoveredStays ==
    ASSUME OrderInv, ReadLine, NEW m, Covered(m)
    PROVE  Covered(m)'
<1>1. CASE ReadOn(lineCount + 1)
  <2>1. LinesOf(current) \subseteq LinesOf(current') /\ snippets' = snippets
    BY <1>1, ReadOnCovers
  <2> QED
    BY <2>1 DEF Covered, InSnippet
<1>2. CASE ReadAnew(lineCount + 1)
  <2>1. /\ justRead \in {-1, 0}
        /\ snippets' = IF justRead = 0 THEN Append(snippets, current) ELSE snippets
    BY <1>2, OrderFacts DEF ReadAnew
  <2>2. CASE justRead = -1
    <3>1. LinesOf(current) = {}
      BY <2>2 DEF OrderInv, CurrentInv, ReadLine, LinesOf
    <3> QED
      BY <2>1, <2>2, <3>1 DEF Covered, InSnippet
  <2>3. CASE justRead = 0
    <3>1. /\ DOMAIN snippets' = (DOMAIN snippets) \cup {Len(snippets) + 1}
          /\ snippets'[Len(snippets) + 1] = current
          /\ \A i \in DOMAIN snippets : snippets'[i] = snippets[i]
      BY <2>1, <2>3, OrderFacts
    <3> QED
      BY <3>1 DEF Covered, InSnippet
  <2> QED
    BY <2>1, <2>2, <2>3
<1> QED
  BY <1>1, <1>2 DEF ReadLine

\* A line of a context or with a match is covered, and with it those still queued.
LEMMA NowCovered ==
    ASSUME OrderInv, ReadLine,
           \/ ReadOn(lineCount + 1)
           \/ ReadAnew(lineCount + 1) /\ Matched(lineCount + 1),
           NEW m, m = lineCount + 1 \/ Queued(m)
    PROVE  Covered(m)'
<1>1. m \in LinesOf(current')
  <2>1. CASE ReadOn(lineCount + 1)
    BY <2>1, ReadOnCovers DEF Queued
  <2>2. CASE ReadAnew(lineCount + 1) /\ Matched(lineCount + 1)
    <3>1. LinesOf(current') = {queue[k] : k \in DOMAIN queue} \cup {lineCount + 1}
      BY <2>2, MatchFacts
    <3> QED
      BY <3>1 DEF Queued
  <2> QED
    BY <2>1, <2>2
<1> QED
  BY <1>1 DEF Covered

\* How justRead moves.
LEMMA JustReadFacts ==
    ASSUME OrderInv, ReadLine
    PROVE  /\ ReadOn(lineCount + 1) =>
                \/ justRead' = ContextLines /\ Matched(lineCount + 1)
                \/ justRead' = justRead - 1 /\ (Matched(lineCount + 1) => justRead' >= 1)
           /\ ReadAnew(lineCount + 1) =>
                IF Matched(lineCount + 1) THEN justRead' = ContextLines ELSE justRead' = -1
<1>1. lineCount + 1 \in DOMAIN text /\ words \in Seq(Vocabulary) /\ text \in Seq(SUBSET Vocabulary)
  BY OrderFacts DEF OrderInv, ReaderTypeOK, ReadLine
<1>2. Matched(lineCount + 1) <=> HitsOn(lineCount + 1) # {}
  BY <1>1, MatchIsHit
<1>3. ASSUME ReadOn(lineCount + 1)
      PROVE  \/ justRead' = ContextLines /\ Matched(lineCount + 1)
             \/ justRead' = justRead - 1 /\ (Matched(lineCount + 1) => justRead' >= 1)
  <2>1. justRead \in 1..ContextLines /\ ContextLines \in Nat
    BY <1>3, ReadOnCovers, OrderFacts
  <2>2. justRead' = IF justRead = 1 /\ Matched(lineCount + 1) THEN ContextLines ELSE justRead - 1
    BY <1>2, <1>3 DEF ReadOn
  <2> QED
    BY <2>1, <2>2
<1>4. ReadAnew(lineCount + 1) =>
        IF Matched(lineCount + 1) THEN justRead' = ContextLines ELSE justRead' = -1
  BY DEF ReadAnew
<1> QED
  BY <1>3, <1>4

\* The cover grows by the line just read: by that of a context or with a match ...
LEMMA CoverGrows ==
    ASSUME OrderInv, CoverInv, ReadLine,
           \/ ReadOn(lineCount + 1)
           \/ ReadAnew(lineCount + 1) /\ Matched(lineCount + 1)
    PROVE  CoverInv'
<1>0. PICK n : n = lineCount + 1
  OBVIOUS
<1>1. /\ lineCount' = n /\ n = lineCount + 1 /\ readerPc = "read" /\ readerPc' = "read"
      /\ UNCHANGED <<text, words>> /\ n <= Len(text)
      /\ lineCount \in Nat /\ ContextLines \in Nat \ {0} /\ justRead \in -1..ContextLines
      /\ DOMAIN text = 1..Len(text) /\ Len(text) \in Nat
  BY <1>0, OrderFacts DEF ReadLine, OrderInv, ReaderTypeOK
<1>2. \A m : Matched(m)' = Matched(m) /\ Isolated(m)' = Isolated(m)
  BY <1>1, SameText
<1>3. BeforeMatches /\ WindowKept /\ AfterMatches /\ AfterIsolated /\ ContextHasMatch
  BY <1>1 DEF CoverInv
<1>4. Covered(n)' /\ \A m : Covered(m) \/ Queued(m) => Covered(m)'
  BY <1>0, NowCovered, CoveredStays
<1>5. BeforeMatches'
  <2> SUFFICES ASSUME NEW m \in 1..n, Matched(m), NEW l \in m - ContextLines..m, l >= 1
               PROVE  Covered(l)'
    BY <1>1, <1>2 DEF BeforeMatches
  <2>1. CASE m <= lineCount
    <3>1. m \in 1..lineCount
      BY <1>1, <2>1
    <3> QED
      BY <1>3, <1>4, <3>1 DEF BeforeMatches
  <2>2. CASE m = n /\ l < n
    <3>1. l \in 1..lineCount /\ l > lineCount - ContextLines
      BY <1>1, <2>2
    <3> QED
      BY <1>3, <1>4, <3>1 DEF WindowKept
  <2>3. CASE l = n
    BY <1>4, <2>3
  <2>4. m <= lineCount \/ (m = n /\ l < n) \/ l = n
    BY <1>1
  <2> QED
    BY <2>1, <2>2, <2>3, <2>4
<1>6. WindowKept'
  <2> SUFFICES ASSUME NEW m \in 1..n, m > n - ContextLines
               PROVE  Covered(m)'
    BY <1>1 DEF WindowKept
  <2>1. m = n \/ (m \in 1..lineCount /\ m > lineCount - ContextLines)
    BY <1>1
  <2> QED
    BY <1>3, <1>4, <2>1 DEF WindowKept
<1>7. AfterMatches'
  <2>1. ASSUME NEW m \in 1..n - 1, Matched(m) PROVE Covered(m + 1)'
    <3>1. m + 1 = n \/ m \in 1..lineCount - 1
      BY <1>1
    <3>2. CASE m + 1 = n
      BY <1>4, <3>2
    <3>3. CASE m \in 1..lineCount - 1
      BY <1>3, <1>4, <2>1, <3>3 DEF AfterMatches
    <3> QED
      BY <3>1, <3>2, <3>3
  <2>2. Matched(n) => justRead' >= 1
    BY <1>1, <1>0, JustReadFacts
  <2> QED
    BY <1>1, <1>2, <2>1, <2>2 DEF AfterMatches
<1>8. AfterIsolated'
  <2> SUFFICES ASSUME NEW m \in 1..n, Matched(m), Isolated(m)
               PROVE  /\ \A l \in m..m + ContextLines : l <= n => Covered(l)'
                      /\ justRead' >= m + ContextLines - n
    BY <1>1, <1>2 DEF AfterIsolated
  <2>1. CASE m <= lineCount
    <3>1. m \in 1..lineCount
      BY <1>1, <2>1
    <3>2. /\ \A l \in m..m + ContextLines : l <= lineCount => Covered(l)
          /\ justRead >= m + ContextLines - lineCount
      BY <1>3, <3>1 DEF AfterIsolated
    <3>3. \A l \in m..m + ContextLines : l <= n => l <= lineCount \/ l = n
      BY <1>1
    <3>4. justRead' = ContextLines \/ justRead' = justRead - 1
      BY <1>0, JustReadFacts
    <3>5. justRead' >= m + ContextLines - n
      BY <1>1, <3>1, <3>2, <3>4
    <3> QED
      BY <1>4, <3>2, <3>3, <3>5
  <2>2. CASE m = n
    <3>1. \A l \in m..m + ContextLines : l <= n => l = n
      BY <1>1, <2>2
    <3>2. CASE ReadOn(lineCount + 1)
      <4>1. justRead \in 1..ContextLines
        BY <3>2, <1>0, ReadOnCovers
      <4>2. /\ lineCount - ContextLines + justRead \in n - ContextLines..n - 1
            /\ lineCount - ContextLines + justRead \in DOMAIN text
            /\ Matched(lineCount - ContextLines + justRead)
        BY <1>1, <1>3, <4>1 DEF ContextHasMatch
      <4> QED
        BY <2>2, <4>2 DEF Isolated
    <3>3. CASE ReadAnew(lineCount + 1) /\ Matched(lineCount + 1)
      BY <1>1, <1>4, <2>2, <3>1, <3>3, <1>0, JustReadFacts
    <3> QED
      BY <3>2, <3>3
  <2>3. m <= lineCount \/ m = n
    BY <1>1
  <2> QED
    BY <2>1, <2>2, <2>3
<1>9. ContextHasMatch'
  <2>1. CASE justRead' = ContextLines /\ Matched(n)
    <3>1. n - ContextLines + justRead' = n
      BY <1>1, <2>1
    <3> QED
      BY <1>1, <1>2, <2>1, <3>1 DEF ContextHasMatch
  <2>2. CASE ReadOn(n) /\ justRead' = justRead - 1
    <3>1. justRead \in 1..ContextLines
      BY <2>2, <1>0, ReadOnCovers
    <3>2. n - ContextLines + justRead' = lineCount - ContextLines + justRead
      BY <1>1, <2>2, <3>1
    <3> QED
      BY <1>1, <1>2, <1>3, <2>2, <3>1, <3>2 DEF ContextHasMatch
  <2> QED
    BY <2>1, <2>2, <1>0, JustReadFacts
<1> QED
  BY <1>1, <1>5, <1>6, <1>7, <1>8, <1>9 DEF CoverInv

\* ... or by that of no context and without a match, which is queued.
LEMMA CoverPasses ==
    ASSUME OrderInv, CoverInv, ReadLine, ReadAnew(lineCount + 1), ~Matched(lineCount + 1)
    PROVE  CoverInv'
<1>0. PICK n : n = lineCount + 1
  OBVIOUS
<1>1. /\ lineCount' = n /\ n = lineCount + 1 /\ readerPc = "read" /\ readerPc' = "read"
      /\ UNCHANGED <<text, words>> /\ n <= Len(text)
      /\ lineCount \in Nat /\ ContextLines \in Nat \ {0} /\ justRead \in {-1, 0}
      /\ DOMAIN text = 1..Len(text) /\ Len(text) \in Nat
  BY <1>0, OrderFacts DEF ReadLine, ReadAnew, OrderInv, ReaderTypeOK
<1>2. \A m : Matched(m)' = Matched(m) /\ Isolated(m)' = Isolated(m)
  BY <1>1, SameText
<1>3. BeforeMatches /\ WindowKept /\ AfterMatches /\ AfterIsolated /\ ContextHasMatch
  BY <1>1 DEF CoverInv
<1>4. \A m : Covered(m) => Covered(m)'
  BY CoveredStays
<1>5. ~Matched(n) /\ justRead' = -1
  BY <1>0, JustReadFacts
<1>6. BeforeMatches'
  <2> SUFFICES ASSUME NEW m \in 1..n, Matched(m), NEW l \in m - ContextLines..m, l >= 1
               PROVE  Covered(l)'
    BY <1>1, <1>2 DEF BeforeMatches
  <2>1. m # n
    BY <1>5
  <2>2. m \in 1..lineCount
    BY <1>1, <2>1
  <2> QED
    BY <1>3, <1>4, <2>2 DEF BeforeMatches
<1>7. WindowKept'
  <2>1. /\ Len(queue') \in Nat /\ Len(queue) \in Nat /\ DOMAIN queue' = 1..Len(queue')
        /\ \A k \in DOMAIN queue' : queue'[k] = (lineCount + 1) - Len(queue') + k
        /\ Len(queue') = ContextLines \/ Len(queue') = Len(queue) + 1
        /\ DOMAIN queue = 1..Len(queue)
    BY EnqueueFacts, OrderFacts
  <2>2. PICK old : old = Len(queue)
    OBVIOUS
  <2>3. PICK new : new = Len(queue')
    OBVIOUS
  <2>4. /\ old \in Nat /\ new \in Nat /\ (new = ContextLines \/ new = old + 1)
        /\ lineCount \in Nat /\ n = lineCount + 1 /\ ContextLines \in Nat
    BY <1>1, <2>1, <2>2, <2>3
  <2>5. DOMAIN queue' = 1..new /\ \A k \in 1..new : queue'[k] = n - new + k
    BY <1>0, <2>1, <2>3
  <2>6. DOMAIN queue = 1..old /\ \A k \in 1..old : queue[k] = lineCount - old + k
    BY <1>1, <2>1, <2>2 DEF OrderInv, QueueInv
  <2>7. ASSUME NEW m \in 1..n, m > n - new PROVE Queued(m)'
    <3>1. m - (n - new) \in 1..new /\ n - new + (m - (n - new)) = m
      BY <2>4, <2>7
    <3>2. queue'[m - (n - new)] = m
      BY <2>5, <3>1
    <3> QED
      BY <2>5, <3>1, <3>2 DEF Queued
  <2>8. ASSUME NEW m \in 1..n, m > n - ContextLines, m <= n - new
        PROVE  Covered(m)
    <3>1. m \in 1..lineCount /\ m > lineCount - ContextLines /\ m <= lineCount - old
      BY <2>4, <2>8
    <3>2. \A k \in 1..old : lineCount - old + k # m
      BY <2>4, <3>1
    <3>3. ~Queued(m)
      BY <2>6, <3>2 DEF Queued
    <3> QED
      BY <1>3, <3>1, <3>3 DEF WindowKept
  <2>9. \A m \in 1..n : m > n - new \/ m <= n - new
    BY <2>4
  <2>10. \A m \in 1..n : m > n - ContextLines => Covered(m)' \/ Queued(m)'
    BY <1>4, <2>7, <2>8, <2>9
  <2> QED
    BY <1>1, <2>10 DEF WindowKept
<1>8. AfterMatches'
  <2>1. ASSUME NEW m \in 1..n - 1, Matched(m) PROVE Covered(m + 1)'
    <3>1. m # lineCount
      BY <1>1, <1>3, <2>1 DEF AfterMatches
    <3>2. m \in 1..lineCount - 1
      BY <1>1, <3>1
    <3> QED
      BY <1>3, <1>4, <2>1, <3>2 DEF AfterMatches
  <2> QED
    BY <1>1, <1>2, <1>5, <2>1 DEF AfterMatches
<1>9. AfterIsolated'
  <2> SUFFICES ASSUME NEW m \in 1..n, Matched(m), Isolated(m)
               PROVE  /\ \A l \in m..m + ContextLines : l <= n => Covered(l)'
                      /\ -1 >= m + ContextLines - n
    BY <1>1, <1>2, <1>5 DEF AfterIsolated
  <2>1. m # n
    BY <1>5
  <2>2. m \in 1..lineCount
    BY <1>1, <2>1
  <2>3. /\ \A l \in m..m + ContextLines : l <= lineCount => Covered(l)
        /\ justRead >= m + ContextLines - lineCount
    BY <1>3, <2>2 DEF AfterIsolated
  <2>4. m + ContextLines <= lineCount /\ m + ContextLines - n <= -1
    BY <1>1, <2>2, <2>3
  <2>5. \A l \in m..m + ContextLines : l <= lineCount
    BY <1>1, <2>2, <2>4
  <2>6. -1 >= m + ContextLines - n
    BY <1>1, <2>2, <2>4
  <2> QED
    BY <1>4, <2>3, <2>5, <2>6
<1>10. ContextHasMatch'
  BY <1>5 DEF ContextHasMatch
<1> QED
  BY <1>1, <1>6, <1>7, <1>8, <1>9, <1>10 DEF CoverInv

LEMMA EndOfTextCovers ==
    ASSUME OrderInv, CoverInv, EndOfText
    PROVE  CoverInv'
<1>1. /\ readerPc = "read" /\ readerPc' = "sort" /\ lineCount = Len(text)
      /\ UNCHANGED <<text, words>>
      /\ snippets' = IF current.lines = <<>> THEN snippets ELSE Append(snippets, current)
  BY DEF EndOfText
<1>2. /\ DOMAIN text = 1..lineCount /\ lineCount \in Nat /\ ContextLines \in Nat \ {0}
      /\ justRead \in -1..ContextLines
  BY <1>1, OrderFacts DEF OrderInv, ReaderTypeOK
<1>3. \A m : Matched(m)' = Matched(m) /\ Isolated(m)' = Isolated(m)
  BY <1>1, SameText
<1>4. BeforeMatches /\ AfterMatches /\ AfterIsolated
  BY <1>1 DEF CoverInv
<1>5. ASSUME NEW m, Covered(m) PROVE InSnippet(m)'
  <2>1. CASE current.lines = <<>>
    <3>1. LinesOf(current) = {}
      BY <2>1 DEF LinesOf
    <3> QED
      BY <1>1, <1>5, <2>1, <3>1 DEF Covered, InSnippet
  <2>2. CASE current.lines # <<>>
    <3>1. /\ DOMAIN snippets' = (DOMAIN snippets) \cup {Len(snippets) + 1}
          /\ snippets'[Len(snippets) + 1] = current
          /\ \A i \in DOMAIN snippets : snippets'[i] = snippets[i]
      BY <1>1, <2>2, OrderFacts
    <3> QED
      BY <1>5, <3>1 DEF Covered, InSnippet
  <2> QED
    BY <2>1, <2>2
<1>6. ASSUME NEW m \in 1..lineCount, Matched(m)
      PROVE  /\ \A l \in m - ContextLines..m + 1 : l \in 1..lineCount => Covered(l)
             /\ Isolated(m) => \A l \in m..m + ContextLines : l \in 1..lineCount => Covered(l)
  <2>1. ASSUME NEW l \in m - ContextLines..m + 1, l \in 1..lineCount
        PROVE  Covered(l)
    <3>1. CASE l = m + 1
      <4>1. m \in 1..lineCount - 1
        BY <1>2, <2>1, <3>1
      <4> QED
        BY <1>4, <1>6, <3>1, <4>1 DEF AfterMatches
    <3>2. CASE l # m + 1
      <4>1. l \in m - ContextLines..m /\ l >= 1
        BY <1>2, <2>1, <3>2
      <4> QED
        BY <1>4, <1>6, <4>1 DEF BeforeMatches
    <3> QED
      BY <3>1, <3>2
  <2>2. ASSUME Isolated(m), NEW l \in m..m + ContextLines, l \in 1..lineCount
        PROVE  Covered(l)
    <3>1. l <= lineCount
      BY <1>2, <2>2
    <3> QED
      BY <1>4, <1>6, <2>2, <3>1 DEF AfterIsolated
  <2> QED
    BY <2>1, <2>2
<1>7. Around'
  BY <1>1, <1>2, <1>3, <1>5, <1>6 DEF Around
<1> QED
  BY <1>1, <1>7 DEF CoverInv

LEMMA SortCovers ==
    ASSUME OrderInv, CoverInv, SortSnippets
    PROVE  CoverInv'
<1>1. /\ readerPc = "sort" /\ readerPc' = "done" /\ UNCHANGED <<text, words>>
      /\ \E f \in [DOMAIN snippets -> DOMAIN snippets] :
            /\ DOMAIN snippets' = DOMAIN snippets
            /\ \A i \in DOMAIN snippets : snippets'[i] = snippets[f[i]]
            /\ \A i \in DOMAIN snippets : \E j \in DOMAIN snippets : f[j] = i
  BY SortFacts
<1>2. \A m : InSnippet(m) => InSnippet(m)'
  BY <1>1 DEF InSnippet
<1>3. \A m : Matched(m)' = Matched(m) /\ Isolated(m)' = Isolated(m)
  BY <1>1, SameText
<1>4. Around'
  BY <1>1, <1>2, <1>3 DEF CoverInv, Around
<1> QED
  BY <1>1, <1>4 DEF CoverInv

LEMMA OpenFileCovers ==
    ASSUME OrderInv, NEW t \in Seq(SUBSET Vocabulary), NEW ws \in Seq(Vocabulary), OpenFile(t, ws)
    PROVE  CoverInv'
<1>1. lineCount' = 0 /\ justRead' = -1 /\ readerPc' \in {"read", "unreadable"}
  BY DEF OrderInv, UnreadInv, OpenFile
<1>2. /\ BeforeMatches' /\ WindowKept' /\ AfterMatches' /\ AfterIsolated' /\ ContextHasMatch'
  BY <1>1 DEF BeforeMatches, WindowKept, AfterMatches, AfterIsolated, ContextHasMatch
<1> QED
  BY <1>1, <1>2 DEF CoverInv

LEMMA CoverStutter ==
    ASSUME CoverInv, UNCHANGED readerVars
    PROVE  CoverInv'
<1>1. UNCHANGED <<text, words, readerPc, lineCount, queue, justRead, current, snippets>>
  BY DEF readerVars
<1>2. \A m : /\ Matched(m)' = Matched(m) /\ Isolated(m)' = Isolated(m)
             /\ Covered(m)' = Covered(m) /\ Queued(m)' = Queued(m) /\ InSnippet(m)' = InSnippet(m)
  BY <1>1 DEF Matched, Isolated, Occurs, Covered, Queued, InSnippet
<1> QED
  BY <1>1, <1>2 DEF CoverInv, BeforeMatches, WindowKept, AfterMatches, AfterIsolated,
                    ContextHasMatch, Around

LEMMA CoverNext == OrderInv /\ CoverInv /\ [ReaderNext]_readerVars => CoverInv'
<1> SUFFICES ASSUME OrderInv, CoverInv, [ReaderNext]_readerVars PROVE CoverInv'
  OBVIOUS
<1>1. CASE \E t \in Seq(SUBSET Vocabulary), ws \in Seq(Vocabulary) : OpenFile(t, ws)
  BY <1>1, OpenFileCovers
<1>2. CASE ReadLine
  <2>1. ReadOn(lineCount + 1) \/ ReadAnew(lineCount + 1)
    BY <1>2 DEF ReadLine
  <2> QED
    BY <1>2, <2>1, CoverGrows, CoverPasses
<1>3. CASE EndOfText
  BY <1>3, EndOfTextCovers
<1>4. CASE SortSnippets
  BY <1>4, SortCovers
<1>5. CASE UNCHANGED readerVars
  BY <1>5, CoverStutter
<1> QED
  BY <1>1, <1>2, <1>3, <1>4, <1>5 DEF ReaderNext

\* The second inductive invariant: what is covered, queued and promised while the text is read.
THEOREM CoverCorrect == ReaderSpec => []CoverInv
<1>1. ReaderInit => CoverInv
  BY DEF ReaderInit, CoverInv
<1> QED
  BY <1>1, OrderCorrect, CoverNext, PTL DEF ReaderSpec

\* Every line with a searched word is shown with contextLinesCount lines before it and the
\* line after it, the first of a snippet with contextLinesCount after it.
THEOREM ContextAroundCorrect == ReaderSpec => []ContextAround
<1>1. CoverInv => ContextAround
  BY DEF CoverInv, Around, Isolated, ContextAround
<1> QED
  BY <1>1, CoverCorrect, PTL
----------------------------------------------------------------------------
\* The words whose count is claimed, the places they have in the list, and the lines up to
\* n that have them.
Sought == {w \in Vocabulary : Whole(w) /\ \E i \in DOMAIN words : words[i] = w}
PlacesOf(w) == {k \in DOMAIN words : words[k] = w}
LinesWith(w, n) == {m \in 1..n : Occurs(w, m)}

\* Whatever is not in a snippet yet has none of the words; what is was counted.
CountsKept ==
    /\ \A w \in Sought : Total(w) + current.counts[w]
                           = Cardinality(PlacesOf(w)) * Cardinality(LinesWith(w, lineCount))
    /\ current.lines = <<>> => \A w \in Vocabulary : current.counts[w] = 0
    /\ \A k \in DOMAIN queue : ~Matched(queue[k])
AllCounted ==
    \A w \in Sought :
        Total(w) = Cardinality(PlacesOf(w)) * Cardinality(LinesWith(w, Len(text)))
TallyInv ==
    /\ readerPc = "read" => CountsKept
    /\ readerPc \in {"sort", "done"} => AllCounted

\* The numbers that are added and multiplied.
LEMMA TallyTypes ==
    ASSUME ReaderTypeOK, NEW w \in Vocabulary, NEW n \in Nat
    PROVE  /\ IsFiniteSet(PlacesOf(w)) /\ Cardinality(PlacesOf(w)) \in Nat
           /\ IsFiniteSet(LinesWith(w, n)) /\ Cardinality(LinesWith(w, n)) \in Nat
           /\ Len(snippets) \in Nat /\ DOMAIN snippets = 1..Len(snippets)
           /\ [i \in DOMAIN snippets |-> snippets[i].counts[w]] \in [1..Len(snippets) -> Int]
           /\ Total(w) \in Int
           /\ current.counts[w] \in Nat
<1>1. /\ words \in Seq(Vocabulary) /\ Len(words) \in Nat /\ DOMAIN words = 1..Len(words)
      /\ snippets \in Seq(Snippet) /\ Len(snippets) \in Nat
      /\ DOMAIN snippets = 1..Len(snippets)
  BY DEF ReaderTypeOK
<1>2. IsFiniteSet(PlacesOf(w)) /\ Cardinality(PlacesOf(w)) \in Nat
  <2>1. IsFiniteSet(DOMAIN words) /\ PlacesOf(w) \subseteq DOMAIN words
    BY <1>1, FS_Interval DEF PlacesOf
  <2> QED
    BY <2>1, FS_Subset, FS_CardinalityType
<1>3. IsFiniteSet(LinesWith(w, n)) /\ Cardinality(LinesWith(w, n)) \in Nat
  <2>1. IsFiniteSet(1..n) /\ LinesWith(w, n) \subseteq 1..n
    BY FS_Interval DEF LinesWith
  <2> QED
    BY <2>1, FS_Subset, FS_CardinalityType
<1>4. \A i \in DOMAIN snippets : snippets[i] \in Snippet
  BY <1>1
<1>5. [i \in DOMAIN snippets |-> snippets[i].counts[w]] \in [1..Len(snippets) -> Int]
  BY <1>1, <1>4 DEF Snippet
<1>6. Total(w) \in Int
  BY <1>1, <1>5, SumIs DEF Total
<1>7. current.counts[w] \in Nat
  BY DEF ReaderTypeOK, Snippet
<1> QED
  BY <1>1, <1>2, <1>3, <1>5, <1>6, <1>7

\* A word that nothing tears is hit in every line it occurs in, so appending lines counts
\* each line with it once for every place in the list.
LEMMA AppendCounts ==
    ASSUME ReaderTypeOK, NEW s \in Snippet, NEW e \in Seq(EntryType), NEW w \in Sought
    PROVE  LET with == {k \in DOMAIN e : Occurs(w, e[k].line)} IN
           /\ IsFiniteSet(with) /\ Cardinality(with) \in Nat
           /\ AppendLines(s, e).counts[w]
                = s.counts[w] + Cardinality(PlacesOf(w)) * Cardinality(with)
<1> DEFINE with == {k \in DOMAIN e : Occurs(w, e[k].line)}
           hits == {p \in (DOMAIN words) \X (DOMAIN e) :
                       words[p[1]] = w /\ Hit(p[1], e[p[2]].line)}
<1>1. /\ words \in Seq(Vocabulary) /\ Len(words) \in Nat /\ DOMAIN words = 1..Len(words)
      /\ DOMAIN e = 1..Len(e) /\ Len(e) \in Nat /\ w \in Vocabulary
  BY DEF ReaderTypeOK, Sought
<1>2. IsFiniteSet(with) /\ Cardinality(with) \in Nat
  <2>1. IsFiniteSet(DOMAIN e) /\ with \subseteq DOMAIN e
    BY <1>1, FS_Interval
  <2> QED
    BY <2>1, FS_Subset, FS_CardinalityType
<1>3. ASSUME NEW i \in DOMAIN words, words[i] = w, NEW n PROVE Hit(i, n) <=> Occurs(w, n)
  <2>1. \A j \in 1..i - 1 : j \in DOMAIN words
    BY <1>1
  <2>2. w \notin Markup /\ \A j \in DOMAIN words : words[j] \notin Parts[w]
    BY DEF Sought, Whole
  <2> QED
    BY <1>3, <2>1, <2>2 DEF Hit
<1>4. hits = PlacesOf(w) \X with
  BY <1>3 DEF PlacesOf
<1>5. Cardinality(hits) = Cardinality(PlacesOf(w)) * Cardinality(with)
  BY <1>1, <1>2, <1>4, TallyTypes, FS_Product
<1>6. AppendLines(s, e).counts[w] = s.counts[w] + Cardinality(hits)
  BY <1>1 DEF AppendLines
<1> QED
  BY <1>2, <1>5, <1>6

\* One more line.
LEMMA OneMoreLine ==
    ASSUME NEW w, NEW n \in Nat
    PROVE  LET more == LinesWith(w, n + 1)
               lines == LinesWith(w, n)
           IN  Cardinality(more) = Cardinality(lines) + IF Occurs(w, n + 1) THEN 1 ELSE 0
<1>1. IsFiniteSet(LinesWith(w, n))
  <2>1. IsFiniteSet(1..n) /\ LinesWith(w, n) \subseteq 1..n
    BY FS_Interval DEF LinesWith
  <2> QED
    BY <2>1, FS_Subset
<1>2. n + 1 \notin LinesWith(w, n)
  BY DEF LinesWith
<1>3. CASE Occurs(w, n + 1)
  <2>1. LinesWith(w, n + 1) = LinesWith(w, n) \cup {n + 1}
    BY <1>3 DEF LinesWith
  <2> QED
    BY <1>1, <1>2, <1>3, <2>1, FS_AddElement
<1>4. CASE ~Occurs(w, n + 1)
  <2>1. LinesWith(w, n + 1) = LinesWith(w, n)
    BY <1>4 DEF LinesWith
  <2>2. Cardinality(LinesWith(w, n)) \in Nat
    BY <1>1, FS_CardinalityType
  <2> QED
    BY <1>4, <2>1, <2>2
<1> QED
  BY <1>3, <1>4

\* What depends on the text and the list only.
LEMMA SameSearch ==
    ASSUME UNCHANGED <<text, words>>
    PROVE  /\ Sought' = Sought
           /\ \A w : PlacesOf(w)' = PlacesOf(w)
           /\ \A w, n : Occurs(w, n)' = Occurs(w, n)
           /\ \A w, n : LinesWith(w, n)' = LinesWith(w, n)
           /\ \A n : Matched(n)' = Matched(n)
BY DEF Sought, Whole, PlacesOf, LinesWith, Matched, Occurs

\* A snippet that is put away takes its counts along.
LEMMA PutAway ==
    ASSUME ReaderTypeOK, NEW w \in Vocabulary, snippets' = Append(snippets, current)
    PROVE  Total(w)' = Total(w) + current.counts[w]
<1> DEFINE s == [i \in DOMAIN snippets |-> snippets[i].counts[w]]
           t == [i \in DOMAIN snippets' |-> snippets'[i].counts[w]]
           n == Len(snippets)
<1>1. n \in Nat /\ DOMAIN snippets = 1..n /\ s \in [1..n -> Int] /\ current.counts[w] \in Int
  BY TallyTypes
<1>2. /\ DOMAIN snippets' = 1..(n + 1) /\ snippets'[n + 1] = current
      /\ \A i \in 1..n : snippets'[i] = snippets[i]
  <2>1. snippets \in Seq(Snippet) /\ current \in Snippet
    BY DEF ReaderTypeOK
  <2> QED
    BY <2>1, <1>1
<1>3. t[n + 1] = current.counts[w] /\ \A i \in 1..n : t[i] = s[i]
  BY <1>1, <1>2
<1>4. t \in [1..(n + 1) -> Int]
  <2>1. \A i \in 1..(n + 1) : t[i] \in Int
    <3>1. \A i \in 1..(n + 1) : i \in 1..n \/ i = n + 1
      BY <1>1
    <3> QED
      BY <1>1, <1>3, <3>1
  <2> QED
    BY <1>2, <2>1
<1> HIDE DEF s, t
<1>5. Sum(t) = Sum(s) + t[n + 1]
  BY <1>1, <1>3, <1>4, SumExtend
<1> QED
  BY <1>3, <1>5 DEF Total, s, t

\* Arithmetic of one line more.
LEMMA OneTimeMore ==
    ASSUME NEW c \in Int, NEW a \in Int
    PROVE  c * (a + 1) = c * a + c * 1 /\ c * (a + 0) = c * a + c * 0
OBVIOUS

\* A line that has been appended is counted, and one that has not has none of the words.
LEMMA LineCounted ==
    ASSUME OrderInv, CountsKept, lineCount' = lineCount + 1, lineCount' \in Line,
           UNCHANGED <<text, words>>, NEW w \in Sought, NEW k \in {0, 1},
           k = 1 <=> Occurs(w, lineCount + 1),
           NEW t \in Int, t = Total(w) + current.counts[w]
    PROVE  t + Cardinality(PlacesOf(w)) * k
             = Cardinality(PlacesOf(w)) * Cardinality(LinesWith(w, lineCount + 1))
<1> DEFINE c == Cardinality(PlacesOf(w))
           a == Cardinality(LinesWith(w, lineCount))
<1>1. lineCount \in Nat /\ ReaderTypeOK /\ w \in Vocabulary
  BY OrderFacts DEF OrderInv, Sought
<1>2. c \in Int /\ a \in Int
  BY <1>1, TallyTypes
<1>3. t = c * a
  BY DEF CountsKept
<1>4. Cardinality(LinesWith(w, lineCount + 1)) = a + k
  BY <1>1, <1>2, OneMoreLine
<1>5. c * (a + k) = c * a + c * k
  BY <1>2, OneTimeMore
<1> QED
  BY <1>3, <1>4, <1>5

\* A line of the context.
LEMMA ReadOnCounts ==
    ASSUME OrderInv, CountsKept, ReadLine, ReadOn(lineCount + 1)
    PROVE  CountsKept'
<1> DEFINE n == lineCount + 1
           e == <<Entry(n, n)>>
<1>1. /\ current'.lines # <<>> /\ queue' = queue /\ snippets' = snippets /\ queue = <<>>
      /\ UNCHANGED <<text, words>> /\ lineCount' = n /\ n \in Line
      /\ ReaderTypeOK /\ current \in Snippet
  BY ReadOnCovers, OrderFacts DEF OrderInv
<1>2. current' = AppendLines(current, e)
  BY DEF ReadOn
<1>3. e \in Seq(EntryType) /\ DOMAIN e = {1} /\ e[1].line = n
  BY <1>1 DEF Entry, EntryType
<1>4. ASSUME NEW w \in Sought
      PROVE  Total(w)' + current'.counts[w]
               = Cardinality(PlacesOf(w)) * Cardinality(LinesWith(w, n))
  <2> DEFINE with == {k \in DOMAIN e : Occurs(w, e[k].line)}
  <2>1. /\ current'.counts[w] = current.counts[w] + Cardinality(PlacesOf(w)) * Cardinality(with)
    BY <1>1, <1>2, <1>3, AppendCounts
  <2>2. PICK k \in {0, 1} : Cardinality(with) = k /\ (k = 1 <=> Occurs(w, n))
    <3>1. with = IF Occurs(w, n) THEN {1} ELSE {}
      BY <1>3
    <3> QED
      BY <3>1, FS_Singleton, FS_EmptySet
  <2>3. Total(w)' = Total(w)
    BY <1>1 DEF Total
  <2>4. /\ w \in Vocabulary /\ lineCount \in Nat
        /\ Total(w) \in Int /\ current.counts[w] \in Int /\ Cardinality(PlacesOf(w)) \in Int
    <3>1. w \in Vocabulary /\ lineCount \in Nat
      BY OrderFacts DEF Sought
    <3> QED
      BY <1>1, <3>1, TallyTypes
  <2>5. PICK t \in Int : t = Total(w) + current.counts[w]
    BY <2>4
  <2>6. t + Cardinality(PlacesOf(w)) * k
          = Cardinality(PlacesOf(w)) * Cardinality(LinesWith(w, n))
    BY <1>1, <2>2, <2>5, LineCounted
  <2>7. Cardinality(PlacesOf(w)) * k \in Int
    BY <2>2, <2>4
  <2> QED
    BY <2>1, <2>2, <2>3, <2>4, <2>5, <2>6, <2>7
<1>5. DOMAIN queue' = {}
  BY <1>1
<1> QED
  BY <1>1, <1>4, <1>5, SameSearch DEF CountsKept

\* A snippet that has ended is put away, and the next one begins with nothing counted.
LEMMA StartedCounts ==
    ASSUME OrderInv, CountsKept, ReadLine, ReadAnew(lineCount + 1), NEW w \in Vocabulary
    PROVE  /\ Started.counts[w] = 0
           /\ Total(w)' = Total(w) + current.counts[w]
           /\ Total(w) \in Int /\ current.counts[w] \in Int
<1>1. /\ readerPc = "read" /\ justRead <= 0 /\ ReaderTypeOK
      /\ snippets' = IF justRead = 0 THEN Append(snippets, current) ELSE snippets
  BY DEF ReadLine, ReadAnew, OrderInv
<1>2. justRead \in {-1, 0}
  BY <1>1, OrderFacts
<1>3. Total(w) \in Int /\ current.counts[w] \in Int
  <2>1. lineCount \in Nat /\ ReaderTypeOK
    BY OrderFacts DEF OrderInv
  <2>2. Total(w) \in Int /\ current.counts[w] \in Nat
    BY <2>1, TallyTypes
  <2> QED
    BY <2>2
<1>4. CASE justRead = 0
  BY <1>1, <1>3, <1>4, PutAway DEF Started, NoSnippet
<1>5. CASE justRead = -1
  <2>1. current.lines = <<>>
    BY <1>1, <1>5 DEF OrderInv, CurrentInv
  <2>2. current.counts[w] = 0
    BY <2>1 DEF CountsKept
  <2>3. Total(w)' = Total(w) /\ Started = current
    BY <1>1, <1>5 DEF Total, Started
  <2> QED
    BY <1>3, <2>2, <2>3
<1> QED
  BY <1>2, <1>4, <1>5

\* A line with a searched word: of the lines it appends it alone has one.
LEMMA MatchCounts ==
    ASSUME OrderInv, CountsKept, ReadLine, ReadAnew(lineCount + 1), Matched(lineCount + 1)
    PROVE  CountsKept'
<1> DEFINE n == lineCount + 1
           e == QueuedEntries(n) \o <<Entry(n, n)>>
<1>1. /\ current'.lines # <<>> /\ queue' = <<>> /\ Started \in Snippet
      /\ UNCHANGED <<text, words>> /\ lineCount' = n /\ n \in Line /\ readerPc = "read"
      /\ ReaderTypeOK /\ QueueInv /\ lineCount < Len(text)
  BY MatchFacts, ReadAnewFacts DEF OrderInv, ReadLine
<1>2. current' = AppendLines(Started, e)
  BY DEF ReadAnew, Started
<1>3. /\ Len(queue) \in Nat /\ DOMAIN queue = 1..Len(queue) /\ lineCount \in Nat
      /\ \A k \in DOMAIN queue : queue[k] = lineCount - Len(queue) + k
  BY <1>1, OrderFacts DEF QueueInv
<1>4. /\ e \in Seq(EntryType) /\ Len(e) = Len(queue) + 1
      /\ \A k \in 1..Len(e) : e[k].line = n - Len(queue) + k - 1
  BY <1>1, QueuedFacts
<1>5. /\ DOMAIN e = 1..(Len(queue) + 1) /\ e[Len(queue) + 1].line = n
      /\ \A k \in DOMAIN queue : ~Matched(e[k].line)
  <2>1. DOMAIN e = 1..(Len(queue) + 1)
    BY <1>4
  <2>2. e[Len(queue) + 1].line = n
    BY <1>3, <1>4
  <2>3. \A k \in DOMAIN queue : e[k].line = queue[k]
    BY <1>3, <1>4
  <2> QED
    BY <2>1, <2>2, <2>3 DEF CountsKept
<1> HIDE DEF e
<1>6. ASSUME NEW w \in Sought
      PROVE  Total(w)' + current'.counts[w]
               = Cardinality(PlacesOf(w)) * Cardinality(LinesWith(w, n))
  <2> DEFINE with == {k \in DOMAIN e : Occurs(w, e[k].line)}
  <2>1. current'.counts[w] = Started.counts[w] + Cardinality(PlacesOf(w)) * Cardinality(with)
    BY <1>1, <1>2, <1>4, AppendCounts
  <2>2. PICK k \in {0, 1} : Cardinality(with) = k /\ (k = 1 <=> Occurs(w, n))
    <3>1. \A l \in DOMAIN queue : ~Occurs(w, e[l].line)
      BY <1>5 DEF Matched, Sought
    <3>2. with = IF Occurs(w, n) THEN {Len(queue) + 1} ELSE {}
      BY <1>3, <1>5, <3>1
    <3> QED
      BY <3>2, FS_Singleton, FS_EmptySet
  <2>3. w \in Vocabulary /\ Cardinality(PlacesOf(w)) \in Int
    <3>1. w \in Vocabulary
      BY DEF Sought
    <3> QED
      BY <1>1, <1>3, <3>1, TallyTypes
  <2>4. /\ Started.counts[w] = 0 /\ Total(w)' = Total(w) + current.counts[w]
        /\ Total(w) \in Int /\ current.counts[w] \in Int
    BY <2>3, StartedCounts
  <2>5. PICK t \in Int : t = Total(w) + current.counts[w]
    BY <2>4
  <2>6. t + Cardinality(PlacesOf(w)) * k
          = Cardinality(PlacesOf(w)) * Cardinality(LinesWith(w, n))
    BY <1>1, <2>2, <2>5, LineCounted
  <2>7. Cardinality(PlacesOf(w)) * k \in Int
    BY <2>2, <2>3
  <2> QED
    BY <2>1, <2>2, <2>4, <2>5, <2>6, <2>7
<1>7. DOMAIN queue' = {}
  BY <1>1
<1> QED
  BY <1>1, <1>6, <1>7, SameSearch DEF CountsKept

\* A line without one waits in the queue.
LEMMA PassOverCounts ==
    ASSUME OrderInv, CountsKept, ReadLine, ReadAnew(lineCount + 1), ~Matched(lineCount + 1)
    PROVE  CountsKept'
<1> DEFINE n == lineCount + 1
<1>1. /\ UNCHANGED <<text, words>> /\ lineCount' = n /\ n \in Line
      /\ ReaderTypeOK /\ lineCount \in Nat
  BY ReadAnewFacts, OrderFacts DEF OrderInv
<1>2. current' = Started
  BY DEF ReadAnew, Started
<1>3. ASSUME NEW w \in Sought
      PROVE  Total(w)' + current'.counts[w]
               = Cardinality(PlacesOf(w)) * Cardinality(LinesWith(w, n))
  <2>1. w \in Vocabulary /\ ~Occurs(w, n)
    BY DEF Sought, Matched
  <2>2. /\ Started.counts[w] = 0 /\ Total(w)' = Total(w) + current.counts[w]
        /\ Total(w) \in Int /\ current.counts[w] \in Int
    BY <2>1, StartedCounts
  <2>3. PICK t \in Int : t = Total(w) + current.counts[w]
    BY <2>2
  <2>4. t + Cardinality(PlacesOf(w)) * 0
          = Cardinality(PlacesOf(w)) * Cardinality(LinesWith(w, n))
    BY <1>1, <2>1, <2>3, LineCounted
  <2>5. Cardinality(PlacesOf(w)) * 0 = 0
    <3>1. Cardinality(PlacesOf(w)) \in Int
      BY <1>1, <2>1, TallyTypes
    <3> QED
      BY <3>1
  <2> QED
    BY <1>2, <2>2, <2>3, <2>4, <2>5
<1>4. \A k \in DOMAIN queue' : ~Matched(queue'[k])
  BY EnqueueFacts DEF CountsKept
<1>5. \A w \in Vocabulary : current'.counts[w] = 0
  BY <1>2, StartedCounts
<1> QED
  BY <1>1, <1>3, <1>4, <1>5, SameSearch DEF CountsKept

LEMMA EndOfTextCounts ==
    ASSUME OrderInv, CountsKept, EndOfText
    PROVE  AllCounted'
<1>1. /\ readerPc = "read" /\ readerPc' = "sort" /\ lineCount = Len(text)
      /\ UNCHANGED <<text, words, lineCount, queue, justRead, current>>
      /\ snippets' = IF current.lines = <<>> THEN snippets ELSE Append(snippets, current)
      /\ ReaderTypeOK /\ lineCount \in Nat
  BY OrderFacts DEF EndOfText, OrderInv
<1>2. ASSUME NEW w \in Sought
      PROVE  Total(w)' = Total(w) + current.counts[w]
  <2>1. w \in Vocabulary /\ Total(w) \in Int /\ current.counts[w] \in Int
    <3>1. w \in Vocabulary
      BY DEF Sought
    <3> QED
      BY <1>1, <3>1, TallyTypes
  <2>2. CASE current.lines = <<>>
    <3>1. current.counts[w] = 0 /\ Total(w)' = Total(w)
      BY <1>1, <2>1, <2>2 DEF CountsKept, Total
    <3> QED
      BY <2>1, <3>1
  <2>3. CASE current.lines # <<>>
    BY <1>1, <2>1, <2>3, PutAway
  <2> QED
    BY <2>2, <2>3
<1> QED
  BY <1>1, <1>2, SameSearch DEF CountsKept, AllCounted

LEMMA SortCounts ==
    ASSUME OrderInv, AllCounted, SortSnippets
    PROVE  AllCounted'
<1>1. UNCHANGED <<text, words>> /\ ReaderTypeOK /\ 0 \in Nat
  BY SortFacts DEF OrderInv
<1>2. PICK f \in [DOMAIN snippets -> DOMAIN snippets] :
          /\ DOMAIN snippets' = DOMAIN snippets
          /\ \A i \in DOMAIN snippets : snippets'[i] = snippets[f[i]]
          /\ \A i, j \in DOMAIN snippets : i # j => f[i] # f[j]
          /\ \A i \in DOMAIN snippets : \E j \in DOMAIN snippets : f[j] = i
  BY SortFacts
<1>3. ASSUME NEW w \in Vocabulary PROVE Total(w)' = Total(w)
  <2> DEFINE s == [i \in DOMAIN snippets |-> snippets[i].counts[w]]
             t == [i \in DOMAIN snippets' |-> snippets'[i].counts[w]]
             n == Len(snippets)
  <2>1. n \in Nat /\ DOMAIN snippets = 1..n /\ s \in [1..n -> Int]
    BY <1>1, TallyTypes
  <2>2. \A i \in 1..n : f[i] \in 1..n /\ t[i] = s[f[i]]
    BY <1>2, <2>1
  <2>3. t \in [1..n -> Int]
    BY <1>2, <2>1, <2>2
  <2>4. Reorders(f, n)
    BY <1>2, <2>1 DEF Reorders
  <2> HIDE DEF s, t
  <2>5. Sum(t) = Sum(s)
    BY <2>1, <2>2, <2>3, <2>4, SumReordered
  <2> QED
    BY <2>5 DEF Total, s, t
<1>4. \A w \in Sought : w \in Vocabulary
  BY DEF Sought
<1> QED
  BY <1>1, <1>3, <1>4, SameSearch DEF AllCounted

LEMMA OpenFileCounts ==
    ASSUME OrderInv, NEW t \in Seq(SUBSET Vocabulary), NEW ws \in Seq(Vocabulary), OpenFile(t, ws)
    PROVE  TallyInv'
<1>1. /\ lineCount' = 0 /\ queue' = <<>> /\ current' = NoSnippet /\ snippets' = <<>>
      /\ words' = ws /\ readerPc' \in {"read", "unreadable"}
  BY DEF OrderInv, UnreadInv, OpenFile
<1>2. ASSUME NEW w \in Sought'
      PROVE  Total(w)' + current'.counts[w]
               = Cardinality(PlacesOf(w)') * Cardinality(LinesWith(w, 0)')
  <2>1. Total(w)' = 0
    <3>1. [i \in DOMAIN snippets' |-> snippets'[i].counts[w]] = <<>>
      BY <1>1
    <3> QED
      BY <3>1, SumEmpty DEF Total
  <2>2. current'.counts[w] = 0
    BY <1>1 DEF NoSnippet, Sought
  <2>3. Cardinality(LinesWith(w, 0)') = 0
    <3>1. LinesWith(w, 0)' = {}
      BY DEF LinesWith
    <3> QED
      BY <3>1, FS_EmptySet
  <2>4. Cardinality(PlacesOf(w)') \in Nat
    <3>1. IsFiniteSet(DOMAIN ws) /\ PlacesOf(w)' \subseteq DOMAIN ws
      BY <1>1, FS_Interval DEF PlacesOf
    <3> QED
      BY <3>1, FS_Subset, FS_CardinalityType
  <2> QED
    BY <2>1, <2>2, <2>3, <2>4
<1>3. \A w \in Vocabulary : current'.counts[w] = 0
  BY <1>1 DEF NoSnippet
<1>4. CountsKept'
  BY <1>1, <1>2, <1>3 DEF CountsKept
<1> QED
  BY <1>1, <1>4 DEF TallyInv

LEMMA TallyStutter == TallyInv /\ UNCHANGED readerVars => TallyInv'
BY DEF TallyInv, CountsKept, AllCounted, Sought, Whole, Total, PlacesOf, LinesWith, Matched,
       Occurs, readerVars

LEMMA TallyNext == OrderInv /\ TallyInv /\ [ReaderNext]_readerVars => TallyInv'
<1> SUFFICES ASSUME OrderInv, TallyInv, [ReaderNext]_readerVars PROVE TallyInv'
  OBVIOUS
<1>1. CASE \E t \in Seq(SUBSET Vocabulary), ws \in Seq(Vocabulary) : OpenFile(t, ws)
  BY <1>1, OpenFileCounts
<1>2. CASE ReadLine
  <2>1. readerPc = "read" /\ readerPc' = "read"
    BY <1>2 DEF ReadLine
  <2>2. CountsKept
    BY <2>1 DEF TallyInv
  <2>3. CASE ReadOn(lineCount + 1)
    BY <1>2, <2>1, <2>2, <2>3, ReadOnCounts DEF TallyInv
  <2>4. CASE ReadAnew(lineCount + 1)
    BY <1>2, <2>1, <2>2, <2>4, MatchCounts, PassOverCounts DEF TallyInv
  <2> QED
    BY <1>2, <2>3, <2>4 DEF ReadLine
<1>3. CASE EndOfText
  <2>1. readerPc = "read" /\ readerPc' = "sort"
    BY <1>3 DEF EndOfText
  <2> QED
    BY <1>3, <2>1, EndOfTextCounts DEF TallyInv
<1>4. CASE SortSnippets
  <2>1. readerPc = "sort" /\ readerPc' = "done"
    BY <1>4 DEF SortSnippets
  <2> QED
    BY <1>4, <2>1, SortCounts DEF TallyInv
<1>5. CASE UNCHANGED readerVars
  BY <1>5, TallyStutter
<1> QED
  BY <1>1, <1>2, <1>3, <1>4, <1>5 DEF ReaderNext

\* The third inductive invariant: what has been counted while the text is read.
THEOREM TallyCorrect == ReaderSpec => []TallyInv
<1>1. ReaderInit => TallyInv
  BY DEF ReaderInit, TallyInv
<1> QED
  BY <1>1, OrderCorrect, TallyNext, PTL DEF ReaderSpec

\* The header of a preview counts every line that has a searched word, once for every time
\* the word is in the list, unless another searched word tears it or a tag holds it
\* (previewgeneratorplaintext.cpp:100-132,244-258), however snippets are cut and sorted.
THEOREM EveryMatchCountedCorrect == ReaderSpec => []EveryMatchCounted
<1>1. OrderInv /\ TallyInv => EveryMatchCounted
  <2> SUFFICES ASSUME OrderInv, TallyInv, readerPc = "done",
                      NEW i \in DOMAIN words, Whole(words[i])
               PROVE  Total(words[i]) = Cardinality({k \in DOMAIN words : words[k] = words[i]}) *
                          Cardinality({n \in DOMAIN text : Occurs(words[i], n)})
    BY DEF EveryMatchCounted
  <2>1. words[i] \in Sought /\ DOMAIN text = 1..Len(text)
    BY DEF OrderInv, ReaderTypeOK, Sought
  <2>2. AllCounted
    BY DEF TallyInv
  <2> QED
    BY <2>1, <2>2 DEF AllCounted, PlacesOf, LinesWith
<1> QED
  BY <1>1, OrderCorrect, TallyCorrect, PTL

\* The types a token has, and what the tests of the program say of each of them.
OperandTypes ==
    {Word, PathContains, PathSize, PathEnds, PathStarts, TagAssigned, OutlineContains,
     ContentContains, ContentPage}
TokenTypes == OperandTypes \cup {Negation, And, Or, Open, Close}

LEMMA MarkTypes ==
    /\ And # Or /\ And # Open /\ And # Close /\ And # Negation
    /\ Or # Open /\ Or # Close /\ Or # Negation
    /\ Open # Close /\ Open # Negation /\ Close # Negation
BY DEF And, Or, Open, Close, Negation

LEMMA OperandFacts ==
    ASSUME NEW T \in OperandTypes
    PROVE  /\ T \cap {8, 256, 512} # {}
           /\ T \notin {Negation, And, Or, Open, Close}
           /\ ~(Bool \subseteq T) /\ ~(Negation \subseteq T) /\ ~(Open \subseteq T)
<1> USE DEF Word, PathContains, PathSize, PathEnds, PathStarts, TagAssigned, OutlineContains,
            ContentContains, ContentPage, Negation, And, Or, Open, Close, Bool
<1>1. 8 \in T \/ 256 \in T \/ 512 \in T
  BY DEF OperandTypes
<1>2. 16 \notin T /\ 32 \notin T /\ 64 \notin T
  BY DEF OperandTypes
<1>3. 16 \in Negation /\ 32 \in And /\ 32 \in Or /\ 32 \in Bool /\ 64 \in Open /\ 64 \in Close
  OBVIOUS
<1> QED
  BY <1>1, <1>2, <1>3

LEMMA NegationFacts ==
    /\ Negation \cap {8, 256, 512} = {} /\ Negation \subseteq Negation
    /\ And \cap {8, 256, 512} = {} /\ Or \cap {8, 256, 512} = {}
    /\ Open \cap {8, 256, 512} = {} /\ Close \cap {8, 256, 512} = {}
    /\ Bool \subseteq And /\ Bool \subseteq Or
    /\ ~(Bool \subseteq Negation) /\ ~(Bool \subseteq Open) /\ ~(Bool \subseteq Close)
    /\ ~(Negation \subseteq And) /\ ~(Negation \subseteq Or)
    /\ ~(Negation \subseteq Open) /\ ~(Negation \subseteq Close)
    /\ ~(Open \subseteq And) /\ ~(Open \subseteq Or) /\ ~(Open \subseteq Negation)
    /\ ~(Open \subseteq Close) /\ Open \subseteq Open
BY DEF And, Or, Open, Close, Negation, Bool

\* AND is put between what ends a factor and what begins one.
LEMMA TokenFacts ==
    ASSUME NEW t, t.type \in TokenTypes
    PROVE  /\ IsOperand(t) <=> t.type \in OperandTypes
           /\ StartsFactor(t) <=> t.type \in OperandTypes \cup {Negation, Open}
           /\ EndsFactor(t) <=> t.type \in OperandTypes \cup {Close}
           /\ Bool \subseteq t.type <=> t.type \in {And, Or}
<1>1. CASE t.type \in OperandTypes
  <2>1. IsOperand(t)
    BY <1>1, OperandFacts DEF IsOperand
  <2> QED
    BY <1>1, <2>1, OperandFacts DEF StartsFactor, EndsFactor
<1>2. CASE t.type \in {Negation, And, Or, Open, Close}
  <2>1. ~IsOperand(t)
    BY <1>2, NegationFacts DEF IsOperand
  <2>2. t.type \notin OperandTypes
    BY <1>2, OperandFacts
  <2>3. StartsFactor(t) <=> t.type \in {Negation, Open}
    BY <2>1 DEF StartsFactor
  <2>4. EndsFactor(t) <=> t.type = Close
    BY <2>1 DEF EndsFactor
  <2>5. Bool \subseteq t.type <=> t.type \in {And, Or}
    BY <1>2, NegationFacts, MarkTypes
  <2> QED
    BY <2>1, <2>2, <2>3, <2>4, <2>5
<1> QED
  BY <1>1, <1>2 DEF TokenTypes

LEMMA NeedsAndFacts ==
    ASSUME NEW t, t.type \in TokenTypes, NEW u, u.type \in TokenTypes
    PROVE  /\ NeedsAnd(t, u.type) <=> StartsFactor(t) /\ EndsFactor(u)
           /\ ~NeedsAnd(t, And)
<1>1. (t.type = Open \/ t.type \cap {512, 256, 16, 8} # {}) <=> StartsFactor(t)
  <2>1. t.type \cap {512, 256, 16, 8} # {} <=> t.type \cap {8, 256, 512} # {} \/ 16 \in t.type
    OBVIOUS
  <2>2. t.type \in {And, Or, Close} => 16 \notin t.type
    BY DEF And, Or, Close
  <2>3. 16 \in Negation
    BY DEF Negation
  <2>4. t.type \cap {8, 256, 512} # {} <=> t.type \in OperandTypes
    BY TokenFacts DEF IsOperand
  <2>5. t.type \in OperandTypes \cup {Negation, Open, And, Or, Close}
    BY DEF TokenTypes
  <2> QED
    BY <2>1, <2>2, <2>3, <2>4, <2>5, TokenFacts, MarkTypes
<1>2. FilterContent \cup FilterPath \cup Negation \cup Word = {512, 256, 16, 8}
  BY DEF FilterContent, FilterPath, Negation, Word
<1>3. (~(Bool \subseteq u.type) /\ ~(Negation \subseteq u.type) /\ ~(Open \subseteq u.type))
         <=> EndsFactor(u)
  <2>1. u.type \in OperandTypes \cup {Negation, Open, And, Or, Close}
    BY DEF TokenTypes
  <2> QED
    BY <2>1, OperandFacts, NegationFacts, TokenFacts, MarkTypes
<1>4. NeedsAnd(t, u.type) <=>
         (t.type = Open \/ t.type \cap (FilterContent \cup FilterPath \cup Negation \cup Word) # {})
         /\ (~(Bool \subseteq u.type) /\ ~(Negation \subseteq u.type) /\ ~(Open \subseteq u.type))
  BY DEF NeedsAnd
<1>5. ~NeedsAnd(t, And)
  BY NegationFacts DEF NeedsAnd
<1> QED
  BY <1>1, <1>2, <1>3, <1>4, <1>5

----------------------------------------------------------------------------
\* How deep a place is, step by step.
LEMMA DepthFacts ==
    ASSUME NEW ts, NEW i \in Nat \ {0}
    PROVE  /\ Depth(ts, 1) = 0
           /\ Depth(ts, i) \in Int
           /\ ts[i].type = Open => Depth(ts, i + 1) = Depth(ts, i) + 1
           /\ ts[i].type = Close => Depth(ts, i + 1) = Depth(ts, i) - 1
           /\ ts[i].type \notin {Open, Close} => Depth(ts, i + 1) = Depth(ts, i)
<1> DEFINE Opened(j) == {k \in 1..j - 1 : ts[k].type = Open}
           Closed(j) == {k \in 1..j - 1 : ts[k].type = Close}
<1>1. ASSUME NEW j \in Nat \ {0}
      PROVE  /\ IsFiniteSet(Opened(j)) /\ Cardinality(Opened(j)) \in Nat
             /\ IsFiniteSet(Closed(j)) /\ Cardinality(Closed(j)) \in Nat
  <2>1. Opened(j) \in SUBSET (1..j - 1) /\ Closed(j) \in SUBSET (1..j - 1)
    OBVIOUS
  <2>2. IsFiniteSet(1..j - 1)
    <3>1. 1 \in Int /\ j - 1 \in Int
      OBVIOUS
    <3> QED
      BY <3>1, FS_Interval
  <2> HIDE DEF Opened, Closed
  <2> QED
    BY <2>1, <2>2, FS_Subset, FS_CardinalityType
<1>2. Depth(ts, 1) = 0
  <2>1. {k \in 1..1 - 1 : ts[k].type = Open} = {} /\ {k \in 1..1 - 1 : ts[k].type = Close} = {}
    OBVIOUS
  <2> QED
    BY <2>1, FS_EmptySet DEF Depth
<1>3. \A j \in Nat \ {0} : Depth(ts, j) = Cardinality(Opened(j)) - Cardinality(Closed(j))
  BY DEF Depth
<1>4. /\ Opened(i + 1) = IF ts[i].type = Open THEN Opened(i) \cup {i} ELSE Opened(i)
      /\ Closed(i + 1) = IF ts[i].type = Close THEN Closed(i) \cup {i} ELSE Closed(i)
      /\ i \notin Opened(i) /\ i \notin Closed(i)
  <2>1. 1..(i + 1) - 1 = (1..i - 1) \cup {i} /\ i \notin 1..i - 1
    OBVIOUS
  <2> QED
    BY <2>1
<1>5. /\ ts[i].type = Open => Cardinality(Opened(i + 1)) = Cardinality(Opened(i)) + 1
      /\ ts[i].type = Close => Cardinality(Closed(i + 1)) = Cardinality(Closed(i)) + 1
  <2> HIDE DEF Opened, Closed
  <2> QED
    BY <1>1, <1>4, FS_AddElement
<1> HIDE DEF Opened, Closed
<1>6. i + 1 \in Nat \ {0}
  OBVIOUS
<1> QED
  BY <1>1, <1>2, <1>3, <1>4, <1>5, <1>6, MarkTypes

\* Below a place only what is before it counts.
LEMMA DepthBefore ==
    ASSUME NEW ts, NEW us, NEW i \in Nat \ {0}, \A k \in 1..i - 1 : ts[k].type = us[k].type
    PROVE  Depth(ts, i) = Depth(us, i)
BY DEF Depth

----------------------------------------------------------------------------
(***************************************************************************)
(* The default AND. us is ts with an AND before every token that needs     *)
(* one; f says where each token of ts is in us.                            *)
(***************************************************************************)
Typed(ts) ==
    Len(ts) \in Nat /\ DOMAIN ts = 1..Len(ts) /\ \A i \in 1..Len(ts) : ts[i].type \in TokenTypes
Joined(ts, k) == k > 1 /\ NeedsAnd(ts[k], ts[k - 1].type)
Inflates(f, ts, us) ==
    /\ f \in [0..Len(ts) -> 0..Len(us)]
    /\ f[0] = 0
    /\ f[Len(ts)] = Len(us)
    /\ \A k \in 1..Len(ts) :
         /\ us[f[k]] = ts[k]
         /\ Joined(ts, k) => f[k] = f[k - 1] + 2 /\ us[f[k] - 1].type = And
         /\ ~Joined(ts, k) => f[k] = f[k - 1] + 1

\* The order is kept, and every other place holds an AND.
LEMMA InflatedOrder ==
    ASSUME NEW ts, NEW us, NEW f, Typed(ts), Typed(us), Inflates(f, ts, us)
    PROVE  /\ \A k \in 0..Len(ts) : f[k] \in Nat
           /\ \A j, k \in 0..Len(ts) : j < k <=> f[j] < f[k]
<1>1. Len(ts) \in Nat /\ Len(us) \in Nat
  BY DEF Typed
<1>2. \A k \in 0..Len(ts) : f[k] \in Nat
  BY <1>1 DEF Inflates
<1>3. \A k \in 1..Len(ts) : f[k - 1] < f[k]
  <2> TAKE k \in 1..Len(ts)
  <2>1. f[k] = f[k - 1] + 1 \/ f[k] = f[k - 1] + 2
    BY DEF Inflates
  <2>2. k - 1 \in 0..Len(ts) /\ k \in 0..Len(ts)
    BY <1>1
  <2> QED
    BY <1>2, <2>1, <2>2
<1>4. ASSUME NEW j \in 0..Len(ts) PROVE \A k \in 0..Len(ts) : j < k => f[j] < f[k]
  <2> DEFINE Bad == {k \in 0..Len(ts) : j < k /\ ~(f[j] < f[k])}
  <2>1. ASSUME Bad # {} PROVE FALSE
    <3>1. Bad \subseteq Nat
      BY <1>1
    <3>2. PICK k \in Bad : \A i \in Bad : k <= i
      <4> HIDE DEF Bad
      <4> QED
        BY <2>1, <3>1, LeastNatural
    <3>3. k \in 1..Len(ts) /\ k - 1 \in 0..Len(ts) /\ k \in Nat /\ j \in Nat
      BY <1>1
    <3>4. k - 1 \notin Bad
      <4> HIDE DEF Bad
      <4> QED
        BY <3>2, <3>3, <1>1
    <3>5. j = k - 1 \/ f[j] < f[k - 1]
      BY <3>3, <3>4
    <3> QED
      BY <1>2, <1>3, <3>2, <3>3, <3>5
  <2> QED
    BY <2>1
<1>5. \A j, k \in 0..Len(ts) : j < k <=> f[j] < f[k]
  <2> TAKE j, k \in 0..Len(ts)
  <2>1. j \in Int /\ k \in Int /\ f[j] \in Int /\ f[k] \in Int
    BY <1>1, <1>2
  <2>2. (j < k => f[j] < f[k]) /\ (k < j => f[k] < f[j]) /\ (j = k => f[j] = f[k])
    BY <1>4
  <2> QED
    BY <2>1, <2>2
<1> QED
  BY <1>2, <1>5

LEMMA InflatedPlaces ==
    ASSUME NEW ts, NEW us, NEW f, Typed(ts), Typed(us), Inflates(f, ts, us),
           NEW p \in 1..Len(us)
    PROVE  \E k \in 1..Len(ts) :
              p = f[k] \/ (p = f[k] - 1 /\ f[k] = f[k - 1] + 2 /\ us[p].type = And)
<1>1. Len(ts) \in Nat /\ Len(us) \in Nat /\ p \in Nat /\ p >= 1 /\ p <= Len(us)
  BY DEF Typed
<1> DEFINE Far == {k \in 0..Len(ts) : f[k] >= p}
<1>2. Far # {} /\ Far \subseteq Nat
  <2>1. Len(ts) \in Far
    BY <1>1 DEF Inflates
  <2> QED
    BY <1>1, <2>1
<1>3. PICK k \in Far : \A j \in Far : k <= j
  <2> HIDE DEF Far
  <2> QED
    BY <1>2, LeastNatural
<1>4. k # 0
  BY <1>1, <1>3 DEF Inflates
<1>5. k \in 1..Len(ts) /\ k - 1 \in 0..Len(ts) /\ k - 1 \notin Far
  <2>1. k \in 1..Len(ts) /\ k - 1 \in 0..Len(ts) /\ k \in Nat
    BY <1>1, <1>3, <1>4
  <2> HIDE DEF Far
  <2> QED
    BY <2>1, <1>3
<1>6. f[k] \in Nat /\ f[k - 1] \in Nat /\ f[k] >= p /\ f[k - 1] < p
  BY <1>1, <1>3, <1>5, InflatedOrder
<1>7. \/ Joined(ts, k) /\ f[k] = f[k - 1] + 2 /\ us[f[k] - 1].type = And
      \/ ~Joined(ts, k) /\ f[k] = f[k - 1] + 1
  BY <1>5 DEF Inflates
<1>8. p = f[k] \/ (p = f[k] - 1 /\ f[k] = f[k - 1] + 2 /\ us[p].type = And)
  BY <1>1, <1>6, <1>7
<1> QED
  BY <1>5, <1>8

\* A place and its image are at the same depth.
LEMMA InflatedDepth ==
    ASSUME NEW ts, NEW us, NEW f, Typed(ts), Typed(us), Inflates(f, ts, us)
    PROVE  /\ \A k \in 1..Len(ts) : Depth(us, f[k]) = Depth(ts, k)
           /\ \A k \in 0..Len(ts) : Depth(us, f[k] + 1) = Depth(ts, k + 1)
<1>1. Len(ts) \in Nat /\ Len(us) \in Nat /\ \A k \in 0..Len(ts) : f[k] \in 0..Len(us)
  BY DEF Typed, Inflates
<1>2. ASSUME NEW k \in 1..Len(ts), Depth(us, f[k - 1] + 1) = Depth(ts, k)
      PROVE  Depth(us, f[k]) = Depth(ts, k) /\ Depth(us, f[k] + 1) = Depth(ts, k + 1)
  <2>1. k \in Nat \ {0} /\ k - 1 \in 0..Len(ts) /\ f[k - 1] \in Nat /\ f[k] \in Nat /\ f[k] >= 1
    <3>1. k - 1 \in 0..Len(ts) /\ k \in 0..Len(ts) /\ k \in Nat \ {0}
      BY <1>1
    <3>2. f[k] = f[k - 1] + 1 \/ f[k] = f[k - 1] + 2
      BY DEF Inflates
    <3> QED
      BY <1>1, <3>1, <3>2
  <2>2. Depth(us, f[k]) = Depth(ts, k)
    <3>1. CASE Joined(ts, k)
      <4>1. f[k] = f[k - 1] + 2 /\ us[f[k] - 1].type = And
        BY <3>1 DEF Inflates
      <4>2. f[k - 1] + 1 = f[k] - 1 /\ f[k] - 1 \in Nat \ {0} /\ (f[k] - 1) + 1 = f[k]
        BY <2>1, <4>1
      <4>3. us[f[k] - 1].type \notin {Open, Close}
        BY <4>1, MarkTypes
      <4>4. Depth(us, (f[k] - 1) + 1) = Depth(us, f[k] - 1)
        BY <4>2, <4>3, DepthFacts
      <4> QED
        BY <1>2, <4>2, <4>4
    <3>2. CASE ~Joined(ts, k)
      <4>1. f[k] = f[k - 1] + 1
        BY <3>2 DEF Inflates
      <4> QED
        BY <1>2, <4>1
    <3> QED
      BY <3>1, <3>2
  <2>3. f[k] \in 1..Len(us) /\ f[k] \in Nat \ {0}
    <3>1. k \in 0..Len(ts)
      BY <1>1
    <3> QED
      BY <1>1, <2>1, <3>1
  <2>4. us[f[k]] = ts[k]
    BY DEF Inflates
  <2>5. (ts[k].type = Open <=> us[f[k]].type = Open) /\ (ts[k].type = Close <=> us[f[k]].type = Close)
    BY <2>4
  <2>6. Depth(us, f[k] + 1) = Depth(ts, k + 1)
    <3>1. Depth(ts, k) \in Int
      BY <2>1, DepthFacts
    <3>2. CASE ts[k].type = Open
      BY <2>1, <2>2, <2>3, <2>5, <3>2, DepthFacts
    <3>3. CASE ts[k].type = Close
      BY <2>1, <2>2, <2>3, <2>5, <3>3, DepthFacts
    <3>4. CASE ts[k].type \notin {Open, Close}
      BY <2>1, <2>2, <2>3, <2>5, <3>4, DepthFacts
    <3> QED
      BY <3>2, <3>3, <3>4
  <2> QED
    BY <2>2, <2>6
<1>3. \A k \in 0..Len(ts) : Depth(us, f[k] + 1) = Depth(ts, k + 1)
  <2> DEFINE Bad == {k \in 0..Len(ts) : Depth(us, f[k] + 1) # Depth(ts, k + 1)}
  <2>1. ASSUME Bad # {} PROVE FALSE
    <3>1. Bad \subseteq Nat
      BY <1>1
    <3>2. PICK k \in Bad : \A i \in Bad : k <= i
      <4> HIDE DEF Bad
      <4> QED
        BY <2>1, <3>1, LeastNatural
    <3>3. k \in 0..Len(ts) /\ Depth(us, f[k] + 1) # Depth(ts, k + 1)
      BY <3>2
    <3>4. k # 0
      <4>1. f[0] = 0 /\ Depth(us, 1) = 0 /\ Depth(ts, 1) = 0
        BY DepthFacts DEF Inflates
      <4> QED
        BY <3>3, <4>1
    <3>5. k \in 1..Len(ts) /\ k - 1 \in 0..Len(ts) /\ (k - 1) + 1 = k
      BY <1>1, <3>3, <3>4
    <3>6. k - 1 \notin Bad
      <4> HIDE DEF Bad
      <4> QED
        BY <1>1, <3>2, <3>5
    <3>7. Depth(us, f[k - 1] + 1) = Depth(ts, k)
      BY <3>5, <3>6
    <3> QED
      BY <1>2, <3>3, <3>5, <3>7
  <2> QED
    BY <2>1
<1>4. \A k \in 1..Len(ts) : Depth(us, f[k]) = Depth(ts, k)
  <2> TAKE k \in 1..Len(ts)
  <2>1. k - 1 \in 0..Len(ts) /\ (k - 1) + 1 = k
    BY <1>1
  <2> QED
    BY <1>2, <1>3, <2>1
<1> QED
  BY <1>3, <1>4

\* So are the groups: each place means the same in both.
LEMMA InflatedToken ==
    ASSUME NEW ts, NEW us, NEW f, Typed(ts), Typed(us), Inflates(f, ts, us), NEW k \in 1..Len(ts)
    PROVE  /\ f[k] \in 1..Len(us) /\ f[k] \in DOMAIN us /\ k \in DOMAIN ts
           /\ ts[k].type \in TokenTypes /\ us[f[k]] = ts[k]
<1>1. Len(ts) \in Nat /\ Len(us) \in Nat /\ k \in 0..Len(ts) /\ 0 \in 0..Len(ts) /\ 0 < k
  BY DEF Typed
<1>2. f[k] \in 0..Len(us) /\ f[k] > f[0] /\ f[0] = 0
  BY <1>1, InflatedOrder DEF Inflates
<1>3. f[k] \in 1..Len(us)
  BY <1>1, <1>2
<1> QED
  BY <1>3 DEF Typed, Inflates

LEMMA InflatedNegation ==
    ASSUME NEW ts, NEW us, NEW f, Typed(ts), Typed(us), Inflates(f, ts, us), NEW k \in 1..Len(ts)
    PROVE  IsNegated(us, f[k]) <=> IsNegated(ts, k)
<1>1. /\ Len(ts) \in Nat /\ Len(us) \in Nat /\ k \in Nat /\ k >= 1
      /\ k - 1 \in 0..Len(ts) /\ k \in 0..Len(ts)
  BY DEF Typed
<1>2. f[k - 1] \in Nat /\ f[0] = 0 /\ f[k] \in Nat
  BY <1>1, InflatedOrder DEF Inflates
<1>3. CASE k = 1
  <2>1. ~Joined(ts, k)
    BY <1>3 DEF Joined
  <2>2. f[k] = 1
    BY <1>2, <1>3, <2>1 DEF Inflates
  <2> QED
    BY <1>3, <2>2 DEF IsNegated
<1>4. CASE k > 1
  <2>1. k - 1 \in 1..Len(ts)
    BY <1>1, <1>4
  <2>2. /\ ts[k].type \in TokenTypes /\ ts[k - 1].type \in TokenTypes
        /\ us[f[k - 1]] = ts[k - 1] /\ f[k - 1] >= 1
    BY <1>1, <2>1, InflatedToken
  <2>3. CASE Joined(ts, k)
    <3>1. us[f[k] - 1].type = And
      BY <2>3 DEF Inflates
    <3>2. ts[k - 1].type # Negation
      <4>1. EndsFactor(ts[k - 1])
        BY <2>2, <2>3, NeedsAndFacts DEF Joined
      <4> QED
        BY <2>2, <4>1, TokenFacts, OperandFacts, MarkTypes
    <3> QED
      BY <3>1, <3>2, MarkTypes DEF IsNegated
  <2>4. CASE ~Joined(ts, k)
    <3>1. f[k] = f[k - 1] + 1
      BY <2>4 DEF Inflates
    <3>2. f[k] > 1 /\ f[k] - 1 = f[k - 1]
      BY <1>2, <2>2, <3>1
    <3>3. us[f[k - 1]].type = Negation <=> ts[k - 1].type = Negation
      BY <2>2
    <3> QED
      BY <1>4, <3>2, <3>3 DEF IsNegated
  <2> QED
    BY <2>3, <2>4
<1> QED
  BY <1>1, <1>3, <1>4

LEMMA InflatedGroup ==
    ASSUME NEW ts, NEW us, NEW f, Typed(ts), Typed(us), Inflates(f, ts, us),
           NEW g \in 0..Len(ts), NEW k \in 1..Len(ts)
    PROVE  /\ Encloses(us, f[g], f[k]) <=> Encloses(ts, g, k)
           /\ f[k] \in Within(us, f[g]) <=> k \in Within(ts, g)
<1>1. /\ Len(ts) \in Nat /\ Len(us) \in Nat /\ g \in Nat /\ k \in Nat /\ k \in 0..Len(ts)
      /\ f[g] \in Nat /\ f[k] \in Nat /\ f[k] \in 1..Len(us) /\ (f[g] < f[k] <=> g < k)
  <2>1. k \in 0..Len(ts) /\ Len(ts) \in Nat
    BY DEF Typed
  <2> QED
    BY <2>1, InflatedOrder, InflatedToken DEF Typed
<1>2. Depth(us, f[g] + 1) = Depth(ts, g + 1) /\ Depth(us, f[k]) = Depth(ts, k)
  BY InflatedDepth
<1>3. ASSUME Encloses(us, f[g], f[k]) PROVE Encloses(ts, g, k)
  <2>1. g < k /\ \A p \in f[g] + 1..f[k] : Depth(us, p) >= Depth(ts, g + 1)
    BY <1>1, <1>2, <1>3 DEF Encloses
  <2>2. ASSUME NEW j \in g + 1..k PROVE Depth(ts, j) >= Depth(ts, g + 1)
    <3>1. j \in 1..Len(ts) /\ j \in 0..Len(ts) /\ g < j /\ (j < k \/ j = k)
      BY <1>1
    <3>2. f[j] \in Nat /\ f[g] < f[j] /\ (f[j] < f[k] \/ j = k)
      BY <1>1, <3>1, InflatedOrder
    <3>3. f[j] \in f[g] + 1..f[k]
      BY <1>1, <3>2
    <3>4. Depth(us, f[j]) = Depth(ts, j)
      BY <3>1, InflatedDepth
    <3> QED
      BY <2>1, <3>3, <3>4
  <2> QED
    BY <2>1, <2>2 DEF Encloses
<1>4. ASSUME Encloses(ts, g, k) PROVE Encloses(us, f[g], f[k])
  <2>1. f[g] < f[k] /\ \A j \in g + 1..k : Depth(ts, j) >= Depth(us, f[g] + 1)
    BY <1>1, <1>2, <1>4 DEF Encloses
  <2>2. ASSUME NEW p \in f[g] + 1..f[k] PROVE Depth(us, p) >= Depth(us, f[g] + 1)
    <3>1. p \in 1..Len(us)
      BY <1>1
    <3>2. PICK j \in 1..Len(ts) : p = f[j] \/ (p = f[j] - 1 /\ f[j] = f[j - 1] + 2)
      BY <3>1, InflatedPlaces
    <3>3. j \in 0..Len(ts) /\ j - 1 \in 0..Len(ts) /\ j \in Nat
      BY <1>1
    <3>4. f[j] \in Nat /\ f[j - 1] \in Nat /\ (f[g] < f[j] <=> g < j) /\ (f[j - 1] < f[k] <=> j - 1 < k)
          /\ (f[j - 1] < f[j])
          /\ (f[k] < f[j] <=> k < j)
      BY <1>1, <3>3, InflatedOrder
    <3>5. j \in g + 1..k
      BY <1>1, <3>2, <3>3, <3>4
    <3>6. Depth(us, p) = Depth(ts, j)
      <4>1. CASE p = f[j]
        BY <4>1, InflatedDepth
      <4>2. CASE p = f[j] - 1 /\ f[j] = f[j - 1] + 2
        <5>1. p = f[j - 1] + 1 /\ (j - 1) + 1 = j
          BY <3>3, <3>4, <4>2
        <5>2. Depth(us, f[j - 1] + 1) = Depth(ts, (j - 1) + 1)
          BY <3>3, InflatedDepth
        <5> QED
          BY <5>1, <5>2
      <4> QED
        BY <3>2, <4>1, <4>2
    <3> QED
      BY <2>1, <3>5, <3>6
  <2> QED
    BY <2>1, <2>2 DEF Encloses
<1>5. Encloses(us, f[g], f[k]) <=> Encloses(ts, g, k)
  BY <1>3, <1>4
<1>6. f[k] \in DOMAIN us /\ k \in DOMAIN ts
  BY <1>1 DEF Typed
<1> QED
  BY <1>2, <1>5, <1>6 DEF Within

Places(f, S) == {f[k] : k \in S}
LEMMA InflatedParts ==
    ASSUME NEW ts, NEW us, NEW f, Typed(ts), Typed(us), Inflates(f, ts, us), NEW g \in 0..Len(ts)
    PROVE  /\ Ors(us, f[g]) = Places(f, Ors(ts, g))
           /\ Factors(us, f[g]) = Places(f, Factors(ts, g))
<1>1. \A i \in 0..Len(ts) : Within(ts, i) \subseteq 1..Len(ts)
  BY DEF Within, Typed
<1>2. Within(us, f[g]) \subseteq 1..Len(us)
  BY DEF Within, Typed
<1>3. \A k \in 1..Len(ts) :
         /\ f[k] \in Within(us, f[g]) <=> k \in Within(ts, g)
         /\ us[f[k]].type = Or <=> ts[k].type = Or
         /\ StartsFactor(us[f[k]]) <=> StartsFactor(ts[k])
         /\ IsNegated(us, f[k]) <=> IsNegated(ts, k)
  <2> TAKE k \in 1..Len(ts)
  <2>1. ts[k].type \in TokenTypes /\ us[f[k]] = ts[k]
    BY InflatedToken
  <2>2. /\ us[f[k]].type = Or <=> ts[k].type = Or
        /\ StartsFactor(us[f[k]]) <=> StartsFactor(ts[k])
    BY <2>1
  <2> QED
    BY <2>2, InflatedGroup, InflatedNegation
<1>4. \A p \in 1..Len(us) : us[p].type = Or \/ StartsFactor(us[p]) => \E k \in 1..Len(ts) : p = f[k]
  <2> TAKE p \in 1..Len(us)
  <2>1. PICK k \in 1..Len(ts) : p = f[k] \/ us[p].type = And
    BY InflatedPlaces
  <2>2. us[p].type = And => ~(us[p].type = Or \/ StartsFactor(us[p]))
    <3>1. us[p].type \in TokenTypes
      BY DEF Typed
    <3> QED
      BY <3>1, TokenFacts, OperandFacts, MarkTypes
  <2> QED
    BY <2>1, <2>2
<1>5. Ors(us, f[g]) = Places(f, Ors(ts, g))
  BY <1>1, <1>2, <1>3, <1>4 DEF Ors, Places
<1>6. Factors(us, f[g]) = Places(f, Factors(ts, g))
  BY <1>1, <1>2, <1>3, <1>4 DEF Factors, Places
<1> QED
  BY <1>5, <1>6

LEMMA InflatedTerm ==
    ASSUME NEW ts, NEW us, NEW f, Typed(ts), Typed(us), Inflates(f, ts, us),
           NEW g \in 0..Len(ts), NEW o \in 0..Len(ts)
    PROVE  Term(us, f[g], f[o]) = Places(f, Term(ts, g, o))
<1>1. /\ Ors(us, f[g]) = Places(f, Ors(ts, g))
      /\ Factors(us, f[g]) = Places(f, Factors(ts, g))
  BY InflatedParts
<1>2. Ors(ts, g) \subseteq 1..Len(ts) /\ Factors(ts, g) \subseteq 1..Len(ts)
  BY DEF Ors, Factors, Within, Typed
<1>3. Len(ts) \in Nat /\ o \in Nat /\ f[o] \in Nat
  BY InflatedOrder DEF Typed
<1>4. ASSUME NEW k \in Factors(ts, g)
      PROVE  f[k] \in Term(us, f[g], f[o]) <=> k \in Term(ts, g, o)
  <2>1. k \in 1..Len(ts) /\ k \in 0..Len(ts) /\ k \in Nat /\ f[k] \in Nat
    BY <1>2, <1>3, InflatedOrder
  <2>2. f[o] < f[k] <=> o < k
    BY <2>1, InflatedOrder
  <2>3. \A j \in Ors(ts, g) : f[j] \in f[o] + 1..f[k] <=> j \in o + 1..k
    <3> TAKE j \in Ors(ts, g)
    <3>1. j \in 0..Len(ts) /\ j \in Nat /\ f[j] \in Nat
      BY <1>2, <1>3, InflatedOrder
    <3>2. (f[o] < f[j] <=> o < j) /\ (f[k] < f[j] <=> k < j)
      BY <2>1, <3>1, InflatedOrder
    <3> QED
      BY <1>3, <2>1, <3>1, <3>2
  <2>4. (\A p \in Ors(us, f[g]) : p \notin f[o] + 1..f[k]) <=>
            \A j \in Ors(ts, g) : j \notin o + 1..k
    BY <1>1, <2>3 DEF Places
  <2>5. f[k] \in Factors(us, f[g])
    BY <1>1 DEF Places
  <2> QED
    BY <2>2, <2>4, <2>5 DEF Term
<1>5. Term(us, f[g], f[o]) \subseteq Places(f, Factors(ts, g))
  BY <1>1 DEF Term
<1>6. Term(ts, g, o) \subseteq Factors(ts, g)
  BY DEF Term
<1> QED
  BY <1>4, <1>5, <1>6 DEF Places

----------------------------------------------------------------------------
(***************************************************************************)
(* The rows that tokens select. The selection is recursive towards the end *)
(* of the tokens; that there is such a function, and when two of them      *)
(* agree on a row each, takes an induction from there.                     *)
(***************************************************************************)
Picked(ts, R, h, i) ==
    IF i \in Groups(ts)
    THEN {r \in R : \E o \in {i} \cup Ors(ts, i) : \A k \in Term(ts, i, o) : r \in h[k]}
    ELSE IF ts[i].type = Negation THEN R \ h[i + 1]
    ELSE {r \in R : Holds(ts[i], r)}
Selects(h, m, ts, R) == h = [i \in m..Len(ts) |-> Picked(ts, R, h, i)]

LEMMA PickedLater ==
    ASSUME NEW ts, Typed(ts), Len(ts) > 0, ts[Len(ts)].type # Negation, NEW R, NEW h, NEW j,
           NEW i \in 0..Len(ts), \A k \in i + 1..Len(ts) : h[k] = j[k]
    PROVE  Picked(ts, R, h, i) = Picked(ts, R, j, i)
<1>1. Len(ts) \in Nat /\ i \in Nat /\ i <= Len(ts)
  BY DEF Typed
<1>2. \A o : Term(ts, i, o) \subseteq i + 1..Len(ts)
  BY <1>1 DEF Term, Factors, Within, Encloses, Typed
<1>3. CASE i \in Groups(ts)
  <2>1. \A o : \A r \in R : (\A k \in Term(ts, i, o) : r \in h[k]) <=> \A k \in Term(ts, i, o) : r \in j[k]
    BY <1>2
  <2> QED
    BY <1>3, <2>1 DEF Picked
<1>4. CASE i \notin Groups(ts)
  <2>1. ts[i].type = Negation => i + 1 \in i + 1..Len(ts)
    BY <1>1
  <2>2. ts[i].type = Negation => h[i + 1] = j[i + 1]
    BY <2>1
  <2> QED
    BY <1>4, <2>2 DEF Picked
<1> QED
  BY <1>3, <1>4

LEMMA SelectionExists ==
    ASSUME NEW ts, Typed(ts), Len(ts) > 0, ts[Len(ts)].type # Negation, NEW R
    PROVE  \E h : Selects(h, 0, ts, R)
<1>1. Len(ts) \in Nat
  BY DEF Typed
<1> DEFINE Bad == {n \in 0..Len(ts) : ~\E h : Selects(h, Len(ts) - n, ts, R)}
<1>2. ASSUME Bad # {} PROVE FALSE
  <2>1. Bad \subseteq Nat
    BY <1>1
  <2>2. PICK n \in Bad : \A k \in Bad : n <= k
    <3> HIDE DEF Bad
    <3> QED
      BY <1>2, <2>1, LeastNatural
  <2>3. n \in 0..Len(ts) /\ ~\E h : Selects(h, Len(ts) - n, ts, R)
    BY <2>2
  <2>4. PICK m \in 0..Len(ts) : m = Len(ts) - n
    BY <1>1, <2>3
  <2>5. PICK h : \A k \in m + 1..Len(ts) : h[k] = Picked(ts, R, h, k)
    <3>1. CASE n = 0
      <4>1. m + 1..Len(ts) = {}
        BY <1>1, <2>4, <3>1
      <4> QED
        BY <4>1
    <3>2. CASE n # 0
      <4>1. n - 1 \in 0..Len(ts) /\ n \in Nat /\ Len(ts) - (n - 1) = m + 1
        BY <1>1, <2>3, <2>4, <3>2
      <4>2. n - 1 \notin Bad
        <5> HIDE DEF Bad
        <5> QED
          BY <2>2, <4>1
      <4>3. PICK h : Selects(h, m + 1, ts, R)
        BY <4>1, <4>2
      <4> QED
        BY <4>3 DEF Selects
    <3> QED
      BY <3>1, <3>2
  <2> DEFINE g == [k \in m..Len(ts) |-> IF k = m THEN Picked(ts, R, h, k) ELSE h[k]]
  <2>6. /\ \A k \in m + 1..Len(ts) : g[k] = h[k]
        /\ g[m] = Picked(ts, R, h, m)
        /\ g = [k \in m..Len(ts) |-> g[k]]
    BY <1>1
  <2> HIDE DEF g
  <2>7. ASSUME NEW k \in m..Len(ts) PROVE g[k] = Picked(ts, R, g, k)
    <3>1. k \in 0..Len(ts) /\ \A j \in k + 1..Len(ts) : h[j] = g[j]
      <4>1. k + 1..Len(ts) \subseteq m + 1..Len(ts) /\ k \in 0..Len(ts)
        BY <1>1
      <4> QED
        BY <2>6, <4>1
    <3>2. Picked(ts, R, h, k) = Picked(ts, R, g, k)
      BY <3>1, PickedLater
    <3>3. k = m \/ k \in m + 1..Len(ts)
      BY <1>1
    <3> QED
      BY <2>5, <2>6, <3>2, <3>3
  <2>8. Selects(g, m, ts, R)
    BY <2>6, <2>7 DEF Selects
  <2> QED
    BY <2>3, <2>4, <2>8
<1>3. Len(ts) \notin Bad
  <2> HIDE DEF Bad
  <2> QED
    BY <1>2
<1>4. Len(ts) \in 0..Len(ts) /\ Len(ts) - Len(ts) = 0
  BY <1>1
<1> QED
  BY <1>3, <1>4

IsSelection(h, ts, R) == \A i \in 0..Len(ts) : h[i] = Picked(ts, R, h, i)
LEMMA SelectedIs ==
    ASSUME NEW ts, Typed(ts), Len(ts) > 0, ts[Len(ts)].type # Negation, NEW R
    PROVE  \E h : IsSelection(h, ts, R) /\ Selected(ts, R) = h[0]
<1>1. PICK h : Selects(h, 0, ts, R)
  BY SelectionExists
<1>2. PICK g : g = CHOOSE k : Selects(k, 0, ts, R)
  OBVIOUS
<1>3. Selects(g, 0, ts, R)
  BY <1>1, <1>2
<1>4. Selected(ts, R) = g[0]
  BY <1>2, Zenon DEF Selected, Selects, Picked
<1> QED
  BY <1>3, <1>4 DEF Selects, IsSelection

\* The place i of ts selects what the place f[i] of us does.
Mirrors(f, ts, us, i) ==
    /\ i \in Groups(ts) <=> f[i] \in Groups(us)
    /\ i \in Groups(ts) =>
         /\ Ors(us, f[i]) = Places(f, Ors(ts, i))
         /\ \A o \in {i} \cup Ors(ts, i) : Term(us, f[i], f[o]) = Places(f, Term(ts, i, o))
    /\ i \notin Groups(ts) =>
         /\ us[f[i]] = ts[i]
         /\ ts[i].type = Negation =>
              f[i + 1] = f[i] + 1 /\ i + 1 \in 1..Len(ts) /\ StartsFactor(ts[i + 1])
FactorsMirror(f, ts, us) ==
    \A i \in 1..Len(ts) : StartsFactor(ts[i]) => Mirrors(f, ts, us, i)

\* Two rows of which the same operands hold.
AlikeRows(ts, r, q) ==
    \A i \in 1..Len(ts) : ts[i].type \in OperandTypes => (Holds(ts[i], r) <=> Holds(ts[i], q))

AgreeFrom(m, f, ts, r, g, q, h) ==
    \A k \in m..Len(ts) : StartsFactor(ts[k]) => (r \in g[k] <=> q \in h[f[k]])

LEMMA SamePick ==
    ASSUME NEW ts, NEW us, NEW f, Typed(ts), Typed(us), f \in [0..Len(ts) -> 0..Len(us)],
           NEW R, NEW S, NEW r \in R, NEW q \in S, NEW g, NEW h, AlikeRows(ts, r, q),
           NEW i \in 0..Len(ts), Mirrors(f, ts, us, i), i = 0 \/ StartsFactor(ts[i]),
           g[i] = Picked(ts, R, g, i), h[f[i]] = Picked(us, S, h, f[i]),
           AgreeFrom(i + 1, f, ts, r, g, q, h)
    PROVE  r \in g[i] <=> q \in h[f[i]]
<1>1. Len(ts) \in Nat /\ i \in Nat
  BY DEF Typed
<1>2. CASE i \in Groups(ts)
  <2>1. /\ f[i] \in Groups(us) /\ Ors(us, f[i]) = Places(f, Ors(ts, i))
        /\ \A o \in {i} \cup Ors(ts, i) : Term(us, f[i], f[o]) = Places(f, Term(ts, i, o))
    BY <1>2 DEF Mirrors
  <2>2. ASSUME NEW o PROVE
        (\A k \in Term(ts, i, o) : r \in g[k]) <=> \A p \in Places(f, Term(ts, i, o)) : q \in h[p]
    <3>1. Term(ts, i, o) \subseteq i + 1..Len(ts) /\ \A k \in Term(ts, i, o) : StartsFactor(ts[k])
      BY <1>1 DEF Term, Factors, Within, Encloses, Typed
    <3> QED
      BY <3>1 DEF Places, AgreeFrom
  <2>3. r \in g[i] <=> \E o \in {i} \cup Ors(ts, i) : \A k \in Term(ts, i, o) : r \in g[k]
    BY <1>2 DEF Picked
  <2>4. q \in h[f[i]] <=>
           \E p \in {f[i]} \cup Ors(us, f[i]) : \A k \in Term(us, f[i], p) : q \in h[k]
    BY <2>1 DEF Picked
  <2>5. {f[i]} \cup Ors(us, f[i]) = {f[o] : o \in {i} \cup Ors(ts, i)}
    BY <2>1 DEF Places
  <2>6. q \in h[f[i]] <=>
           \E o \in {i} \cup Ors(ts, i) : \A k \in Term(us, f[i], f[o]) : q \in h[k]
    BY <2>4, <2>5
  <2>7. \A o \in {i} \cup Ors(ts, i) :
           (\A k \in Term(us, f[i], f[o]) : q \in h[k]) <=> \A k \in Term(ts, i, o) : r \in g[k]
    BY <2>1, <2>2
  <2> QED
    BY <2>3, <2>6, <2>7
<1>3. CASE i \notin Groups(ts) /\ ts[i].type = Negation
  <2>1. /\ f[i] \notin Groups(us) /\ us[f[i]].type = Negation /\ f[i + 1] = f[i] + 1
        /\ i + 1 \in i + 1..Len(ts) /\ StartsFactor(ts[i + 1])
    BY <1>1, <1>3 DEF Mirrors
  <2>2. g[i] = R \ g[i + 1] /\ h[f[i]] = S \ h[f[i + 1]]
    BY <1>3, <2>1 DEF Picked
  <2> QED
    BY <2>1, <2>2 DEF AgreeFrom
<1>4. CASE i \notin Groups(ts) /\ ts[i].type # Negation
  <2>1. f[i] \notin Groups(us) /\ us[f[i]] = ts[i] /\ us[f[i]].type # Negation
    BY <1>4 DEF Mirrors
  <2>2. i \in 1..Len(ts) /\ ts[i].type # Open
    BY <1>1, <1>4 DEF Groups, Typed
  <2>3. ts[i].type \in OperandTypes
    <3>1. ts[i].type \in TokenTypes
      BY <2>2 DEF Typed
    <3> QED
      BY <1>1, <1>4, <2>2, <3>1, TokenFacts
  <2>4. Holds(ts[i], r) <=> Holds(us[f[i]], q)
    BY <2>1, <2>2, <2>3 DEF AlikeRows
  <2>5. g[i] = {p \in R : Holds(ts[i], p)} /\ h[f[i]] = {p \in S : Holds(us[f[i]], p)}
    BY <1>4, <2>1 DEF Picked
  <2> QED
    BY <2>4, <2>5
<1> QED
  BY <1>2, <1>3, <1>4

LEMMA SameFactors ==
    ASSUME NEW ts, NEW us, NEW f, Typed(ts), Typed(us), f \in [0..Len(ts) -> 0..Len(us)],
           NEW R, NEW S, NEW r \in R, NEW q \in S, NEW g, NEW h, AlikeRows(ts, r, q),
           IsSelection(g, ts, R), IsSelection(h, us, S), FactorsMirror(f, ts, us)
    PROVE  AgreeFrom(1, f, ts, r, g, q, h)
<1>1. Len(ts) \in Nat
  BY DEF Typed
<1> DEFINE Bad == {n \in 0..Len(ts) : LET i == Len(ts) - n IN
                      i # 0 /\ StartsFactor(ts[i]) /\ ~(r \in g[i] <=> q \in h[f[i]])}
<1>2. ASSUME Bad # {} PROVE FALSE
  <2>1. Bad \subseteq Nat
    BY <1>1
  <2>2. PICK n \in Bad : \A k \in Bad : n <= k
    <3> HIDE DEF Bad
    <3> QED
      BY <1>2, <2>1, LeastNatural
  <2>3. PICK i \in 1..Len(ts) : i = Len(ts) - n
    BY <1>1
  <2>4. StartsFactor(ts[i]) /\ ~(r \in g[i] <=> q \in h[f[i]])
    BY <2>2, <2>3
  <2>5. ASSUME NEW k \in i + 1..Len(ts), StartsFactor(ts[k]) PROVE r \in g[k] <=> q \in h[f[k]]
    <3>1. Len(ts) - k \in 0..Len(ts) /\ Len(ts) - k < n /\ Len(ts) - (Len(ts) - k) = k /\ k # 0
      <4>1. n \in Nat
        BY <2>1, <2>2
      <4> HIDE DEF Bad
      <4> QED
        BY <1>1, <2>3, <4>1
    <3>2. Len(ts) - k \notin Bad
      <4> HIDE DEF Bad
      <4>1. n \in Nat /\ Len(ts) - k \in Nat
        BY <1>1, <2>1, <3>1
      <4> QED
        BY <2>2, <3>1, <4>1
    <3> QED
      BY <2>5, <3>1, <3>2
  <2>6. i \in 0..Len(ts) /\ f[i] \in 0..Len(us)
    BY <1>1
  <2>7. Mirrors(f, ts, us, i) /\ g[i] = Picked(ts, R, g, i) /\ h[f[i]] = Picked(us, S, h, f[i])
    BY <2>4, <2>6 DEF IsSelection, FactorsMirror
  <2>8. r \in g[i] <=> q \in h[f[i]]
    <3>1. AgreeFrom(i + 1, f, ts, r, g, q, h)
      BY <2>5 DEF AgreeFrom
    <3> HIDE DEF Bad
    <3> QED
      BY <2>4, <2>6, <2>7, <3>1, SamePick
  <2> QED
    BY <2>4, <2>8
<1>3. ASSUME NEW i \in 1..Len(ts), StartsFactor(ts[i]) PROVE r \in g[i] <=> q \in h[f[i]]
  <2>1. Len(ts) - i \in 0..Len(ts) /\ Len(ts) - (Len(ts) - i) = i /\ i # 0
    BY <1>1
  <2>2. Len(ts) - i \notin Bad
    <3> HIDE DEF Bad
    <3> QED
      BY <1>2
  <2> QED
    BY <1>3, <2>1, <2>2
<1> QED
  BY <1>3 DEF AgreeFrom

LEMMA SameSelection ==
    ASSUME NEW ts, NEW us, NEW f, Typed(ts), Typed(us), f \in [0..Len(ts) -> 0..Len(us)],
           Len(ts) > 0, ts[Len(ts)].type # Negation, Len(us) > 0, us[Len(us)].type # Negation,
           f[0] = 0, Mirrors(f, ts, us, 0),
           FactorsMirror(f, ts, us),
           NEW R, NEW S, NEW r \in R, NEW q \in S, AlikeRows(ts, r, q)
    PROVE  r \in Selected(ts, R) <=> q \in Selected(us, S)
<1>1. PICK g : IsSelection(g, ts, R) /\ Selected(ts, R) = g[0]
  BY SelectedIs
<1>2. PICK h : IsSelection(h, us, S) /\ Selected(us, S) = h[0]
  BY SelectedIs
<1>3. AgreeFrom(1, f, ts, r, g, q, h)
  BY <1>1, <1>2, SameFactors
<1>4. PICK i \in 0..Len(ts) : i = 0
  BY DEF Typed
<1>5. Mirrors(f, ts, us, i)
  BY <1>4 DEF Typed
<1>6. g[i] = Picked(ts, R, g, i) /\ h[f[i]] = Picked(us, S, h, f[i]) /\ f[i] = 0
  BY <1>1, <1>2, <1>4 DEF IsSelection, Typed
<1>7. AgreeFrom(i + 1, f, ts, r, g, q, h)
  BY <1>3, <1>4
<1>8. r \in g[i] <=> q \in h[f[i]]
  <2>1. i = 0 \/ StartsFactor(ts[i])
    BY <1>4
  <2> QED
    BY <1>5, <1>6, <1>7, <2>1, SamePick
<1> QED
  BY <1>1, <1>2, <1>4, <1>6, <1>8

----------------------------------------------------------------------------
\* What the grammar says of the tokens next to one another.
LEMMA GrammarFacts ==
    ASSUME NEW ts, Typed(ts), NEW j, Grammatical(ts, j)
    PROVE  /\ Len(ts) \in Nat \ {0} /\ ts[Len(ts)].type # Negation
           /\ \A i \in 1..Len(ts) : ts[i].type = Negation =>
                 i + 1 \in 1..Len(ts) /\ StartsFactor(ts[i + 1])
<1>1. Len(ts) \in Nat /\ DOMAIN ts = 1..Len(ts) /\ \A i \in 1..Len(ts) : ts[i].type \in TokenTypes
  BY DEF Typed
<1>2. \A i \in 1..Len(ts) : ts[i].type = Negation => ~EndsFactor(ts[i])
  BY <1>1, TokenFacts, OperandFacts, MarkTypes
<1>3. Len(ts) # 0
  BY <1>1 DEF Grammatical
<1> QED
  BY <1>1, <1>2, <1>3 DEF Grammatical, Follows

LEMMA InflatedMirrors ==
    ASSUME NEW ts, NEW us, NEW f, Typed(ts), Typed(us), Inflates(f, ts, us),
           Grammatical(ts, TRUE), NEW i \in 0..Len(ts)
    PROVE  Mirrors(f, ts, us, i)
<1>1. Len(ts) \in Nat /\ i \in Nat /\ f[0] = 0 /\ f[i] \in Nat
  BY InflatedOrder DEF Typed, Inflates
<1>2. i \in Groups(ts) <=> f[i] \in Groups(us)
  <2>1. CASE i = 0
    BY <1>1, <2>1 DEF Groups
  <2>2. CASE i # 0
    <3>1. i \in 1..Len(ts)
      BY <1>1, <2>2
    <3>2. f[i] \in DOMAIN us /\ i \in DOMAIN ts /\ us[f[i]] = ts[i] /\ f[i] # 0
      <4>1. f[i] \in 1..Len(us)
        BY <3>1, InflatedToken
      <4> QED
        BY <3>1, <4>1, InflatedToken
    <3> QED
      BY <2>2, <3>2 DEF Groups
  <2> QED
    BY <2>1, <2>2
<1>3. ASSUME i \in Groups(ts)
      PROVE  /\ Ors(us, f[i]) = Places(f, Ors(ts, i))
             /\ \A o \in {i} \cup Ors(ts, i) : Term(us, f[i], f[o]) = Places(f, Term(ts, i, o))
  <2>1. {i} \cup Ors(ts, i) \subseteq 0..Len(ts)
    BY <1>1 DEF Ors, Within, Typed
  <2> QED
    BY <2>1, InflatedParts, InflatedTerm
<1>4. ASSUME i \notin Groups(ts)
      PROVE  /\ us[f[i]] = ts[i]
             /\ ts[i].type = Negation =>
                  f[i + 1] = f[i] + 1 /\ i + 1 \in 1..Len(ts) /\ StartsFactor(ts[i + 1])
  <2>1. i \in 1..Len(ts)
    BY <1>1, <1>4 DEF Groups
  <2>2. us[f[i]] = ts[i]
    BY <2>1, InflatedToken
  <2>3. ASSUME ts[i].type = Negation
        PROVE  f[i + 1] = f[i] + 1 /\ i + 1 \in 1..Len(ts) /\ StartsFactor(ts[i + 1])
    <3>1. i + 1 \in 1..Len(ts) /\ StartsFactor(ts[i + 1])
      BY <2>1, <2>3, GrammarFacts
    <3>2. (i + 1) - 1 = i
      BY <1>1
    <3>3. ts[i].type \in TokenTypes /\ ts[i + 1].type \in TokenTypes
      BY <2>1, <3>1 DEF Typed
    <3>4. ~EndsFactor(ts[i])
      BY <2>3, <3>3, TokenFacts, OperandFacts, MarkTypes
    <3>5. ~Joined(ts, i + 1)
      BY <3>2, <3>3, <3>4, NeedsAndFacts DEF Joined
    <3>6. f[i + 1] = f[(i + 1) - 1] + 1
      BY <3>1, <3>5 DEF Inflates
    <3> QED
      BY <3>1, <3>2, <3>6
  <2> QED
    BY <2>2, <2>3
<1> QED
  BY <1>2, <1>3, <1>4 DEF Mirrors

\* The ANDs change nothing of what is selected.
LEMMA InflatedSelection ==
    ASSUME NEW ts, NEW us, NEW f, Typed(ts), Typed(us), Inflates(f, ts, us),
           Grammatical(ts, TRUE),
           NEW R, NEW S, NEW r \in R, NEW q \in S, AlikeRows(ts, r, q)
    PROVE  r \in Selected(ts, R) <=> q \in Selected(us, S)
<1>1. Len(ts) \in Nat \ {0} /\ ts[Len(ts)].type # Negation
  BY GrammarFacts
<1>2. Len(us) \in Nat \ {0} /\ us[Len(us)].type # Negation
  <2>1. Len(ts) \in 1..Len(ts)
    BY <1>1
  <2>2. f[Len(ts)] \in 1..Len(us) /\ us[f[Len(ts)]] = ts[Len(ts)] /\ f[Len(ts)] = Len(us)
    BY <2>1, InflatedToken DEF Inflates
  <2> QED
    BY <1>1, <2>2 DEF Typed
<1>3. f \in [0..Len(ts) -> 0..Len(us)] /\ f[0] = 0
  BY DEF Inflates
<1>4. Mirrors(f, ts, us, 0) /\ FactorsMirror(f, ts, us)
  <2>1. 0 \in 0..Len(ts) /\ \A i \in 1..Len(ts) : i \in 0..Len(ts)
    BY <1>1
  <2> QED
    BY <2>1, InflatedMirrors DEF FactorsMirror
<1> QED
  BY <1>1, <1>2, <1>3, <1>4, SameSelection

\* Nor whether it can be read: with them it is as SQL wants it.
LEMMA InflatedGrammar ==
    ASSUME NEW ts, NEW us, NEW f, Typed(ts), Typed(us), Inflates(f, ts, us),
           Grammatical(ts, TRUE)
    PROVE  Grammatical(us, FALSE)
<1>1. Len(ts) \in Nat \ {0} /\ Len(us) \in Nat /\ f[0] = 0 /\ f[Len(ts)] = Len(us)
  BY GrammarFacts DEF Typed, Inflates
<1>2. 1 \in 1..Len(ts) /\ Len(ts) \in 1..Len(ts) /\ Len(ts) \in 0..Len(ts)
  BY <1>1
<1>3. StartsFactor(us[1])
  <2>1. ~Joined(ts, 1)
    BY DEF Joined
  <2>2. f[1] = f[1 - 1] + 1
    BY <1>2, <2>1 DEF Inflates
  <2>3. f[1] = 1 /\ us[f[1]] = ts[1]
    BY <1>1, <1>2, <2>2, InflatedToken
  <2> QED
    BY <2>3 DEF Grammatical
<1>4. EndsFactor(us[Len(us)]) /\ Len(us) \in 1..Len(us)
  <2>1. us[f[Len(ts)]] = ts[Len(ts)] /\ f[Len(ts)] \in 1..Len(us)
    BY <1>2, InflatedToken
  <2> QED
    BY <1>1, <2>1 DEF Grammatical
<1>5. ASSUME NEW p \in 2..Len(us) PROVE Follows(us[p], us[p - 1], FALSE)
  <2>1. p \in 1..Len(us) /\ p \in Nat /\ p > 1
    BY <1>1
  <2>2. PICK k \in 1..Len(ts) :
           p = f[k] \/ (p = f[k] - 1 /\ f[k] = f[k - 1] + 2 /\ us[p].type = And)
    BY <2>1, InflatedPlaces
  <2>3. k \in Nat /\ k - 1 \in 0..Len(ts) /\ k \in 0..Len(ts) /\ us[f[k]] = ts[k]
    BY <1>1, InflatedToken
  <2>4. f[k] \in Nat /\ f[k - 1] \in Nat
    BY <2>3, InflatedOrder
  <2>5. k > 1 => ts[k - 1].type \in TokenTypes /\ us[f[k - 1]] = ts[k - 1]
    <3>1. k > 1 => k - 1 \in 1..Len(ts)
      BY <2>3
    <3> QED
      BY <3>1, InflatedToken
  <2>6. ts[k].type \in TokenTypes
    BY DEF Typed
  <2>7. CASE Joined(ts, k)
    <3>1. f[k] = f[k - 1] + 2 /\ us[f[k] - 1].type = And
      BY <2>7 DEF Inflates
    <3>2. StartsFactor(ts[k]) /\ EndsFactor(ts[k - 1]) /\ k > 1
      BY <2>5, <2>6, <2>7, NeedsAndFacts DEF Joined
    <3>3. CASE p = f[k]
      <4>1. us[p] = ts[k] /\ us[p - 1].type = And /\ us[p - 1].type \in TokenTypes
        BY <2>3, <3>1, <3>3 DEF TokenTypes
      <4>2. ~EndsFactor(us[p - 1])
        BY <4>1, TokenFacts, OperandFacts, MarkTypes
      <4> QED
        BY <3>2, <4>1, <4>2 DEF Follows
    <3>4. CASE p = f[k] - 1
      <4>1. p - 1 = f[k - 1] /\ us[p].type = And
        BY <2>4, <3>1, <3>4
      <4> QED
        BY <2>5, <3>2, <4>1 DEF Follows, IsOperator
    <3> QED
      BY <2>2, <3>3, <3>4
  <2>8. CASE ~Joined(ts, k)
    <3>1. f[k] = f[k - 1] + 1
      BY <2>8 DEF Inflates
    <3>2. p = f[k] /\ p - 1 = f[k - 1]
      BY <2>2, <2>4, <3>1
    <3>3. k > 1
      BY <1>1, <2>1, <2>3, <3>1, <3>2
    <3>4. us[p] = ts[k] /\ us[p - 1] = ts[k - 1]
      BY <2>3, <2>5, <3>2, <3>3
    <3>5. Follows(ts[k], ts[k - 1], TRUE)
      <4>1. k \in 2..Len(ts)
        BY <1>1, <2>3, <3>3
      <4> QED
        BY <4>1 DEF Grammatical
    <3>6. ~(StartsFactor(ts[k]) /\ EndsFactor(ts[k - 1]))
      BY <2>5, <2>6, <2>8, <3>3, NeedsAndFacts DEF Joined
    <3> QED
      BY <3>4, <3>5, <3>6 DEF Follows
  <2> QED
    BY <2>7, <2>8
<1>6. ASSUME NEW p \in 1..Len(us) PROVE Depth(us, p + 1) >= 0
  <2>1. PICK k \in 1..Len(ts) : p = f[k] \/ (p = f[k] - 1 /\ f[k] = f[k - 1] + 2)
    BY InflatedPlaces
  <2>2. k \in Nat /\ k - 1 \in 1..Len(ts) \cup {0} /\ k \in 0..Len(ts) /\ (k - 1) + 1 = k
    BY <1>1
  <2>3. f[k] \in Nat
    BY <2>2, InflatedOrder
  <2>4. CASE p = f[k]
    <3>1. Depth(us, p + 1) = Depth(ts, k + 1)
      BY <2>2, <2>4, InflatedDepth
    <3> QED
      BY <3>1 DEF Grammatical, Typed
  <2>5. CASE p = f[k] - 1
    <3>1. Depth(us, p + 1) = Depth(ts, k)
      <4>1. p + 1 = f[k]
        BY <2>3, <2>5
      <4> QED
        BY <4>1, InflatedDepth
    <3>2. k = 1 => Depth(ts, k) = 0
      BY DepthFacts
    <3>3. k # 1 => Depth(ts, (k - 1) + 1) >= 0
      <4>1. k # 1 => k - 1 \in DOMAIN ts
        BY <2>2 DEF Typed
      <4> QED
        BY <4>1 DEF Grammatical
    <3> QED
      BY <2>2, <3>1, <3>2, <3>3
  <2> QED
    BY <2>1, <2>4, <2>5
<1>7. Depth(us, Len(us) + 1) = 0
  BY <1>1, <1>2, InflatedDepth DEF Grammatical
<1>8. us # <<>>
  BY <1>4
<1> QED
  BY <1>3, <1>4, <1>5, <1>6, <1>7, <1>8 DEF Grammatical, Typed

\* MATCH stays usable.
LEMMA InflatedUsable ==
    ASSUME NEW ts, NEW us, NEW f, Typed(ts), Typed(us), Inflates(f, ts, us), Usable(ts)
    PROVE  Usable(us)
<1>1. SUFFICES ASSUME NEW p \in 1..Len(us), us[p].type = ContentContains
               PROVE  /\ ~IsNegated(us, p)
                      /\ \A g \in Groups(us) :
                            Encloses(us, g, p) => Ors(us, g) = {} /\ ~IsNegated(us, g)
  BY DEF Usable, MustHold, Typed
<1>2. ContentContains \in OperandTypes
  BY DEF OperandTypes
<1>3. PICK i \in 1..Len(ts) : p = f[i]
  <2>1. us[p].type # And
    BY <1>1, <1>2, OperandFacts
  <2> QED
    BY <2>1, InflatedPlaces
<1>4. us[p] = ts[i] /\ i \in DOMAIN ts
  BY <1>3, InflatedToken
<1>5. /\ ~IsNegated(ts, i)
      /\ \A g \in Groups(ts) : Encloses(ts, g, i) => Ors(ts, g) = {} /\ ~IsNegated(ts, g)
  BY <1>1, <1>4 DEF Usable, MustHold
<1>6. ~IsNegated(us, p)
  BY <1>3, <1>5, InflatedNegation
<1>7. ASSUME NEW q \in Groups(us), Encloses(us, q, p)
      PROVE  Ors(us, q) = {} /\ ~IsNegated(us, q)
  <2>1. PICK g \in Groups(ts) : q = f[g] /\ g \in 0..Len(ts)
    <3>1. CASE q = 0
      BY <3>1 DEF Groups, Inflates, Typed
    <3>2. CASE q # 0
      <4>1. q \in 1..Len(us) /\ us[q].type = Open
        BY <3>2 DEF Groups, Typed
      <4>2. PICK g \in 1..Len(ts) : q = f[g]
        BY <4>1, InflatedPlaces, MarkTypes
      <4>3. g \in Groups(ts) /\ g \in 0..Len(ts)
        BY <4>1, <4>2, InflatedToken DEF Groups
      <4> QED
        BY <4>2, <4>3
    <3> QED
      BY <3>1, <3>2
  <2>2. Encloses(ts, g, i)
    BY <1>3, <1>7, <2>1, InflatedGroup
  <2>3. Ors(ts, g) = {} /\ ~IsNegated(ts, g)
    BY <1>5, <2>2
  <2>4. Ors(us, q) = {}
    BY <2>1, <2>3, InflatedParts DEF Places
  <2>5. ~IsNegated(us, q)
    <3>1. CASE g = 0
      BY <2>1, <3>1 DEF IsNegated, Inflates
    <3>2. CASE g # 0
      <4>1. g \in 1..Len(ts)
        BY <2>1, <3>2 DEF Typed
      <4> QED
        BY <2>1, <2>3, <4>1, InflatedNegation
    <3> QED
      BY <3>1, <3>2
  <2> QED
    BY <2>4, <2>5
<1> QED
  BY <1>6, <1>7

----------------------------------------------------------------------------
(***************************************************************************)
(* The loops of build, and the reading of an expression, are functions     *)
(* defined by recursion. Of each: there is such a function, and its last   *)
(* value is what the operator stands for.                                  *)
(***************************************************************************)
Ands(h, n, ts) ==
    h = [k \in 0..n |-> IF k = 0 THEN <<>> ELSE WithAnd(h[k - 1], ts, k)]
LEMMA AndsExist ==
    ASSUME NEW ts, Len(ts) \in Nat
    PROVE  \E h : Ands(h, Len(ts), ts)
<1> DEFINE Bad == {n \in 0..Len(ts) : ~\E h : Ands(h, n, ts)}
<1>1. ASSUME Bad # {} PROVE FALSE
  <2>1. Bad \subseteq Nat
    OBVIOUS
  <2>2. PICK n \in Bad : \A k \in Bad : n <= k
    <3> HIDE DEF Bad
    <3> QED
      BY <1>1, <2>1, LeastNatural
  <2>3. n \in 0..Len(ts) /\ ~\E h : Ands(h, n, ts)
    BY <2>2
  <2>4. n # 0
    <3>1. Ands([k \in 0..0 |-> <<>>], 0, ts)
      BY DEF Ands
    <3> QED
      BY <2>3, <3>1
  <2>5. n - 1 \in 0..Len(ts) /\ n - 1 \notin Bad /\ n \in 1..Len(ts)
    BY <2>2, <2>3, <2>4
  <2>6. PICK h : Ands(h, n - 1, ts)
    BY <2>5
  <2> DEFINE g == [k \in 0..n |-> IF k = n THEN WithAnd(h[n - 1], ts, n) ELSE h[k]]
  <2>7. /\ \A k \in 0..n - 1 : g[k] = h[k]
        /\ g[n] = WithAnd(h[n - 1], ts, n)
        /\ g = [k \in 0..n |-> g[k]]
    BY <2>5
  <2> HIDE DEF g
  <2>8. ASSUME NEW k \in 0..n
        PROVE  g[k] = IF k = 0 THEN <<>> ELSE WithAnd(g[k - 1], ts, k)
    <3>1. k # 0 => k - 1 \in 0..n - 1 /\ g[k - 1] = h[k - 1]
      <4>1. k # 0 => k - 1 \in 0..n - 1
        BY <2>5
      <4> QED
        BY <2>7, <4>1
    <3>2. CASE k = n
      BY <2>5, <2>7, <3>1, <3>2
    <3>3. CASE k # n
      <4>1. k \in 0..n - 1
        BY <2>5, <3>3
      <4> QED
        BY <2>6, <2>7, <3>1, <4>1 DEF Ands
    <3> QED
      BY <3>2, <3>3
  <2>9. Ands(g, n, ts)
    BY <2>7, <2>8 DEF Ands
  <2> QED
    BY <2>3, <2>9
<1>2. Len(ts) \in 0..Len(ts) /\ Len(ts) \notin Bad
  <2> HIDE DEF Bad
  <2> QED
    BY <1>1
<1> QED
  BY <1>2

LEMMA AndsIs ==
    ASSUME NEW ts, Len(ts) \in Nat
    PROVE  \E h : Ands(h, Len(ts), ts) /\ AddAnds(ts) = h[Len(ts)]
<1>1. PICK h : Ands(h, Len(ts), ts)
  BY AndsExist
<1>2. PICK g : g = CHOOSE k : Ands(k, Len(ts), ts)
  OBVIOUS
<1>3. Ands(g, Len(ts), ts)
  BY <1>1, <1>2
<1>4. AddAnds(ts) = g[Len(ts)]
  BY <1>2, Zenon DEF AddAnds, Ands
<1> QED
  BY <1>3, <1>4

Readings(h, n, e, wordType, leftOut) ==
    h = [k \in 0..n |-> IF k = 0 THEN <<>>
                        ELSE IF e[k].kind \in leftOut THEN h[k - 1]
                        ELSE Append(h[k - 1], TokenOf(e[k], wordType))]
LEMMA ReadingsExist ==
    ASSUME NEW e, NEW wordType, NEW leftOut, Len(e) \in Nat
    PROVE  \E h : Readings(h, Len(e), e, wordType, leftOut)
<1> DEFINE Bad == {n \in 0..Len(e) : ~\E h : Readings(h, n, e, wordType, leftOut)}
<1>1. ASSUME Bad # {} PROVE FALSE
  <2>1. Bad \subseteq Nat
    OBVIOUS
  <2>2. PICK n \in Bad : \A k \in Bad : n <= k
    <3> HIDE DEF Bad
    <3> QED
      BY <1>1, <2>1, LeastNatural
  <2>3. n \in 0..Len(e) /\ ~\E h : Readings(h, n, e, wordType, leftOut)
    BY <2>2
  <2>4. n # 0
    <3>1. Readings([k \in 0..0 |-> <<>>], 0, e, wordType, leftOut)
      BY DEF Readings
    <3> QED
      BY <2>3, <3>1
  <2>5. n - 1 \in 0..Len(e) /\ n - 1 \notin Bad /\ n \in 1..Len(e)
    BY <2>2, <2>3, <2>4
  <2>6. PICK h : Readings(h, n - 1, e, wordType, leftOut)
    BY <2>5
  <2> DEFINE g == [k \in 0..n |-> IF k = n THEN (IF e[n].kind \in leftOut THEN h[n - 1] ELSE Append(h[n - 1], TokenOf(e[n], wordType))) ELSE h[k]]
  <2>7. /\ \A k \in 0..n - 1 : g[k] = h[k]
        /\ g[n] = (IF e[n].kind \in leftOut THEN h[n - 1] ELSE Append(h[n - 1], TokenOf(e[n], wordType)))
        /\ g = [k \in 0..n |-> g[k]]
    BY <2>5
  <2> HIDE DEF g
  <2>8. ASSUME NEW k \in 0..n
        PROVE  g[k] = IF k = 0 THEN <<>> ELSE (IF e[k].kind \in leftOut THEN g[k - 1] ELSE Append(g[k - 1], TokenOf(e[k], wordType)))
    <3>1. k # 0 => k - 1 \in 0..n - 1 /\ g[k - 1] = h[k - 1]
      <4>1. k # 0 => k - 1 \in 0..n - 1
        BY <2>5
      <4> QED
        BY <2>7, <4>1
    <3>2. CASE k = n
      BY <2>5, <2>7, <3>1, <3>2
    <3>3. CASE k # n
      <4>1. k \in 0..n - 1
        BY <2>5, <3>3
      <4> QED
        BY <2>6, <2>7, <3>1, <4>1 DEF Readings
    <3> QED
      BY <3>2, <3>3
  <2>9. Readings(g, n, e, wordType, leftOut)
    BY <2>7, <2>8 DEF Readings
  <2> QED
    BY <2>3, <2>9
<1>2. Len(e) \in 0..Len(e) /\ Len(e) \notin Bad
  <2> HIDE DEF Bad
  <2> QED
    BY <1>1
<1> QED
  BY <1>2

LEMMA ReadingsIs ==
    ASSUME NEW e, NEW wordType, NEW leftOut, Len(e) \in Nat
    PROVE  \E h : Readings(h, Len(e), e, wordType, leftOut) /\ Reading(e, wordType, leftOut) = h[Len(e)]
<1>1. PICK h : Readings(h, Len(e), e, wordType, leftOut)
  BY ReadingsExist
<1>2. PICK g : g = CHOOSE k : Readings(k, Len(e), e, wordType, leftOut)
  OBVIOUS
<1>3. Readings(g, Len(e), e, wordType, leftOut)
  BY <1>1, <1>2
<1>4. Reading(e, wordType, leftOut) = g[Len(e)]
  BY <1>2, Zenon DEF Reading, Readings
<1> QED
  BY <1>3, <1>4

Queries(h, n, e, wordType, merge) ==
    h = [k \in 0..n |-> IF k = 0 THEN NoQuery ELSE ReadMatch(h[k - 1], e[k], wordType, merge)]
LEMMA QueriesExist ==
    ASSUME NEW e, NEW wordType, NEW merge, Len(e) \in Nat
    PROVE  \E h : Queries(h, Len(e), e, wordType, merge)
<1> DEFINE Bad == {n \in 0..Len(e) : ~\E h : Queries(h, n, e, wordType, merge)}
<1>1. ASSUME Bad # {} PROVE FALSE
  <2>1. Bad \subseteq Nat
    OBVIOUS
  <2>2. PICK n \in Bad : \A k \in Bad : n <= k
    <3> HIDE DEF Bad
    <3> QED
      BY <1>1, <2>1, LeastNatural
  <2>3. n \in 0..Len(e) /\ ~\E h : Queries(h, n, e, wordType, merge)
    BY <2>2
  <2>4. n # 0
    <3>1. Queries([k \in 0..0 |-> NoQuery], 0, e, wordType, merge)
      BY DEF Queries
    <3> QED
      BY <2>3, <3>1
  <2>5. n - 1 \in 0..Len(e) /\ n - 1 \notin Bad /\ n \in 1..Len(e)
    BY <2>2, <2>3, <2>4
  <2>6. PICK h : Queries(h, n - 1, e, wordType, merge)
    BY <2>5
  <2> DEFINE g == [k \in 0..n |-> IF k = n THEN ReadMatch(h[n - 1], e[n], wordType, merge) ELSE h[k]]
  <2>7. /\ \A k \in 0..n - 1 : g[k] = h[k]
        /\ g[n] = ReadMatch(h[n - 1], e[n], wordType, merge)
        /\ g = [k \in 0..n |-> g[k]]
    BY <2>5
  <2> HIDE DEF g
  <2>8. ASSUME NEW k \in 0..n
        PROVE  g[k] = IF k = 0 THEN NoQuery ELSE ReadMatch(g[k - 1], e[k], wordType, merge)
    <3>1. k # 0 => k - 1 \in 0..n - 1 /\ g[k - 1] = h[k - 1]
      <4>1. k # 0 => k - 1 \in 0..n - 1
        BY <2>5
      <4> QED
        BY <2>7, <4>1
    <3>2. CASE k = n
      BY <2>5, <2>7, <3>1, <3>2
    <3>3. CASE k # n
      <4>1. k \in 0..n - 1
        BY <2>5, <3>3
      <4> QED
        BY <2>6, <2>7, <3>1, <4>1 DEF Queries
    <3> QED
      BY <3>2, <3>3
  <2>9. Queries(g, n, e, wordType, merge)
    BY <2>7, <2>8 DEF Queries
  <2> QED
    BY <2>3, <2>9
<1>2. Len(e) \in 0..Len(e) /\ Len(e) \notin Bad
  <2> HIDE DEF Bad
  <2> QED
    BY <1>1
<1> QED
  BY <1>2

LEMMA QueriesIs ==
    ASSUME NEW e, NEW wordType, NEW merge, Len(e) \in Nat
    PROVE  \E h : Queries(h, Len(e), e, wordType, merge) /\ ReadMatches(e, wordType, merge) = h[Len(e)]
<1>1. PICK h : Queries(h, Len(e), e, wordType, merge)
  BY QueriesExist
<1>2. PICK g : g = CHOOSE k : Queries(k, Len(e), e, wordType, merge)
  OBVIOUS
<1>3. Queries(g, Len(e), e, wordType, merge)
  BY <1>1, <1>2
<1>4. ReadMatches(e, wordType, merge) = g[Len(e)]
  BY <1>2, Zenon DEF ReadMatches, Queries
<1> QED
  BY <1>3, <1>4

\* What grows at its end keeps its beginning.
Grows(h, n, T) ==
    /\ \A k \in 0..n : h[k] \in Seq(T)
    /\ \A k \in 1..n : /\ Len(h[k - 1]) <= Len(h[k])
                       /\ \A i \in 1..Len(h[k - 1]) : h[k][i] = h[k - 1][i]
LEMMA BeginningKept ==
    ASSUME NEW n \in Nat, NEW T, NEW h, Grows(h, n, T), NEW j \in 0..n
    PROVE  Len(h[j]) <= Len(h[n]) /\ \A i \in 1..Len(h[j]) : h[n][i] = h[j][i]
<1> DEFINE Kept(k) == Len(h[k]) <= Len(h[n]) /\ \A i \in 1..Len(h[k]) : h[n][i] = h[k][i]
           Bad == {d \in 0..n : ~Kept(n - d)}
<1>1. \A k \in 0..n : Len(h[k]) \in Nat
  BY DEF Grows
<1>2. ASSUME Bad # {} PROVE FALSE
  <2>1. Bad \subseteq Nat
    OBVIOUS
  <2>2. PICK d \in Bad : \A k \in Bad : d <= k
    <3> HIDE DEF Bad
    <3> QED
      BY <1>2, <2>1, LeastNatural
  <2>3. d \in 0..n /\ ~Kept(n - d)
    BY <2>2
  <2>4. d # 0
    <3>1. n - 0 = n /\ Len(h[n]) \in Nat
      BY <1>1
    <3>2. Kept(n)
      BY <3>1
    <3> HIDE DEF Kept, Bad
    <3> QED
      BY <2>3, <3>1, <3>2
  <2>5. d - 1 \in 0..n /\ d - 1 \notin Bad
    <3> HIDE DEF Bad
    <3> QED
      BY <2>2, <2>3, <2>4
  <2>6. PICK k \in 1..n : k = n - (d - 1) /\ k - 1 = n - d /\ k - 1 \in 0..n /\ k \in 0..n
    BY <2>3, <2>4
  <2>7. Kept(k)
    <3> HIDE DEF Kept
    <3> QED
      BY <2>5, <2>6
  <2>8. Len(h[k - 1]) <= Len(h[k]) /\ \A i \in 1..Len(h[k - 1]) : h[k][i] = h[k - 1][i]
    BY DEF Grows
  <2>9. Len(h[k]) \in Nat /\ Len(h[k - 1]) \in Nat /\ Len(h[n]) \in Nat
    BY <1>1, <2>6
  <2>10. Kept(k - 1)
    <3> HIDE DEF Bad
    <3>1. \A i \in 1..Len(h[k - 1]) : i \in 1..Len(h[k])
      BY <2>8, <2>9
    <3> QED
      BY <2>7, <2>8, <2>9, <3>1
  <2> HIDE DEF Kept, Bad
  <2> QED
    BY <2>3, <2>6, <2>10
<1>3. n - j \in 0..n /\ n - (n - j) = j
  OBVIOUS
<1>4. Kept(j)
  <2>1. n - j \notin Bad
    <3> HIDE DEF Bad
    <3> QED
      BY <1>2
  <2> HIDE DEF Kept
  <2> QED
    BY <1>3, <2>1
<1> QED
  BY <1>4

LEMMA SeqTyped ==
    ASSUME NEW T, \A t \in T : t.type \in TokenTypes, NEW ts \in Seq(T)
    PROVE  Typed(ts)
BY DEF Typed

Extends(us, s, ts, k) ==
    /\ Len(s) \in Nat /\ Len(s) <= Len(us) /\ \A i \in 1..Len(s) : us[i] = s[i]
    /\ Len(us) \in Nat /\ us[Len(us)] = ts[k]
    /\ Joined(ts, k) => Len(us) = Len(s) + 2 /\ us[Len(us) - 1].type = And
    /\ ~Joined(ts, k) => Len(us) = Len(s) + 1
LEMMA WithAndFacts ==
    ASSUME NEW T, \A t \in T : t.type \in TokenTypes, NEW ts \in Seq(T), NEW k \in 1..Len(ts),
           NEW s \in Seq(T \cup {Mark(And)})
    PROVE  WithAnd(s, ts, k) \in Seq(T \cup {Mark(And)}) /\ Extends(WithAnd(s, ts, k), s, ts, k)
<1> DEFINE us == WithAnd(s, ts, k)
<1>1. ts[k] \in T /\ k \in Nat /\ k >= 1
  OBVIOUS
<1>2. NeedsAnd(ts[k], PrevType(ts, k)) <=> Joined(ts, k)
  <2>1. CASE k = 1
    BY <1>1, <2>1, NeedsAndFacts, MarkTypes DEF PrevType, Joined, TokenTypes
  <2>2. CASE k # 1
    BY <1>1, <2>2 DEF PrevType, Joined
  <2> QED
    BY <2>1, <2>2
<1>3. CASE Joined(ts, k)
  <2>1. us = s \o <<Mark(And), ts[k]>>
    BY <1>2, <1>3 DEF WithAnd
  <2> HIDE DEF us
  <2>2. us[Len(s) + 1] = Mark(And) /\ us[Len(s) + 2] = ts[k] /\ Len(us) = Len(s) + 2
    BY <2>1
  <2>3. Mark(And).type = And
    BY DEF Mark, Token
  <2>4. Len(us) - 1 = Len(s) + 1
    BY <2>2
  <2>5. us \in Seq(T \cup {Mark(And)})
    BY <1>1, <2>1
  <2>6. \A i \in 1..Len(s) : us[i] = s[i]
    BY <2>1
  <2>7. Len(s) \in Nat /\ Len(us) \in Nat /\ us[Len(us)] = ts[k] /\ us[Len(us) - 1].type = And
    BY <2>2, <2>3, <2>4
  <2>8. Extends(us, s, ts, k)
    BY <1>3, <2>2, <2>6, <2>7 DEF Extends
  <2> QED
    BY <2>5, <2>8 DEF us
<1>4. CASE ~Joined(ts, k)
  <2>1. us = s \o <<ts[k]>>
    BY <1>2, <1>4 DEF WithAnd
  <2> HIDE DEF us
  <2>2. us[Len(s) + 1] = ts[k] /\ Len(us) = Len(s) + 1
    BY <2>1
  <2>3. us \in Seq(T \cup {Mark(And)})
    BY <1>1, <2>1
  <2>4. \A i \in 1..Len(s) : us[i] = s[i]
    BY <2>1
  <2>5. Len(s) \in Nat /\ Len(us) \in Nat /\ us[Len(us)] = ts[k]
    BY <2>2
  <2>6. Extends(us, s, ts, k)
    BY <1>4, <2>2, <2>4, <2>5 DEF Extends
  <2> QED
    BY <2>3, <2>6 DEF us
<1> QED
  BY <1>3, <1>4

LEMMA AddAndsInflates ==
    ASSUME NEW T, \A t \in T : t.type \in TokenTypes, NEW ts \in Seq(T)
    PROVE  /\ AddAnds(ts) \in Seq(T \cup {Mark(And)}) /\ Typed(ts) /\ Typed(AddAnds(ts))
           /\ \E f : Inflates(f, ts, AddAnds(ts))
<1> DEFINE U == T \cup {Mark(And)}
<1>1. Len(ts) \in Nat /\ Typed(ts)
  BY SeqTyped
<1>2. \A t \in U : t.type \in TokenTypes
  BY DEF Mark, Token, TokenTypes
<1>3. PICK h : Ands(h, Len(ts), ts) /\ AddAnds(ts) = h[Len(ts)]
  BY <1>1, AndsIs
<1>4. h[0] = <<>> /\ \A k \in 1..Len(ts) : h[k] = WithAnd(h[k - 1], ts, k)
  BY <1>1, <1>3 DEF Ands
<1> HIDE DEF U
<1>5. \A k \in 0..Len(ts) : h[k] \in Seq(U)
  <2> DEFINE Bad == {k \in 0..Len(ts) : h[k] \notin Seq(U)}
  <2>1. ASSUME Bad # {} PROVE FALSE
    <3>1. Bad \subseteq Nat
      BY <1>1
    <3>2. PICK k \in Bad : \A i \in Bad : k <= i
      <4> HIDE DEF Bad
      <4> QED
        BY <2>1, <3>1, LeastNatural
    <3>3. k \in 0..Len(ts) /\ h[k] \notin Seq(U)
      BY <3>2
    <3>4. k # 0
      <4>1. <<>> \in Seq(U)
        OBVIOUS
      <4> QED
        BY <1>4, <3>3, <4>1
    <3>5. k \in 1..Len(ts) /\ k - 1 \in 0..Len(ts)
      BY <1>1, <3>3, <3>4
    <3>6. k - 1 \notin Bad
      <4> HIDE DEF Bad
      <4> QED
        BY <1>1, <3>2, <3>5
    <3>7. h[k - 1] \in Seq(U)
      BY <3>5, <3>6
    <3> HIDE DEF Bad
    <3> QED
      BY <1>4, <3>3, <3>5, <3>7, WithAndFacts DEF U
  <2> QED
    BY <2>1
<1>6. ASSUME NEW k \in 1..Len(ts)
      PROVE  Extends(h[k], h[k - 1], ts, k)
  <2>1. k - 1 \in 0..Len(ts)
    BY <1>1
  <2>2. h[k - 1] \in Seq(T \cup {Mark(And)}) /\ h[k] = WithAnd(h[k - 1], ts, k)
    BY <1>4, <1>5, <2>1 DEF U
  <2> QED
    BY <2>2, WithAndFacts
<1>7. Grows(h, Len(ts), U)
  BY <1>5, <1>6 DEF Grows, Extends
<1> DEFINE us == h[Len(ts)]
           f == [k \in 0..Len(ts) |-> Len(h[k])]
<1>8. us \in Seq(U) /\ Len(us) \in Nat /\ Typed(us)
  BY <1>1, <1>2, <1>5, SeqTyped
<1>9. \A k \in 0..Len(ts) : Len(h[k]) \in 0..Len(us) /\ \A i \in 1..Len(h[k]) : us[i] = h[k][i]
  <2> TAKE k \in 0..Len(ts)
  <2>1. Len(h[k]) \in Nat
    BY <1>5
  <2>2. Len(h[k]) <= Len(us) /\ \A i \in 1..Len(h[k]) : us[i] = h[k][i]
    BY <1>1, <1>7, BeginningKept
  <2> QED
    BY <1>8, <2>1, <2>2
<1>10. /\ f \in [0..Len(ts) -> 0..Len(us)]
       /\ \A k \in 0..Len(ts) : f[k] = Len(h[k])
       /\ f[0] = 0 /\ f[Len(ts)] = Len(us)
  BY <1>1, <1>4, <1>9
<1> HIDE DEF us, f
<1>11. ASSUME NEW k \in 1..Len(ts)
       PROVE  /\ us[f[k]] = ts[k]
              /\ Joined(ts, k) => f[k] = f[k - 1] + 2 /\ us[f[k] - 1].type = And
              /\ ~Joined(ts, k) => f[k] = f[k - 1] + 1
  <2>1. k \in 0..Len(ts) /\ k - 1 \in 0..Len(ts)
    BY <1>1
  <2>2. f[k] = Len(h[k]) /\ f[k - 1] = Len(h[k - 1])
    BY <1>10, <2>1
  <2>3. \A i \in 1..Len(h[k]) : us[i] = h[k][i]
    BY <1>9, <2>1
  <2>4. Len(h[k]) \in 1..Len(h[k]) /\ (Joined(ts, k) => Len(h[k]) - 1 \in 1..Len(h[k]))
    BY <1>6 DEF Extends
  <2>5. us[Len(h[k])] = h[k][Len(h[k])]
    BY <2>3, <2>4
  <2>6. Joined(ts, k) => us[Len(h[k]) - 1] = h[k][Len(h[k]) - 1]
    BY <2>3, <2>4
  <2> QED
    BY <1>6, <2>2, <2>5, <2>6 DEF Extends
<1>12. Inflates(f, ts, us)
  BY <1>10, <1>11 DEF Inflates
<1> QED
  BY <1>1, <1>3, <1>8, <1>12 DEF us, U

----------------------------------------------------------------------------
\* What the lexemes of an expression stand for.
LEMMA KindsAre ==
    /\ DOMAIN MarkType = {"and", "or", "not", "open", "close"}
    /\ DOMAIN FilterType = {"p", "pb", "pe", "size", "c", "page", "t", "toc"}
BY DEF MarkType, FilterType

LEMMA TypesAre ==
    /\ MarkType["and"] = And /\ MarkType["or"] = Or /\ MarkType["not"] = Negation
    /\ MarkType["open"] = Open /\ MarkType["close"] = Close
    /\ FilterType["p"] = PathContains /\ FilterType["pb"] = PathStarts
    /\ FilterType["pe"] = PathEnds /\ FilterType["size"] = PathSize
    /\ FilterType["c"] = ContentContains /\ FilterType["page"] = ContentPage
    /\ FilterType["t"] = TagAssigned /\ FilterType["toc"] = OutlineContains
BY DEF MarkType, FilterType

LEMMA TokenOfFacts ==
    ASSUME NEW l \in Lexemes, l.kind # "sort", NEW wordType
    PROVE  /\ l.kind = "word" => TokenOf(l, wordType) = Token(wordType, l.value)
           /\ l.kind \in DOMAIN MarkType => TokenOf(l, wordType) = Mark(MarkType[l.kind])
           /\ l.kind \in DOMAIN FilterType =>
                 TokenOf(l, wordType) = Token(FilterType[l.kind], l.value)
           /\ l.kind \in DOMAIN MarkType =>
                 TokenOf(l, wordType).type \in {And, Or, Negation, Open, Close}
           /\ l.kind \in DOMAIN FilterType => TokenOf(l, wordType).type \in OperandTypes
           /\ l.kind # "word" \/ wordType \in OperandTypes =>
                 TokenOf(l, wordType).type \in TokenTypes
<1>1. l.kind \in {"word", "sort"} \cup DOMAIN MarkType \cup DOMAIN FilterType
  BY LexemesAssumption
<1>2. l.kind = "word" => TokenOf(l, wordType) = Token(wordType, l.value)
  BY KindsAre DEF TokenOf
<1>3. l.kind \in DOMAIN MarkType => TokenOf(l, wordType) = Mark(MarkType[l.kind])
  BY KindsAre DEF TokenOf
<1>4. l.kind \in DOMAIN FilterType => TokenOf(l, wordType) = Token(FilterType[l.kind], l.value)
  BY KindsAre DEF TokenOf
<1>5. \A k \in DOMAIN MarkType : Mark(MarkType[k]).type \in {And, Or, Negation, Open, Close}
  BY KindsAre, TypesAre DEF Mark, Token
<1>6. \A k \in DOMAIN FilterType : \A v : Token(FilterType[k], v).type \in OperandTypes
  BY KindsAre, TypesAre DEF Token, OperandTypes
<1>7. Token(wordType, l.value).type = wordType
  BY DEF Token
<1>8. OperandTypes \subseteq TokenTypes /\ {And, Or, Negation, Open, Close} \subseteq TokenTypes
  BY DEF TokenTypes
<1> QED
  BY <1>1, <1>2, <1>3, <1>4, <1>5, <1>6, <1>7, <1>8

\* An expression read from its beginning: h[k] are the tokens of its first k lexemes.
Taken(e, leftOut) == {k \in 1..Len(e) : e[k].kind \notin leftOut}
TokensOf(e, wordType, leftOut) == {TokenOf(e[k], wordType) : k \in Taken(e, leftOut)}
Reads(h, e, wordType, leftOut) ==
    /\ h[0] = <<>> /\ h[Len(e)] = Reading(e, wordType, leftOut)
    /\ Grows(h, Len(e), TokensOf(e, wordType, leftOut))
    /\ \A k \in 1..Len(e) : e[k].kind \in leftOut => h[k] = h[k - 1]
    /\ \A k \in 1..Len(e) : e[k].kind \notin leftOut =>
          /\ h[k] = Append(h[k - 1], TokenOf(e[k], wordType))
          /\ Len(h[k]) = Len(h[k - 1]) + 1 /\ h[k][Len(h[k])] = TokenOf(e[k], wordType)

LEMMA ReadingIs ==
    ASSUME NEW e, Len(e) \in Nat, NEW wordType, NEW leftOut
    PROVE  \E h : Reads(h, e, wordType, leftOut)
<1>1. PICK h : /\ Readings(h, Len(e), e, wordType, leftOut)
               /\ Reading(e, wordType, leftOut) = h[Len(e)]
  BY ReadingsIs
<1>2. h[0] = <<>>
  BY <1>1 DEF Readings
<1> DEFINE Step(k) == IF k = 0 THEN <<>>
                      ELSE IF e[k].kind \in leftOut THEN h[k - 1]
                      ELSE Append(h[k - 1], TokenOf(e[k], wordType))
<1>a. \A k \in 0..Len(e) : h[k] = Step(k)
  BY <1>1 DEF Readings
<1>b. \A k \in 1..Len(e) : k \in 0..Len(e) /\ k # 0
  OBVIOUS
<1>3. \A k \in 1..Len(e) : e[k].kind \in leftOut => h[k] = h[k - 1]
  BY <1>a, <1>b
<1>4. \A k \in 1..Len(e) : e[k].kind \notin leftOut =>
          h[k] = Append(h[k - 1], TokenOf(e[k], wordType))
  BY <1>a, <1>b
<1> HIDE DEF Step
<1> DEFINE T == TokensOf(e, wordType, leftOut)
<1>5. \A k \in 1..Len(e) : e[k].kind \notin leftOut => TokenOf(e[k], wordType) \in T
  BY DEF TokensOf, Taken
<1> HIDE DEF T
<1>6. \A k \in 0..Len(e) : h[k] \in Seq(T)
  <2> DEFINE Bad == {k \in 0..Len(e) : h[k] \notin Seq(T)}
  <2>1. ASSUME Bad # {} PROVE FALSE
    <3>1. Bad \subseteq Nat
      OBVIOUS
    <3>2. PICK k \in Bad : \A i \in Bad : k <= i
      <4> HIDE DEF Bad
      <4> QED
        BY <2>1, <3>1, LeastNatural
    <3>3. k \in 0..Len(e) /\ h[k] \notin Seq(T)
      BY <3>2
    <3>4. k # 0
      <4>1. <<>> \in Seq(T)
        OBVIOUS
      <4> QED
        BY <1>2, <3>3, <4>1
    <3>5. k \in 1..Len(e) /\ k - 1 \in 0..Len(e)
      BY <3>3, <3>4
    <3>6. k - 1 \notin Bad
      <4> HIDE DEF Bad
      <4> QED
        BY <3>2, <3>5
    <3>7. h[k - 1] \in Seq(T)
      BY <3>5, <3>6
    <3>8. CASE e[k].kind \in leftOut
      BY <1>3, <3>3, <3>5, <3>7, <3>8
    <3>9. CASE e[k].kind \notin leftOut
      <4>1. h[k] = Append(h[k - 1], TokenOf(e[k], wordType)) /\ TokenOf(e[k], wordType) \in T
        BY <1>4, <1>5, <3>5, <3>9
      <4> QED
        BY <3>3, <3>7, <4>1
    <3> QED
      BY <3>8, <3>9
  <2> QED
    BY <2>1
<1>7. ASSUME NEW k \in 1..Len(e), e[k].kind \notin leftOut
      PROVE  /\ Len(h[k]) = Len(h[k - 1]) + 1 /\ h[k][Len(h[k])] = TokenOf(e[k], wordType)
             /\ \A i \in 1..Len(h[k - 1]) : h[k][i] = h[k - 1][i]
  <2>1. k - 1 \in 0..Len(e)
    OBVIOUS
  <2> QED
    BY <1>4, <1>5, <1>6, <1>7, <2>1
<1>8. \A k \in 1..Len(e) : /\ Len(h[k - 1]) <= Len(h[k])
                           /\ \A i \in 1..Len(h[k - 1]) : h[k][i] = h[k - 1][i]
  <2> TAKE k \in 1..Len(e)
  <2>1. k - 1 \in 0..Len(e)
    OBVIOUS
  <2>2. Len(h[k - 1]) \in Nat
    BY <1>6, <2>1
  <2> QED
    BY <1>3, <1>7, <2>2
<1>9. Grows(h, Len(e), T)
  BY <1>6, <1>8 DEF Grows
<1> QED
  BY <1>1, <1>2, <1>3, <1>4, <1>7, <1>9 DEF Reads, T

\* Its tokens are those of the lexemes that are not left out.
LEMMA ReadingFacts ==
    ASSUME NEW e, Len(e) \in Nat, NEW wordType, NEW leftOut, NEW ts,
           ts = Reading(e, wordType, leftOut)
    PROVE  /\ ts \in Seq(TokensOf(e, wordType, leftOut))
           /\ \A i \in 1..Len(ts) : \E k \in Taken(e, leftOut) : ts[i] = TokenOf(e[k], wordType)
           /\ \A k \in Taken(e, leftOut) : \E i \in 1..Len(ts) : ts[i] = TokenOf(e[k], wordType)
<1>1. PICK h : Reads(h, e, wordType, leftOut)
  BY ReadingIs
<1>2. ts \in Seq(TokensOf(e, wordType, leftOut)) /\ ts = h[Len(e)]
  BY <1>1 DEF Reads, Grows
<1>3. \A i \in 1..Len(ts) : ts[i] \in TokensOf(e, wordType, leftOut)
  BY <1>2
<1>4. \A i \in 1..Len(ts) : \E k \in Taken(e, leftOut) : ts[i] = TokenOf(e[k], wordType)
  BY <1>3 DEF TokensOf
<1>5. ASSUME NEW k \in Taken(e, leftOut)
      PROVE  \E i \in 1..Len(ts) : ts[i] = TokenOf(e[k], wordType)
  <2>1. k \in 1..Len(e) /\ k - 1 \in 0..Len(e) /\ k \in 0..Len(e) /\ e[k].kind \notin leftOut
    BY DEF Taken
  <2>2. Len(h[k]) = Len(h[k - 1]) + 1 /\ h[k][Len(h[k])] = TokenOf(e[k], wordType)
    BY <1>1, <2>1 DEF Reads
  <2>3. Len(h[k - 1]) \in Nat /\ Len(h[Len(e)]) \in Nat
    BY <1>1, <2>1 DEF Reads, Grows
  <2>4. Len(h[k]) <= Len(h[Len(e)]) /\ \A i \in 1..Len(h[k]) : h[Len(e)][i] = h[k][i]
    BY <1>1, <2>1, BeginningKept DEF Reads
  <2>5. Len(h[k]) \in 1..Len(ts) /\ ts[Len(h[k])] = TokenOf(e[k], wordType)
    BY <1>2, <2>2, <2>3, <2>4
  <2> QED
    BY <2>5
<1> QED
  BY <1>2, <1>4, <1>5

LEMMA ReadingTyped ==
    ASSUME NEW e \in Seq(Lexemes), NEW wordType, NEW leftOut, "sort" \in leftOut,
           wordType \in OperandTypes \/ "word" \in leftOut
    PROVE  /\ \A t \in TokensOf(e, wordType, leftOut) : t.type \in TokenTypes
           /\ Typed(Reading(e, wordType, leftOut))
           /\ Reading(e, wordType, leftOut) \in Seq(TokensOf(e, wordType, leftOut))
<1>1. ASSUME NEW k \in Taken(e, leftOut) PROVE TokenOf(e[k], wordType).type \in TokenTypes
  <2>1. e[k] \in Lexemes /\ e[k].kind # "sort" /\ (e[k].kind # "word" \/ wordType \in OperandTypes)
    BY DEF Taken
  <2> QED
    BY <2>1, TokenOfFacts
<1>2. \A t \in TokensOf(e, wordType, leftOut) : t.type \in TokenTypes
  BY <1>1 DEF TokensOf
<1>3. Len(e) \in Nat
  OBVIOUS
<1>4. Reading(e, wordType, leftOut) \in Seq(TokensOf(e, wordType, leftOut))
  BY <1>3, ReadingFacts
<1> QED
  BY <1>2, <1>4, SeqTyped

\* The token i of the reading is that of the lexeme with which it gets so long.
LEMMA ReadingGrows ==
    ASSUME NEW e, Len(e) \in Nat, NEW wordType, NEW leftOut, NEW h, Reads(h, e, wordType, leftOut),
           NEW k \in 0..Len(e), NEW j \in 0..k
    PROVE  Len(h[j]) \in Nat /\ Len(h[k]) \in Nat /\ Len(h[j]) <= Len(h[k])
<1>1. Grows(h, k, TokensOf(e, wordType, leftOut))
  <2>1. 0..k \subseteq 0..Len(e) /\ 1..k \subseteq 1..Len(e)
    OBVIOUS
  <2> QED
    BY <2>1 DEF Reads, Grows
<1>2. Len(h[j]) \in Nat /\ Len(h[k]) \in Nat
  <2>1. j \in 0..Len(e)
    OBVIOUS
  <2> QED
    BY <2>1 DEF Reads, Grows
<1>3. k \in Nat
  OBVIOUS
<1> QED
  BY <1>1, <1>2, <1>3, BeginningKept

LEMMA ReadingPlaces ==
    ASSUME NEW e, Len(e) \in Nat, NEW wordType, NEW leftOut, NEW h, Reads(h, e, wordType, leftOut),
           NEW i \in 1..Len(h[Len(e)])
    PROVE  \E k \in Taken(e, leftOut) :
              Len(h[k]) = i /\ Len(h[k - 1]) = i - 1 /\ h[Len(e)][i] = TokenOf(e[k], wordType)
<1>1. \A k \in 0..Len(e) : Len(h[k]) \in Nat
  BY DEF Reads, Grows
<1>2. i \in Nat /\ i >= 1 /\ i <= Len(h[Len(e)])
  BY <1>1
<1> DEFINE Far == {k \in 0..Len(e) : Len(h[k]) >= i}
<1>3. Far # {} /\ Far \subseteq Nat
  BY <1>2
<1>4. PICK k \in Far : \A j \in Far : k <= j
  <2> HIDE DEF Far
  <2> QED
    BY <1>3, LeastNatural
<1>5. k # 0
  BY <1>2, <1>4 DEF Reads
<1>6. k \in 1..Len(e) /\ k - 1 \in 0..Len(e) /\ k \in 0..Len(e) /\ Len(h[k]) >= i
  BY <1>4, <1>5
<1>7. k - 1 \notin Far
  <2>1. k - 1 < k
    BY <1>6
  <2> HIDE DEF Far
  <2> QED
    BY <1>4, <1>6, <2>1
<1>8. Len(h[k - 1]) < i
  BY <1>1, <1>2, <1>6, <1>7
<1>9. e[k].kind \notin leftOut
  <2>1. e[k].kind \in leftOut => h[k] = h[k - 1]
    BY <1>6 DEF Reads
  <2> QED
    BY <1>1, <1>2, <1>6, <1>8, <2>1
<1>10. Len(h[k]) = Len(h[k - 1]) + 1 /\ h[k][Len(h[k])] = TokenOf(e[k], wordType)
  BY <1>6, <1>9 DEF Reads
<1>11. Len(h[k]) = i /\ Len(h[k - 1]) = i - 1
  BY <1>1, <1>2, <1>6, <1>8, <1>10
<1>12. h[Len(e)][i] = h[k][i]
  <2>1. \A j \in 1..Len(h[k]) : h[Len(e)][j] = h[k][j]
    BY <1>6, BeginningKept DEF Reads
  <2> QED
    BY <1>2, <1>11, <2>1
<1> QED
  BY <1>6, <1>9, <1>10, <1>11, <1>12 DEF Taken

\* Where nothing is left out every lexeme has its own place.
LEMMA WholeReading ==
    ASSUME NEW e, Len(e) \in Nat, NEW wordType, NEW leftOut, NEW h, Reads(h, e, wordType, leftOut),
           \A k \in 1..Len(e) : e[k].kind \notin leftOut, NEW k \in 0..Len(e)
    PROVE  Len(h[k]) = k
<1> DEFINE Bad == {n \in 0..Len(e) : Len(h[n]) # n}
<1>1. ASSUME Bad # {} PROVE FALSE
  <2>1. Bad \subseteq Nat
    OBVIOUS
  <2>2. PICK n \in Bad : \A j \in Bad : n <= j
    <3> HIDE DEF Bad
    <3> QED
      BY <1>1, <2>1, LeastNatural
  <2>3. n \in 0..Len(e) /\ Len(h[n]) # n
    BY <2>2
  <2>4. n # 0
    BY <2>3 DEF Reads
  <2>5. n \in 1..Len(e) /\ n - 1 \in 0..Len(e) /\ n - 1 \notin Bad
    BY <2>2, <2>3, <2>4
  <2>6. Len(h[n]) = Len(h[n - 1]) + 1
    BY <2>5 DEF Reads
  <2> QED
    BY <2>3, <2>5, <2>6
<1> QED
  BY <1>1

----------------------------------------------------------------------------
\* The parentheses of an expression are those of its reading.
Opening(e, n) == {i \in 1..n : e[i].kind = "open"}
Closing(e, n) == {i \in 1..n : e[i].kind = "close"}
LEMMA CountKinds ==
    ASSUME NEW e, NEW n \in Nat
    PROVE  /\ Cardinality(Opening(e, 0)) = 0 /\ Cardinality(Closing(e, 0)) = 0
           /\ Cardinality(Opening(e, n)) \in Nat /\ Cardinality(Closing(e, n)) \in Nat
           /\ e[n + 1].kind = "open" => Cardinality(Opening(e, n + 1)) = Cardinality(Opening(e, n)) + 1
           /\ e[n + 1].kind # "open" => Cardinality(Opening(e, n + 1)) = Cardinality(Opening(e, n))
           /\ e[n + 1].kind = "close" => Cardinality(Closing(e, n + 1)) = Cardinality(Closing(e, n)) + 1
           /\ e[n + 1].kind # "close" => Cardinality(Closing(e, n + 1)) = Cardinality(Closing(e, n))
<1>1. Opening(e, 0) = {} /\ Closing(e, 0) = {}
  BY DEF Opening, Closing
<1>2. IsFiniteSet(Opening(e, n)) /\ IsFiniteSet(Closing(e, n))
  <2>1. IsFiniteSet(1..n)
    <3>1. 1 \in Int /\ n \in Int
      OBVIOUS
    <3> QED
      BY <3>1, FS_Interval
  <2>2. Opening(e, n) \in SUBSET (1..n) /\ Closing(e, n) \in SUBSET (1..n)
    BY DEF Opening, Closing
  <2> QED
    BY <2>1, <2>2, FS_Subset
<1>3. 1..n + 1 = (1..n) \cup {n + 1} /\ n + 1 \notin 1..n
  OBVIOUS
<1>4. /\ Opening(e, n + 1) = IF e[n + 1].kind = "open" THEN Opening(e, n) \cup {n + 1} ELSE Opening(e, n)
      /\ n + 1 \notin Opening(e, n)
  BY <1>3 DEF Opening
<1>5. /\ Closing(e, n + 1) = IF e[n + 1].kind = "close" THEN Closing(e, n) \cup {n + 1} ELSE Closing(e, n)
      /\ n + 1 \notin Closing(e, n)
  BY <1>3 DEF Closing
<1>6. Cardinality(Opening(e, n)) \in Nat /\ Cardinality(Closing(e, n)) \in Nat
  BY <1>2, FS_CardinalityType
<1>7. /\ e[n + 1].kind = "open" => Cardinality(Opening(e, n + 1)) = Cardinality(Opening(e, n)) + 1
      /\ e[n + 1].kind # "open" => Opening(e, n + 1) = Opening(e, n)
  <2>1. Cardinality(Opening(e, n) \cup {n + 1}) = Cardinality(Opening(e, n)) + 1
    BY <1>2, <1>4, FS_AddElement
  <2> QED
    BY <1>4, <2>1
<1>8. /\ e[n + 1].kind = "close" => Cardinality(Closing(e, n + 1)) = Cardinality(Closing(e, n)) + 1
      /\ e[n + 1].kind # "close" => Closing(e, n + 1) = Closing(e, n)
  <2>1. Cardinality(Closing(e, n) \cup {n + 1}) = Cardinality(Closing(e, n)) + 1
    BY <1>2, <1>5, FS_AddElement
  <2> QED
    BY <1>5, <2>1
<1> QED
  BY <1>1, <1>6, <1>7, <1>8, FS_EmptySet

LEMMA ReadingDepth ==
    ASSUME NEW e \in Seq(Lexemes), NEW wordType, NEW leftOut, NEW h, Reads(h, e, wordType, leftOut),
           "sort" \in leftOut, {"open", "close"} \cap leftOut = {},
           wordType \in OperandTypes \/ "word" \in leftOut, NEW k \in 0..Len(e)
    PROVE  Depth(h[k], Len(h[k]) + 1) =
              Cardinality(Opening(e, k)) - Cardinality(Closing(e, k))
<1> DEFINE Deep(n) == Depth(h[n], Len(h[n]) + 1) =
                         Cardinality(Opening(e, n)) - Cardinality(Closing(e, n))
           Bad == {n \in 0..Len(e) : ~Deep(n)}
<1>1. ASSUME Bad # {} PROVE FALSE
  <2>1. Bad \subseteq Nat
    OBVIOUS
  <2>2. PICK n \in Bad : \A j \in Bad : n <= j
    <3> HIDE DEF Bad
    <3> QED
      BY <1>1, <2>1, LeastNatural
  <2>3. n \in 0..Len(e) /\ ~Deep(n)
    BY <2>2
  <2>4. n # 0
    <3>1. Deep(0)
      <4>1. h[0] = <<>> /\ Len(h[0]) + 1 = 1
        BY DEF Reads
      <4> QED
        BY <4>1, DepthFacts, CountKinds
    <3> HIDE DEF Deep
    <3> QED
      BY <2>3, <3>1
  <2>5. n \in 1..Len(e) /\ n - 1 \in 0..Len(e) /\ n - 1 \notin Bad
    <3> HIDE DEF Deep
    <3> QED
      BY <2>2, <2>3, <2>4
  <2>6. Deep(n - 1)
    BY <2>5
  <2>7. PICK m \in Nat : m = n - 1 /\ n = m + 1
    BY <2>5
  <2>8. Len(h[m]) \in Nat /\ Depth(h[m], Len(h[m]) + 1) \in Int
    <3>1. Len(h[m]) \in Nat
      BY <2>5, <2>7 DEF Reads, Grows
    <3> QED
      BY <3>1, DepthFacts
  <2>9. CASE e[n].kind \in leftOut
    <3>1. h[n] = h[m]
      BY <2>5, <2>7, <2>9 DEF Reads
    <3>2. e[n].kind \notin {"open", "close"}
      BY <2>9
    <3>3. /\ Cardinality(Opening(e, n)) = Cardinality(Opening(e, m))
          /\ Cardinality(Closing(e, n)) = Cardinality(Closing(e, m))
      BY <2>7, <3>2, CountKinds
    <3> HIDE DEF Bad
    <3> QED
      BY <2>3, <2>6, <2>7, <3>1, <3>3
  <2>10. CASE e[n].kind \notin leftOut
    <3> DEFINE t == TokenOf(e[n], wordType)
    <3>1. Len(h[n]) = Len(h[m]) + 1 /\ h[n][Len(h[n])] = t
      BY <2>5, <2>7, <2>10 DEF Reads
    <3>2. /\ t.type = Open <=> e[n].kind = "open"
          /\ t.type = Close <=> e[n].kind = "close"
      <4>1. e[n] \in Lexemes /\ e[n].kind # "sort"
        BY <2>5, <2>10
      <4>2. e[n].kind \in {"word", "sort"} \cup DOMAIN MarkType \cup DOMAIN FilterType
        BY <4>1, LexemesAssumption
      <4>3. CASE e[n].kind = "word"
        <5>1. t = Token(wordType, e[n].value) /\ wordType \in OperandTypes
          BY <2>10, <4>1, <4>3, TokenOfFacts
        <5> HIDE DEF t
        <5>2. t.type \notin {Open, Close}
          BY <5>1, OperandFacts DEF Token
        <5> QED
          BY <4>3, <5>2
      <4>4. CASE e[n].kind \in DOMAIN MarkType
        <5>1. t = Mark(MarkType[e[n].kind])
          BY <4>1, <4>4, TokenOfFacts
        <5> HIDE DEF t
        <5>2. t.type = MarkType[e[n].kind]
          BY <5>1 DEF Mark, Token
        <5> QED
          BY <4>4, <5>2, KindsAre, TypesAre, MarkTypes
      <4>5. CASE e[n].kind \in DOMAIN FilterType
        <5>1. t.type \in OperandTypes
          BY <4>1, <4>5, TokenOfFacts
        <5> HIDE DEF t
        <5>2. t.type \notin {Open, Close}
          BY <5>1, OperandFacts
        <5> QED
          BY <4>5, <5>2, KindsAre
      <4> QED
        BY <4>1, <4>2, <4>3, <4>4, <4>5
    <3> HIDE DEF t
    <3>3. Depth(h[n], Len(h[m]) + 1) = Depth(h[m], Len(h[m]) + 1)
      <4>1. \A i \in 1..Len(h[m]) : h[n][i] = h[m][i]
        BY <2>5, <2>7 DEF Reads, Grows
      <4>2. \A i \in 1..(Len(h[m]) + 1) - 1 : h[n][i].type = h[m][i].type
        BY <2>8, <4>1
      <4>3. Len(h[m]) + 1 \in Nat \ {0}
        BY <2>8
      <4> QED
        BY <4>2, <4>3, DepthBefore
    <3>4. /\ e[n].kind = "open" => Cardinality(Opening(e, n)) = Cardinality(Opening(e, m)) + 1
          /\ e[n].kind # "open" => Cardinality(Opening(e, n)) = Cardinality(Opening(e, m))
          /\ e[n].kind = "close" => Cardinality(Closing(e, n)) = Cardinality(Closing(e, m)) + 1
          /\ e[n].kind # "close" => Cardinality(Closing(e, n)) = Cardinality(Closing(e, m))
          /\ Cardinality(Opening(e, m)) \in Nat /\ Cardinality(Closing(e, m)) \in Nat
      BY <2>7, CountKinds
    <3>5. PICK d \in Nat \ {0} : d = Len(h[m]) + 1 /\ Len(h[n]) = d
      BY <2>8, <3>1
    <3>6. h[n][d] = t /\ Depth(h[n], d) = Cardinality(Opening(e, m)) - Cardinality(Closing(e, m))
      BY <2>6, <2>7, <3>1, <3>3, <3>5
    <3>7. /\ t.type = Open => Depth(h[n], d + 1) = Depth(h[n], d) + 1
          /\ t.type = Close => Depth(h[n], d + 1) = Depth(h[n], d) - 1
          /\ t.type \notin {Open, Close} => Depth(h[n], d + 1) = Depth(h[n], d)
      BY <3>6, DepthFacts
    <3>8. Deep(n)
      BY <3>2, <3>4, <3>5, <3>6, <3>7
    <3> QED
      BY <2>3, <3>8
  <2> QED
    BY <2>9, <2>10
<1>2. Deep(k)
  <2> HIDE DEF Deep
  <2> QED
    BY <1>1
<1> QED
  BY <1>2

LEMMA ParenthesesMatch ==
    ASSUME NEW e \in Seq(Lexemes), NEW wordType, NEW leftOut,
           "sort" \in leftOut, {"open", "close"} \cap leftOut = {},
           wordType \in OperandTypes \/ "word" \in leftOut,
           Depth(Reading(e, wordType, leftOut), Len(Reading(e, wordType, leftOut)) + 1) = 0,
           \A i \in DOMAIN e : ~e[i].closing
    PROVE  CheckParanthesis(e)
<1>1. Len(e) \in Nat /\ DOMAIN e = 1..Len(e) /\ Len(e) \in 0..Len(e)
  OBVIOUS
<1>2. PICK h : Reads(h, e, wordType, leftOut)
  BY <1>1, ReadingIs
<1>3. Depth(h[Len(e)], Len(h[Len(e)]) + 1) =
         Cardinality(Opening(e, Len(e))) - Cardinality(Closing(e, Len(e)))
  BY <1>1, <1>2, ReadingDepth
<1>4. Cardinality(Opening(e, Len(e))) = Cardinality(Closing(e, Len(e)))
  <2>1. Cardinality(Opening(e, Len(e))) \in Nat /\ Cardinality(Closing(e, Len(e))) \in Nat
    BY <1>1, CountKinds
  <2>2. h[Len(e)] = Reading(e, wordType, leftOut)
    BY <1>2 DEF Reads
  <2> QED
    BY <1>3, <2>1, <2>2
<1>5. {i \in DOMAIN e : e[i].kind = "open"} = Opening(e, Len(e))
  BY <1>1 DEF Opening
<1>6. {i \in DOMAIN e : e[i].kind = "close" \/ e[i].closing} = Closing(e, Len(e))
  BY <1>1 DEF Closing
<1> QED
  BY <1>4, <1>5, <1>6 DEF CheckParanthesis

----------------------------------------------------------------------------
(***************************************************************************)
(* build reads an expression as it stands, unless operators or negations   *)
(* meet or there is a sort it does not take: after k lexemes the query has *)
(* the tokens of the reading.                                              *)
(***************************************************************************)
MaskOf(ts) == UNION {ts[i].type : i \in 1..Len(ts)}
WordsUpTo(e, k) == UNION {e[i].value : i \in {j \in 1..k : e[j].kind = "word"}}
SortUpTo(e, k) == UNION {CreateSortConditions(e[i].value) : i \in {j \in 1..k : e[j].kind = "sort"}}
IsQuery(q) == DOMAIN q = {"tokens", "mask", "words", "sort", "error"}
QueryAt(q, e, h, k, merge) ==
    /\ IsQuery(q)
    /\ q.tokens = h[k] /\ q.mask = MaskOf(h[k])
    /\ q.words = IF merge THEN WordsUpTo(e, k) ELSE {}
    /\ q.sort = SortUpTo(e, k) /\ q.error = FALSE

LEMMA TokenIsAdded ==
    ASSUME NEW q, IsQuery(q), NEW t
    PROVE  /\ IsQuery(AddToken(q, t))
           /\ AddToken(q, t).tokens = Append(q.tokens, t) /\ AddToken(q, t).mask = q.mask \cup t.type
           /\ AddToken(q, t).words = q.words /\ AddToken(q, t).sort = q.sort
           /\ AddToken(q, t).error = q.error
BY DEF AddToken, IsQuery

NoClash(ts) ==
    \A i \in 2..Len(ts) :
        /\ IsOperator(ts[i]) => ts[i - 1].type \notin {And, Or, Negation}
        /\ ts[i].type = Negation => ts[i - 1].type # Negation
SortedOnce(e) ==
    /\ \A i, k \in 1..Len(e) : e[i].kind = "sort" /\ e[k].kind = "sort" => i = k
    /\ \A i \in 1..Len(e) : e[i].kind = "sort" => \A c \in e[i].value : IsCondition(c)
LeftOut(merge) == IF merge THEN {"sort", "word"} ELSE {"sort"}

\* The token before the one that lexeme k adds, if there is one, does not clash with it.
LEMMA LastTypeIs ==
    ASSUME NEW e \in Seq(Lexemes), NEW wordType, NEW merge \in BOOLEAN, NEW h,
           Reads(h, e, wordType, LeftOut(merge)), NoClash(h[Len(e)]), NEW k \in 1..Len(e),
           wordType \in OperandTypes \/ merge,
           e[k].kind \notin LeftOut(merge), NEW q, QueryAt(q, e, h, k - 1, merge),
           NEW T, T = LastType(q)
    PROVE  /\ IsOperator(TokenOf(e[k], wordType)) => ~(Bool \subseteq T) /\ T # Negation
           /\ TokenOf(e[k], wordType).type = Negation => T # Negation
<1> DEFINE t == TokenOf(e[k], wordType)
           s == h[k - 1]
           ts == h[Len(e)]
<1>1. Len(e) \in Nat /\ k - 1 \in 0..Len(e) /\ k \in 0..Len(e) /\ Len(e) \in 0..Len(e)
  OBVIOUS
<1>2. /\ "sort" \in LeftOut(merge)
      /\ wordType \in OperandTypes \/ "word" \in LeftOut(merge)
  BY DEF LeftOut
<1>3. s \in Seq(TokensOf(e, wordType, LeftOut(merge)))
  BY <1>1 DEF Reads, Grows
<1>4. T = IF s = <<>> THEN {} ELSE s[Len(s)].type
  BY DEF LastType, QueryAt
<1>5. CASE s = <<>>
  BY <1>4, <1>5 DEF Bool, Negation
<1>6. CASE s # <<>>
  <2>1. Len(s) \in Nat \ {0} /\ s[Len(s)] \in TokensOf(e, wordType, LeftOut(merge))
    BY <1>3, <1>6
  <2>2. s[Len(s)].type \in TokenTypes /\ T = s[Len(s)].type
    BY <1>2, <1>4, <1>6, <2>1, ReadingTyped
  <2>3. Len(h[k]) = Len(s) + 1 /\ h[k][Len(h[k])] = t
    BY DEF Reads
  <2>4. Len(h[k]) <= Len(ts) /\ \A i \in 1..Len(h[k]) : ts[i] = h[k][i]
    BY <1>1, BeginningKept DEF Reads
  <2>5. \A i \in 1..Len(s) : h[k][i] = s[i]
    BY DEF Reads, Grows
  <2>6. Len(ts) \in Nat
    BY <1>1 DEF Reads, Grows
  <2> HIDE DEF s, t, ts
  <2>7. PICK i \in 2..Len(ts) : i = Len(s) + 1 /\ i - 1 = Len(s) /\ i \in 1..Len(h[k])
    BY <2>1, <2>3, <2>4, <2>6
  <2>8. ts[i] = t /\ ts[i - 1] = s[Len(s)]
    <3>1. i - 1 \in 1..Len(s) /\ i - 1 \in 1..Len(h[k])
      BY <2>1, <2>3, <2>7
    <3> QED
      BY <2>3, <2>4, <2>5, <2>7, <3>1
  <2>9. /\ IsOperator(t) => s[Len(s)].type \notin {And, Or, Negation}
        /\ t.type = Negation => s[Len(s)].type # Negation
    BY <2>8 DEF NoClash, ts
  <2>10. Bool \subseteq s[Len(s)].type <=> s[Len(s)].type \in {And, Or}
    BY <2>2, TokenFacts
  <2> QED
    BY <2>2, <2>9, <2>10 DEF t
<1> QED
  BY <1>5, <1>6

LEMMA TokenAdded ==
    ASSUME NEW e \in Seq(Lexemes), NEW wordType, NEW merge \in BOOLEAN, NEW h,
           Reads(h, e, wordType, LeftOut(merge)), NEW k \in 1..Len(e),
           e[k].kind \notin LeftOut(merge), NEW q, QueryAt(q, e, h, k - 1, merge)
    PROVE  QueryAt(AddToken(q, TokenOf(e[k], wordType)), e, h, k, merge)
<1> DEFINE t == TokenOf(e[k], wordType)
           s == h[k - 1]
<1>1. k - 1 \in 0..Len(e) /\ k \in Nat /\ 1..k = (1..k - 1) \cup {k}
  OBVIOUS
<1>2. h[k] = Append(s, t) /\ Len(h[k]) = Len(s) + 1 /\ h[k][Len(h[k])] = t
  BY DEF Reads
<1>3. Len(s) \in Nat /\ \A i \in 1..Len(s) : h[k][i] = s[i]
  BY <1>1 DEF Reads, Grows
<1>4. MaskOf(h[k]) = MaskOf(s) \cup t.type
  <2> HIDE DEF s, t
  <2>1. 1..Len(h[k]) = (1..Len(s)) \cup {Len(s) + 1}
    BY <1>2, <1>3
  <2>2. {h[k][i].type : i \in 1..Len(h[k])} = {s[i].type : i \in 1..Len(s)} \cup {t.type}
    BY <1>2, <1>3, <2>1
  <2> QED
    BY <2>2 DEF MaskOf
<1>5. {j \in 1..k : e[j].kind = "sort"} = {j \in 1..k - 1 : e[j].kind = "sort"}
  BY <1>1 DEF LeftOut
<1>6. SortUpTo(e, k) = SortUpTo(e, k - 1)
  BY <1>5 DEF SortUpTo
<1>7. merge => {j \in 1..k : e[j].kind = "word"} = {j \in 1..k - 1 : e[j].kind = "word"}
  BY <1>1 DEF LeftOut
<1>8. merge => WordsUpTo(e, k) = WordsUpTo(e, k - 1)
  BY <1>7 DEF WordsUpTo
<1> HIDE DEF s, t
<1>9. /\ IsQuery(AddToken(q, t))
      /\ AddToken(q, t).tokens = Append(q.tokens, t) /\ AddToken(q, t).mask = q.mask \cup t.type
      /\ AddToken(q, t).words = q.words /\ AddToken(q, t).sort = q.sort
      /\ AddToken(q, t).error = q.error
  BY TokenIsAdded DEF QueryAt
<1>10. /\ q.tokens = s /\ q.mask = MaskOf(s) /\ q.sort = SortUpTo(e, k - 1) /\ q.error = FALSE
       /\ q.words = IF merge THEN WordsUpTo(e, k - 1) ELSE {}
  BY DEF QueryAt, s
<1>11. q.words = IF merge THEN WordsUpTo(e, k) ELSE {}
  BY <1>8, <1>10
<1> QED
  BY <1>2, <1>4, <1>6, <1>9, <1>10, <1>11 DEF QueryAt, t

LEMMA SortRead ==
    ASSUME NEW e \in Seq(Lexemes), SortedOnce(e), NEW k \in 1..Len(e), e[k].kind = "sort"
    PROVE  SortUpTo(e, k - 1) = {} /\ SortUpTo(e, k) = CreateSortConditions(e[k].value)
<1>1. {j \in 1..k - 1 : e[j].kind = "sort"} = {} /\ {j \in 1..k : e[j].kind = "sort"} = {k}
  BY DEF SortedOnce
<1> QED
  BY <1>1 DEF SortUpTo

LEMMA NotRead ==
    ASSUME NEW e \in Seq(Lexemes), NEW k \in 1..Len(e)
    PROVE  /\ e[k].kind # "sort" => SortUpTo(e, k) = SortUpTo(e, k - 1)
           /\ e[k].kind # "word" => WordsUpTo(e, k) = WordsUpTo(e, k - 1)
           /\ e[k].kind = "word" => WordsUpTo(e, k) = WordsUpTo(e, k - 1) \cup e[k].value
<1>1. k \in 1..k /\ \A j : j \in 1..k <=> j \in 1..k - 1 \/ j = k
  OBVIOUS
<1>2. e[k].kind # "sort" => {j \in 1..k : e[j].kind = "sort"} = {j \in 1..k - 1 : e[j].kind = "sort"}
  BY <1>1
<1>3. /\ e[k].kind # "word" =>
           {j \in 1..k : e[j].kind = "word"} = {j \in 1..k - 1 : e[j].kind = "word"}
      /\ e[k].kind = "word" =>
           {j \in 1..k : e[j].kind = "word"} = {j \in 1..k - 1 : e[j].kind = "word"} \cup {k}
  BY <1>1
<1>4. \A S : UNION {e[i].value : i \in S \cup {k}} = (UNION {e[i].value : i \in S}) \cup e[k].value
  OBVIOUS
<1> QED
  BY <1>2, <1>3, <1>4 DEF SortUpTo, WordsUpTo

LEMMA OneRead ==
    ASSUME NEW e \in Seq(Lexemes), NEW wordType, NEW merge \in BOOLEAN, NEW h,
           Reads(h, e, wordType, LeftOut(merge)), NoClash(h[Len(e)]), SortedOnce(e),
           wordType \in OperandTypes \/ merge,
           NEW k \in 1..Len(e), NEW q, QueryAt(q, e, h, k - 1, merge)
    PROVE  QueryAt(ReadMatch(q, e[k], wordType, merge), e, h, k, merge)
<1> DEFINE t == TokenOf(e[k], wordType)
<1>1. e[k] \in Lexemes /\ q.error = FALSE
  BY DEF QueryAt
<1>2. e[k].kind \in {"word", "sort"} \cup DOMAIN MarkType \cup DOMAIN FilterType
  BY <1>1, LexemesAssumption
<1>3. e[k].kind \notin LeftOut(merge) =>
        /\ IsOperator(t) => ~(Bool \subseteq LastType(q)) /\ LastType(q) # Negation
        /\ t.type = Negation => LastType(q) # Negation
        /\ QueryAt(AddToken(q, t), e, h, k, merge)
  BY LastTypeIs, TokenAdded
<1>4. CASE e[k].kind \in {"and", "or"}
  <2>1. t = Mark(MarkType[e[k].kind]) /\ e[k].kind \notin LeftOut(merge)
    BY <1>1, <1>4, TokenOfFacts, KindsAre DEF LeftOut
  <2>2. IsOperator(t)
    BY <1>4, <2>1, TypesAre DEF IsOperator, Mark, Token
  <2> QED
    BY <1>1, <1>3, <1>4, <2>1, <2>2, KindsAre DEF ReadMatch
<1>5. CASE e[k].kind = "not"
  <2>1. t = Mark(Negation) /\ e[k].kind \notin LeftOut(merge)
    BY <1>1, <1>5, TokenOfFacts, KindsAre, TypesAre DEF LeftOut
  <2>2. t.type = Negation
    BY <2>1 DEF Mark, Token
  <2> QED
    BY <1>1, <1>3, <1>5, <2>1, <2>2, KindsAre DEF ReadMatch
<1>6. CASE e[k].kind \in {"open", "close"}
  <2>1. t = Mark(MarkType[e[k].kind]) /\ e[k].kind \notin LeftOut(merge)
    BY <1>1, <1>6, TokenOfFacts, KindsAre DEF LeftOut
  <2> QED
    BY <1>1, <1>3, <1>6, <2>1, KindsAre DEF ReadMatch
<1>7. CASE e[k].kind \in DOMAIN FilterType
  <2>1. t = Token(FilterType[e[k].kind], e[k].value) /\ e[k].kind \notin LeftOut(merge)
    BY <1>1, <1>7, TokenOfFacts, KindsAre DEF LeftOut
  <2> QED
    BY <1>1, <1>3, <1>7, <2>1, KindsAre DEF ReadMatch
<1>8. CASE e[k].kind = "word" /\ ~merge
  <2>1. t = Token(wordType, e[k].value) /\ e[k].kind \notin LeftOut(merge)
    BY <1>1, <1>8, TokenOfFacts DEF LeftOut
  <2> QED
    BY <1>1, <1>3, <1>8, <2>1, KindsAre DEF ReadMatch
<1>9. CASE e[k].kind = "word" /\ merge
  <2>1. ReadMatch(q, e[k], wordType, merge) = [q EXCEPT !.words = @ \cup e[k].value]
    BY <1>1, <1>9, KindsAre DEF ReadMatch
  <2>2. h[k] = h[k - 1]
    BY <1>9 DEF Reads, LeftOut
  <2>3. SortUpTo(e, k) = SortUpTo(e, k - 1) /\ WordsUpTo(e, k) = WordsUpTo(e, k - 1) \cup e[k].value
    BY <1>9, NotRead
  <2> QED
    BY <1>9, <2>1, <2>2, <2>3 DEF QueryAt, IsQuery
<1>10. CASE e[k].kind = "sort"
  <2>1. SortUpTo(e, k - 1) = {} /\ SortUpTo(e, k) = CreateSortConditions(e[k].value)
    BY <1>10, SortRead
  <2>2. h[k] = h[k - 1] /\ WordsUpTo(e, k) = WordsUpTo(e, k - 1)
    BY <1>10, NotRead DEF Reads, LeftOut
  <2>3. \A c \in e[k].value : IsCondition(c)
    BY <1>10 DEF SortedOnce
  <2>4. q.sort = {}
    BY <2>1 DEF QueryAt
  <2>5. ReadMatch(q, e[k], wordType, merge) = [q EXCEPT !.sort = CreateSortConditions(e[k].value)]
    BY <1>1, <1>10, <2>3, <2>4, KindsAre DEF ReadMatch
  <2> QED
    BY <2>1, <2>2, <2>5 DEF QueryAt, IsQuery
<1> QED
  BY <1>2, <1>4, <1>5, <1>6, <1>7, <1>8, <1>9, <1>10, KindsAre

LEMMA AllRead ==
    ASSUME NEW e \in Seq(Lexemes), NEW wordType, NEW merge \in BOOLEAN, NEW h,
           Reads(h, e, wordType, LeftOut(merge)), NoClash(h[Len(e)]), SortedOnce(e),
           wordType \in OperandTypes \/ merge
    PROVE  QueryAt(ReadMatches(e, wordType, merge), e, h, Len(e), merge)
<1>1. Len(e) \in Nat
  OBVIOUS
<1>2. PICK g : Queries(g, Len(e), e, wordType, merge) /\ ReadMatches(e, wordType, merge) = g[Len(e)]
  BY <1>1, QueriesIs
<1>3. /\ g[0] = NoQuery
      /\ \A k \in 1..Len(e) : g[k] = ReadMatch(g[k - 1], e[k], wordType, merge)
  BY <1>1, <1>2 DEF Queries
<1> DEFINE Bad == {k \in 0..Len(e) : ~QueryAt(g[k], e, h, k, merge)}
<1>4. QueryAt(g[0], e, h, 0, merge)
  <2>1. h[0] = <<>> /\ MaskOf(<<>>) = {} /\ WordsUpTo(e, 0) = {} /\ SortUpTo(e, 0) = {}
    BY DEF Reads, MaskOf, WordsUpTo, SortUpTo
  <2> QED
    BY <1>3, <2>1 DEF QueryAt, NoQuery, IsQuery
<1>5. ASSUME Bad # {} PROVE FALSE
  <2>1. Bad \subseteq Nat
    OBVIOUS
  <2>2. PICK k \in Bad : \A j \in Bad : k <= j
    <3> HIDE DEF Bad
    <3> QED
      BY <1>5, <2>1, LeastNatural
  <2>3. k \in 0..Len(e) /\ ~QueryAt(g[k], e, h, k, merge)
    BY <2>2
  <2>4. k # 0
    BY <1>4, <2>3
  <2>5. k - 1 \in 0..Len(e) /\ k - 1 \notin Bad /\ k \in 1..Len(e)
    BY <2>2, <2>3, <2>4
  <2>6. QueryAt(g[k - 1], e, h, k - 1, merge)
    BY <2>5
  <2> QED
    BY <1>3, <2>3, <2>5, <2>6, OneRead
<1>6. Len(e) \in 0..Len(e) /\ Len(e) \notin Bad
  <2> HIDE DEF Bad
  <2> QED
    BY <1>1, <1>5
<1> QED
  BY <1>2, <1>6

----------------------------------------------------------------------------
\* Operators and negations do not meet where the expression reads as one, nor do they
\* when words that are not next to any are left out.
LEMMA SoundNoClash ==
    ASSUME NEW ts, Typed(ts), NEW j, Grammatical(ts, j),
           \A i \in 2..Len(ts) : ~(ts[i].type = Negation /\ ts[i - 1].type = Negation)
    PROVE  NoClash(ts)
<1>1. ASSUME NEW i \in 2..Len(ts), IsOperator(ts[i]), ts[i - 1].type \in {And, Or, Negation}
      PROVE  FALSE
  <2>1. i \in 1..Len(ts) /\ i - 1 \in 1..Len(ts)
    BY DEF Typed
  <2>2. ts[i].type \in TokenTypes /\ ts[i - 1].type \in TokenTypes
    BY <2>1 DEF Typed
  <2>3. ~EndsFactor(ts[i - 1]) /\ ~StartsFactor(ts[i])
    BY <1>1, <2>2, TokenFacts, MarkTypes, OperandFacts DEF IsOperator
  <2>4. Follows(ts[i], ts[i - 1], j)
    BY DEF Grammatical
  <2> QED
    BY <2>3, <2>4 DEF Follows
<1> QED
  BY <1>1 DEF NoClash

ApartIn(e) ==
    \A i \in 1..Len(e) : e[i].kind = "word" =>
        /\ i > 1 => e[i - 1].kind \notin {"not", "and", "or"}
        /\ i < Len(e) => e[i + 1].kind \notin {"and", "or"}

LEMMA SameToken ==
    ASSUME NEW l \in Lexemes, l.kind \notin {"sort", "word"}, NEW a, NEW b
    PROVE  TokenOf(l, a) = TokenOf(l, b)
<1>1. l.kind \in DOMAIN MarkType \cup DOMAIN FilterType
  BY LexemesAssumption
<1> QED
  BY <1>1, TokenOfFacts

LEMMA ApartNoClash ==
    ASSUME NEW e \in Seq(Lexemes), \A k \in 1..Len(e) : e[k].kind # "sort", ApartIn(e),
           NEW wordType \in OperandTypes, NoClash(Reading(e, wordType, {"sort"})),
           NEW wordType2
    PROVE  NoClash(Reading(e, wordType2, {"sort", "word"}))
<1> DEFINE W == {"sort", "word"}
           all == Reading(e, wordType, {"sort"})
           ts == Reading(e, wordType2, W)
<1>1. Len(e) \in Nat /\ Len(e) \in 0..Len(e) /\ \A k \in 1..Len(e) : e[k] \in Lexemes
  OBVIOUS
<1>2. PICK g : Reads(g, e, wordType, {"sort"})
  BY <1>1, ReadingIs
<1>3. PICK h : Reads(h, e, wordType2, W)
  BY <1>1, ReadingIs
<1>4. all = g[Len(e)] /\ ts = h[Len(e)]
  BY <1>2, <1>3 DEF Reads
<1>5. ASSUME NEW k \in 1..Len(e) PROVE all[k] = TokenOf(e[k], wordType) /\ Len(all) = Len(e)
  <2>1. k \in 0..Len(e) /\ Len(g[k]) = k /\ Len(g[Len(e)]) = Len(e)
    BY <1>1, <1>2, WholeReading
  <2>2. g[k][Len(g[k])] = TokenOf(e[k], wordType)
    BY <1>2 DEF Reads
  <2>3. \A i \in 1..Len(g[k]) : g[Len(e)][i] = g[k][i]
    <3>1. Grows(g, Len(e), TokensOf(e, wordType, {"sort"}))
      BY <1>2 DEF Reads
    <3> QED
      BY <1>1, <2>1, <3>1, BeginningKept
  <2>4. k \in 1..k
    OBVIOUS
  <2> QED
    BY <1>4, <2>1, <2>2, <2>3, <2>4
<1>6. ASSUME NEW i \in 2..Len(ts)
      PROVE  /\ IsOperator(ts[i]) => ts[i - 1].type \notin {And, Or, Negation}
             /\ ts[i].type = Negation => ts[i - 1].type # Negation
  <2>1. Len(ts) \in Nat
    BY <1>1, <1>3, <1>4, ReadingGrows
  <2>2. PICK p \in 1..Len(ts) : p = i
    BY <2>1
  <2>3. PICK p1 \in 1..Len(ts) : p1 = i - 1
    BY <2>1
  <2>4. PICK k \in Taken(e, W) : Len(h[k]) = i /\ Len(h[k - 1]) = i - 1 /\ ts[i] = TokenOf(e[k], wordType2)
    BY <1>1, <1>3, <1>4, <2>2, ReadingPlaces
  <2>5. PICK j \in Taken(e, W) : Len(h[j]) = p1 /\ Len(h[j - 1]) = p1 - 1 /\ ts[p1] = TokenOf(e[j], wordType2)
    <3>1. p1 \in 1..Len(h[Len(e)])
      BY <1>4
    <3> HIDE DEF ts
    <3>2. \E j \in Taken(e, W) :
             Len(h[j]) = p1 /\ Len(h[j - 1]) = p1 - 1 /\ h[Len(e)][p1] = TokenOf(e[j], wordType2)
      BY <1>1, <1>3, <3>1, ReadingPlaces
    <3> QED
      BY <1>4, <3>2
  <2>6. k \in 1..Len(e) /\ j \in 1..Len(e) /\ e[k].kind \notin W /\ e[j].kind \notin W
    BY <2>4, <2>5 DEF Taken
  <2>7. j < k
    <3>1. CASE j >= k
      <4>1. k \in 0..j /\ j \in 0..Len(e)
        BY <2>6, <3>1
      <4>2. Len(h[k]) <= Len(h[j])
        BY <1>1, <1>3, <4>1, ReadingGrows
      <4> QED
        BY <2>1, <2>3, <2>4, <2>5, <4>2
    <3> QED
      BY <2>6, <3>1
  <2>8. /\ ts[i] = TokenOf(e[k], wordType) /\ ts[i - 1] = TokenOf(e[j], wordType)
    BY <1>1, <2>3, <2>4, <2>5, <2>6, SameToken
  <2>9. CASE j = k - 1
    <3>1. all[k] = ts[i] /\ all[k - 1] = ts[i - 1] /\ k \in 2..Len(all)
      <4>1. all[k] = TokenOf(e[k], wordType) /\ Len(all) = Len(e)
        BY <1>5, <2>6
      <4>2. all[j] = TokenOf(e[j], wordType)
        BY <1>5, <2>6
      <4>3. k \in 2..Len(e)
        BY <1>1, <2>6, <2>9
      <4> QED
        BY <2>8, <2>9, <4>1, <4>2, <4>3
    <3> QED
      BY <3>1 DEF NoClash
  <2>10. CASE j # k - 1
    <3>1. j + 1 \in 1..Len(e) /\ j + 1 \in 0..k - 1 /\ k - 1 \in 0..Len(e) /\ j + 1 - 1 = j
      BY <2>6, <2>7, <2>10
    <3>2. PICK n \in 1..Len(e) : n = j + 1 /\ n - 1 = j
      BY <2>6, <3>1
    <3>3. e[n].kind \in W
      <4>1. CASE e[n].kind \notin W
        <5>1. Len(h[n]) = Len(h[j]) + 1
          BY <1>3, <3>2, <4>1 DEF Reads
        <5>2. Len(h[n]) <= Len(h[k - 1])
          BY <1>1, <1>3, <3>1, <3>2, ReadingGrows
        <5> QED
          BY <2>1, <2>3, <2>4, <2>5, <5>1, <5>2
      <4> QED
        BY <4>1
    <3>4. e[n].kind = "word" /\ n > 1
      BY <2>6, <3>2, <3>3
    <3>5. e[j].kind \notin {"not", "and", "or"}
      BY <3>2, <3>4 DEF ApartIn
    <3>6. ts[i - 1].type \notin {And, Or, Negation}
      <4>1. e[j].kind \in {"open", "close"} \cup DOMAIN FilterType
        BY <1>1, <2>6, <3>5, LexemesAssumption, KindsAre
      <4>2. CASE e[j].kind \in {"open", "close"}
        <5>1. ts[i - 1] = Mark(MarkType[e[j].kind])
          BY <1>1, <2>6, <2>8, <4>2, TokenOfFacts, KindsAre
        <5> QED
          BY <4>2, <5>1, TypesAre, MarkTypes DEF Mark, Token
      <4>3. CASE e[j].kind \in DOMAIN FilterType
        <5>1. ts[i - 1].type \in OperandTypes
          BY <1>1, <2>6, <2>8, <4>3, TokenOfFacts, KindsAre
        <5> QED
          BY <5>1, OperandFacts
      <4> QED
        BY <4>1, <4>2, <4>3
    <3> QED
      BY <3>6
  <2> QED
    BY <2>9, <2>10
<1> HIDE DEF ts
<1> QED
  BY <1>6 DEF NoClash, ts

----------------------------------------------------------------------------
\* What build makes of an expression that it does not refuse.
Merged(e, merge) == IF merge THEN WordsUpTo(e, Len(e)) ELSE {}
Unrefused(e, wordType, merge) ==
    /\ CheckParanthesis(e) /\ e # <<>> /\ SortedOnce(e) /\ "content.text" \notin SortUpTo(e, Len(e))
    /\ NoClash(Reading(e, wordType, LeftOut(merge)))
Built(q, e, wordType, merge) ==
    LET ts == Reading(e, wordType, LeftOut(merge)) IN
    /\ IsQuery(q) /\ q.sort = SortUpTo(e, Len(e)) /\ q.error = FALSE
    /\ Merged(e, merge) = {} => q.tokens = AddAnds(ts) /\ q.mask = MaskOf(ts)
    /\ Merged(e, merge) # {} =>
          /\ q.tokens = AddAnds(Append(ts, Token(wordType, Merged(e, merge))))
          /\ q.mask = MaskOf(ts) \cup wordType

LEMMA BuildIs ==
    ASSUME NEW e \in Seq(Lexemes), NEW wordType, NEW merge \in BOOLEAN,
           wordType \in OperandTypes \/ merge, Unrefused(e, wordType, merge)
    PROVE  Built(Build(e, wordType, merge), e, wordType, merge)
<1> DEFINE ts == Reading(e, wordType, LeftOut(merge))
           W == Merged(e, merge)
           r == ReadMatches(e, wordType, merge)
           all == MergeWords(r, wordType)
           q == [all EXCEPT !.tokens = AddAnds(@)]
<1>1. Len(e) \in Nat
  OBVIOUS
<1>2. PICK h : Reads(h, e, wordType, LeftOut(merge))
  BY <1>1, ReadingIs
<1>3. h[Len(e)] = ts /\ NoClash(h[Len(e)]) /\ SortedOnce(e)
  BY <1>2 DEF Reads, Unrefused
<1>4. QueryAt(r, e, h, Len(e), merge)
  BY <1>2, <1>3, AllRead
<1>5. /\ IsQuery(r) /\ r.tokens = ts /\ r.mask = MaskOf(ts) /\ r.words = W
      /\ r.sort = SortUpTo(e, Len(e)) /\ r.error = FALSE
  BY <1>3, <1>4 DEF QueryAt, Merged
<1> HIDE DEF r, W, ts
<1>6. /\ IsQuery(all) /\ all.sort = SortUpTo(e, Len(e)) /\ all.error = FALSE
      /\ W = {} => all.tokens = ts /\ all.mask = MaskOf(ts)
      /\ W # {} => all.tokens = Append(ts, Token(wordType, W)) /\ all.mask = MaskOf(ts) \cup wordType
  <2>1. CASE W = {}
    BY <1>5, <2>1 DEF MergeWords
  <2>2. CASE W # {}
    <3>1. all = AddToken(r, Token(wordType, W))
      BY <1>5, <2>2 DEF MergeWords
    <3>2. Token(wordType, W).type = wordType
      BY DEF Token
    <3>3. PICK t : t = Token(wordType, W)
      OBVIOUS
    <3>4. /\ IsQuery(AddToken(r, t))
          /\ AddToken(r, t).tokens = Append(r.tokens, t) /\ AddToken(r, t).mask = r.mask \cup t.type
          /\ AddToken(r, t).words = r.words /\ AddToken(r, t).sort = r.sort
          /\ AddToken(r, t).error = r.error
      BY <1>5, TokenIsAdded
    <3> QED
      BY <1>5, <2>2, <3>1, <3>2, <3>3, <3>4
  <2> QED
    BY <2>1, <2>2
<1> HIDE DEF all
<1>7. /\ IsQuery(q) /\ q.sort = all.sort /\ q.error = FALSE /\ q.mask = all.mask
      /\ q.tokens = AddAnds(all.tokens)
  BY <1>6 DEF IsQuery
<1>8. Build(e, wordType, merge) = q
  <2>1. ~(q.error \/ (~HasContentSearch(q) /\ "content.text" \in q.sort))
    BY <1>6, <1>7 DEF Unrefused
  <2>2. e # <<>> /\ CheckParanthesis(e)
    BY DEF Unrefused
  <2> QED
    BY <2>1, <2>2, Zenon DEF Build, all, r
<1> HIDE DEF q
<1> QED
  BY <1>6, <1>7, <1>8 DEF Built, W, ts

----------------------------------------------------------------------------
\* The bits of the mask are those of the kinds that were typed.
LEMMA TypeBits ==
    ASSUME NEW l \in Lexemes, l.kind # "sort", NEW wordType,
           l.kind # "word" \/ wordType \in {Word, PathContains}
    PROVE  /\ 8 \in TokenOf(l, wordType).type <=> (l.kind = "word" /\ wordType = Word)
           /\ 512 \in TokenOf(l, wordType).type <=> l.kind \in ContentKinds
           /\ 256 \in TokenOf(l, wordType).type <=>
                 \/ l.kind \in PathKinds \cup {"size"}
                 \/ l.kind = "word" /\ wordType = PathContains
<1> DEFINE T == TokenOf(l, wordType).type
<1>1. l.kind \in {"word"} \cup DOMAIN MarkType \cup DOMAIN FilterType
  BY LexemesAssumption
<1>2. CASE l.kind = "word"
  <2>1. T = wordType
    BY <1>2, TokenOfFacts DEF Token
  <2> QED
    BY <1>2, <2>1 DEF Word, PathContains, ContentKinds, PathKinds
<1>3. CASE l.kind \in DOMAIN MarkType
  <2>1. T \in {And, Or, Negation, Open, Close}
    BY <1>3, TokenOfFacts
  <2>2. 8 \notin T /\ 256 \notin T /\ 512 \notin T
    BY <2>1 DEF And, Or, Negation, Open, Close
  <2> QED
    BY <1>3, <2>2, KindsAre DEF ContentKinds, PathKinds
<1>4. CASE l.kind \in DOMAIN FilterType
  <2>1. T = FilterType[l.kind]
    BY <1>4, TokenOfFacts DEF Token
  <2>2. CASE l.kind \in ContentKinds
    <3>1. T \in {ContentContains, ContentPage}
      BY <2>1, <2>2, TypesAre DEF ContentKinds
    <3> QED
      BY <2>2, <3>1 DEF ContentContains, ContentPage, ContentKinds, PathKinds
  <2>3. CASE l.kind \in PathKinds \cup {"size"}
    <3>1. T \in {PathContains, PathStarts, PathEnds, PathSize, TagAssigned, OutlineContains}
      BY <2>1, <2>3, TypesAre DEF PathKinds
    <3> QED
      BY <2>3, <3>1 DEF PathContains, PathStarts, PathEnds, PathSize, TagAssigned,
                        OutlineContains, ContentKinds, PathKinds
  <2> QED
    BY <1>4, <2>2, <2>3, KindsAre DEF ContentKinds, PathKinds
<1> QED
  BY <1>1, <1>2, <1>3, <1>4

LEMMA MaskBits ==
    ASSUME expression \in Seq(Lexemes), NEW wordType, NEW merge \in BOOLEAN,
           merge \/ wordType \in {Word, PathContains},
           NEW m, m = MaskOf(Reading(expression, wordType, LeftOut(merge)))
    PROVE  /\ 8 \in m <=> ("word" \in Kinds /\ ~merge /\ wordType = Word)
           /\ 512 \in m <=> Kinds \cap ContentKinds # {}
           /\ 256 \in m <=> \/ Kinds \cap (PathKinds \cup {"size"}) # {}
                            \/ "word" \in Kinds /\ ~merge /\ wordType = PathContains
<1> DEFINE S == Taken(expression, LeftOut(merge))
<1>1. Len(expression) \in Nat /\ DOMAIN expression = 1..Len(expression)
  OBVIOUS
<1>0. PICK ts : ts = Reading(expression, wordType, LeftOut(merge))
  OBVIOUS
<1>2. /\ \A i \in 1..Len(ts) : \E k \in S : ts[i] = TokenOf(expression[k], wordType)
      /\ \A k \in S : \E i \in 1..Len(ts) : ts[i] = TokenOf(expression[k], wordType)
  <2>1. PICK L : L = LeftOut(merge)
    OBVIOUS
  <2>2. PICK e : e = expression
    OBVIOUS
  <2>3. ts = Reading(e, wordType, L) /\ Len(e) \in Nat
    BY <1>0, <1>1, <2>1, <2>2
  <2>4. /\ \A i \in 1..Len(ts) : \E k \in Taken(e, L) : ts[i] = TokenOf(e[k], wordType)
        /\ \A k \in Taken(e, L) : \E i \in 1..Len(ts) : ts[i] = TokenOf(e[k], wordType)
    BY <2>3, ReadingFacts
  <2> QED
    BY <2>1, <2>2, <2>4
<1>3. \A b : b \in MaskOf(ts) <=> \E k \in S : b \in TokenOf(expression[k], wordType).type
  <2> HIDE DEF S
  <2>1. \A b : b \in MaskOf(ts) <=> \E i \in 1..Len(ts) : b \in ts[i].type
    BY DEF MaskOf
  <2> QED
    BY <1>2, <2>1
<1>4. ASSUME NEW k \in S
      PROVE  /\ expression[k] \in Lexemes /\ expression[k].kind # "sort"
             /\ merge => expression[k].kind # "word"
             /\ expression[k].kind # "word" \/ wordType \in {Word, PathContains}
  <2>1. k \in 1..Len(expression) /\ expression[k].kind \notin LeftOut(merge)
    BY DEF Taken
  <2> QED
    BY <2>1 DEF LeftOut
<1>5. ASSUME NEW k \in S
      PROVE  /\ 8 \in TokenOf(expression[k], wordType).type <=>
                   (expression[k].kind = "word" /\ wordType = Word)
             /\ 512 \in TokenOf(expression[k], wordType).type <=> expression[k].kind \in ContentKinds
             /\ 256 \in TokenOf(expression[k], wordType).type <=>
                   \/ expression[k].kind \in PathKinds \cup {"size"}
                   \/ expression[k].kind = "word" /\ wordType = PathContains
  BY <1>4, TypeBits
<1>6. \A kind : kind # "sort" /\ (merge => kind # "word") =>
         (kind \in Kinds <=> \E k \in S : expression[k].kind = kind)
  <2>1. \A k \in DOMAIN expression :
           expression[k].kind # "sort" /\ (merge => expression[k].kind # "word") => k \in S
    BY <1>1 DEF Taken, LeftOut
  <2>2. \A k \in S : k \in DOMAIN expression
    BY <1>1 DEF Taken
  <2> QED
    BY <2>1, <2>2 DEF Kinds
<1> HIDE DEF S
<1>7. 8 \in MaskOf(ts) <=> ("word" \in Kinds /\ ~merge /\ wordType = Word)
  BY <1>3, <1>4, <1>5, <1>6
<1>8. 512 \in MaskOf(ts) <=> Kinds \cap ContentKinds # {}
  <2>1. \A kind \in ContentKinds : kind # "sort" /\ kind # "word"
    BY DEF ContentKinds
  <2> QED
    BY <1>3, <1>5, <1>6, <2>1
<1>9. 256 \in MaskOf(ts) <=> \/ Kinds \cap (PathKinds \cup {"size"}) # {}
                             \/ "word" \in Kinds /\ ~merge /\ wordType = PathContains
  <2>1. \A kind \in PathKinds \cup {"size"} : kind # "sort" /\ kind # "word"
    BY DEF PathKinds
  <2> QED
    BY <1>3, <1>4, <1>5, <1>6, <2>1
<1> QED
  BY <1>0, <1>7, <1>8, <1>9

----------------------------------------------------------------------------
\* Two readings that leave out the same, and read the rest alike, are one.
LEMMA SameReading ==
    ASSUME NEW e, Len(e) \in Nat, NEW a, NEW b, NEW L, NEW M,
           \A k \in 1..Len(e) : /\ e[k].kind \in L <=> e[k].kind \in M
                                /\ e[k].kind \notin L => TokenOf(e[k], a) = TokenOf(e[k], b)
    PROVE  Reading(e, a, L) = Reading(e, b, M)
<1>1. PICK g : Reads(g, e, a, L)
  BY ReadingIs
<1>2. PICK h : Reads(h, e, b, M)
  BY ReadingIs
<1> DEFINE Bad == {k \in 0..Len(e) : g[k] # h[k]}
<1>3. ASSUME Bad # {} PROVE FALSE
  <2>1. Bad \subseteq Nat
    OBVIOUS
  <2>2. PICK k \in Bad : \A j \in Bad : k <= j
    <3> HIDE DEF Bad
    <3> QED
      BY <1>3, <2>1, LeastNatural
  <2>3. k \in 0..Len(e) /\ g[k] # h[k]
    BY <2>2
  <2>4. g[0] = h[0]
    BY <1>1, <1>2 DEF Reads
  <2>5. k - 1 \in 0..Len(e) /\ k - 1 \notin Bad /\ k \in 1..Len(e)
    BY <2>2, <2>3, <2>4
  <2>6. g[k - 1] = h[k - 1]
    BY <2>5
  <2>7. CASE e[k].kind \in L
    <3>1. g[k] = g[k - 1] /\ h[k] = h[k - 1]
      BY <1>1, <1>2, <2>5, <2>7 DEF Reads
    <3> QED
      BY <2>3, <2>6, <3>1
  <2>8. CASE e[k].kind \notin L
    <3>1. /\ g[k] = Append(g[k - 1], TokenOf(e[k], a))
          /\ h[k] = Append(h[k - 1], TokenOf(e[k], b))
      BY <1>1, <1>2, <2>5, <2>8 DEF Reads
    <3> QED
      BY <2>3, <2>5, <2>6, <2>8, <3>1
  <2> QED
    BY <2>7, <2>8
<1>4. Len(e) \in 0..Len(e) /\ Len(e) \notin Bad
  <2> HIDE DEF Bad
  <2> QED
    BY <1>3
<1>5. g[Len(e)] = h[Len(e)]
  BY <1>4
<1> QED
  BY <1>1, <1>2, <1>5 DEF Reads

\* Every filter that is searched for looks into the file, the entry or the page of a row.
Searched == OperandTypes \ {Word, PathSize}
LEMMA HoldsIs ==
    ASSUME NEW t, NEW r
    PROVE  /\ t.type = PathContains => Holds(t, r) = (t.value \subseteq r.file.names)
           /\ t.type = PathStarts => Holds(t, r) = (t.value \subseteq r.file.starts)
           /\ t.type = PathEnds => Holds(t, r) = (t.value \subseteq r.file.ends)
           /\ t.type = TagAssigned => Holds(t, r) = (t.value \subseteq r.file.tags)
           /\ t.type = OutlineContains => Holds(t, r) = (t.value \subseteq r.entry)
           /\ t.type = ContentContains => Holds(t, r) = (EscapeFtsArgument(t.value) \subseteq r.page.words)
           /\ t.type = ContentPage => Holds(t, r) = (t.value = {r.page.number})
<1>1. /\ PathContains # PathStarts /\ PathContains # PathEnds /\ PathContains # TagAssigned
      /\ PathContains # OutlineContains /\ PathContains # ContentContains
      /\ PathContains # ContentPage
      /\ PathStarts # PathEnds /\ PathStarts # TagAssigned /\ PathStarts # OutlineContains
      /\ PathStarts # ContentContains /\ PathStarts # ContentPage
      /\ PathEnds # TagAssigned /\ PathEnds # OutlineContains /\ PathEnds # ContentContains
      /\ PathEnds # ContentPage
      /\ TagAssigned # OutlineContains /\ TagAssigned # ContentContains
      /\ TagAssigned # ContentPage
      /\ OutlineContains # ContentContains /\ OutlineContains # ContentPage
      /\ ContentContains # ContentPage
  BY DEF PathContains, PathStarts, PathEnds, TagAssigned, OutlineContains, ContentContains,
         ContentPage
<1> QED
  BY <1>1, Zenon DEF Holds

LEMMA HoldsAlike ==
    ASSUME NEW t, t.type \in Searched, NEW r, NEW s, r.file = s.file, r.page = s.page,
           t.type = OutlineContains => r.entry = s.entry
    PROVE  Holds(t, r) <=> Holds(t, s)
<1>1. t.type \in {PathContains, PathStarts, PathEnds, TagAssigned, OutlineContains,
                  ContentContains, ContentPage}
  BY DEF Searched, OperandTypes
<1> QED
  BY <1>1, HoldsIs

LEMMA SelectedRows ==
    ASSUME NEW ts, Typed(ts), Len(ts) > 0, ts[Len(ts)].type # Negation, NEW R,
           NEW r \in Selected(ts, R)
    PROVE  r \in R
<1>1. PICK h : IsSelection(h, ts, R) /\ Selected(ts, R) = h[0]
  BY SelectedIs
<1>2. h[0] = Picked(ts, R, h, 0)
  BY <1>1 DEF IsSelection, Typed
<1>3. 0 \in Groups(ts)
  BY DEF Groups
<1> QED
  BY <1>1, <1>2, <1>3 DEF Picked

----------------------------------------------------------------------------
LEMMA SearchedTypes ==
    /\ Searched = {PathContains, PathStarts, PathEnds, TagAssigned, OutlineContains,
                   ContentContains, ContentPage}
    /\ FilterContent \subseteq ContentContains /\ FilterContent \subseteq ContentPage
    /\ \A T \in {PathContains, PathStarts, PathEnds, TagAssigned, OutlineContains} :
          ~(FilterContent \subseteq T)
    /\ \A T \in {And, Or, Negation, Open, Close} : ~(FilterContent \subseteq T)
    /\ OutlineContains \notin {PathContains, PathStarts, PathEnds, TagAssigned,
                               ContentContains, ContentPage, And, Or, Negation, Open, Close}
    /\ Word \notin {And, Or, Negation, Open, Close}
    /\ PathSize \notin {And, Or, Negation, Open, Close}
<1> USE DEF PathContains, PathStarts, PathEnds, TagAssigned, OutlineContains, ContentContains,
            ContentPage, And, Or, Negation, Open, Close, Word, PathSize, FilterContent
<1>1. \A T \in {PathContains, PathStarts, PathEnds, TagAssigned, OutlineContains,
                ContentContains, ContentPage} : 8 \notin T /\ ~(1 \in T /\ 2 \in T /\ 4 \notin T)
  OBVIOUS
<1>2. 8 \in Word /\ 1 \in PathSize /\ 2 \in PathSize /\ 4 \notin PathSize
  OBVIOUS
<1>3. \A T \in {PathContains, PathStarts, PathEnds, TagAssigned, OutlineContains,
                ContentContains, ContentPage} : T # Word /\ T # PathSize
  BY ONLY <1>1, <1>2
<1>4. \A T \in {PathContains, PathStarts, PathEnds, TagAssigned, OutlineContains} : 512 \notin T
  OBVIOUS
<1>5. \A T \in {And, Or, Negation, Open, Close} : 512 \notin T /\ 256 \notin T /\ 8 \notin T
  OBVIOUS
<1>6. 512 \in ContentContains /\ 512 \in ContentPage /\ 256 \in OutlineContains /\ 256 \in PathSize
  OBVIOUS
<1>7. OutlineContains \notin {PathContains, PathStarts, PathEnds, TagAssigned, ContentContains,
                              ContentPage}
  <2>1. /\ 4 \notin PathContains /\ 2 \notin PathStarts /\ 1 \notin PathEnds
        /\ 1 \notin TagAssigned /\ 4 \notin ContentContains /\ 4 \notin ContentPage
    OBVIOUS
  <2>2. 1 \in OutlineContains /\ 2 \in OutlineContains /\ 4 \in OutlineContains
    OBVIOUS
  <2> QED
    BY ONLY <2>1, <2>2
<1> HIDE DEF PathContains, PathStarts, PathEnds, TagAssigned, OutlineContains, ContentContains,
             ContentPage, And, Or, Negation, Open, Close, Word, PathSize
<1>8. Searched = {PathContains, PathStarts, PathEnds, TagAssigned, OutlineContains,
                  ContentContains, ContentPage}
  BY <1>3 DEF Searched, OperandTypes
<1>9. OutlineContains \notin {And, Or, Negation, Open, Close}
  BY <1>5, <1>6
<1>10. /\ Word \notin {And, Or, Negation, Open, Close}
       /\ PathSize \notin {And, Or, Negation, Open, Close}
  BY <1>2, <1>5, <1>6
<1> QED
  BY <1>4, <1>5, <1>6, <1>7, <1>8, <1>9, <1>10

(***************************************************************************)
(* A search by filters, once its tokens are those of the reading with the  *)
(* ANDs that are needed.                                                   *)
(***************************************************************************)
Filters == Reading(expression, PathContains, {"sort"})
Asks(q, ts) == q.tokens = AddAnds(ts) /\ q.mask = MaskOf(ts) /\ q.error = FALSE /\ Sortable(q)

\* The tokens of a sound reading are marks, or filters that can be searched for.
LEMMA FilterTokens ==
    ASSUME expression \in Seq(Lexemes), NEW wordType, wordType = PathContains \/ "word" \notin Kinds,
           "size" \notin Kinds, NEW k \in Taken(expression, {"sort"}),
           NEW t, t = TokenOf(expression[k], wordType)
    PROVE  /\ t.type \in Searched \cup {And, Or, Negation, Open, Close}
           /\ t.type = OutlineContains => "toc" \in Kinds
           /\ FilterContent \subseteq t.type => Kinds \cap ContentKinds # {}
<1> DEFINE l == expression[k]
<1>1. k \in DOMAIN expression /\ l \in Lexemes /\ l.kind # "sort" /\ l.kind \in Kinds
  BY DEF Taken, Kinds
<1>2. l.kind \in {"word"} \cup DOMAIN MarkType \cup DOMAIN FilterType
  BY <1>1, LexemesAssumption
<1> HIDE DEF l
<1>3. CASE l.kind = "word"
  <2>1. t.type = PathContains
    BY <1>1, <1>3, TokenOfFacts DEF l, Token
  <2> QED
    BY <2>1, SearchedTypes
<1>4. CASE l.kind \in DOMAIN MarkType
  <2>1. t.type \in {And, Or, Negation, Open, Close}
    BY <1>1, <1>4, TokenOfFacts DEF l
  <2> QED
    BY <2>1, SearchedTypes
<1>5. CASE l.kind \in DOMAIN FilterType
  <2>1. t.type = FilterType[l.kind]
    BY <1>1, <1>5, TokenOfFacts DEF l, Token
  <2>2. CASE l.kind \in {"c", "page"}
    <3>1. t.type \in {ContentContains, ContentPage}
      BY <2>1, <2>2, TypesAre
    <3> QED
      BY <1>1, <2>2, <3>1, SearchedTypes DEF ContentKinds
  <2>3. CASE l.kind = "toc"
    <3>1. t.type = OutlineContains
      BY <2>1, <2>3, TypesAre
    <3> QED
      BY <1>1, <2>3, <3>1, SearchedTypes
  <2>4. CASE l.kind \in {"p", "pb", "pe", "t"}
    <3>1. t.type \in {PathContains, PathStarts, PathEnds, TagAssigned}
      BY <2>1, <2>4, TypesAre
    <3> QED
      BY <3>1, SearchedTypes
  <2> QED
    BY <1>1, <1>5, <2>2, <2>3, <2>4, KindsAre
<1> QED
  BY <1>2, <1>3, <1>4, <1>5

\* What the tables joined are for.
LEMMA JoinsAre ==
    ASSUME expression \in Seq(Lexemes), NEW q, q.mask = MaskOf(Filters)
    PROVE  /\ JoinsContent(q) <=> Kinds \cap ContentKinds # {}
           /\ "toc" \in Kinds /\ Kinds \cap ContentKinds = {} => JoinsOutline(q)
           /\ JoinsOutline(q) => Kinds \cap ContentKinds = {}
<1>1. 512 \in q.mask <=> Kinds \cap ContentKinds # {}
  <2>1. LeftOut(FALSE) = {"sort"}
    BY DEF LeftOut
  <2>2. PICK merge \in BOOLEAN : merge = FALSE
    OBVIOUS
  <2>3. PICK type \in {Word, PathContains} : type = PathContains
    OBVIOUS
  <2>4. PICK m : m = MaskOf(Reading(expression, type, LeftOut(merge)))
    OBVIOUS
  <2>5. 512 \in m <=> Kinds \cap ContentKinds # {}
    BY <2>4, MaskBits
  <2> QED
    BY <2>1, <2>2, <2>3, <2>4, <2>5 DEF Filters
<1>2. JoinsContent(q) <=> Kinds \cap ContentKinds # {}
  BY <1>1 DEF JoinsContent, HasContentSearch, FilterContent
<1>3. ASSUME "toc" \in Kinds PROVE OutlineContains \subseteq q.mask
  <2>1. PICK k \in DOMAIN expression : expression[k].kind = "toc"
    BY <1>3 DEF Kinds
  <2>2. k \in Taken(expression, {"sort"}) /\ expression[k] \in Lexemes /\ Len(expression) \in Nat
    BY <2>1 DEF Taken
  <2>3. TokenOf(expression[k], PathContains).type = OutlineContains
    BY <2>1, <2>2, TokenOfFacts, TypesAre, KindsAre DEF Token
  <2>4. PICK ts : ts = Filters
    OBVIOUS
  <2>5. PICK i \in 1..Len(ts) : ts[i] = TokenOf(expression[k], PathContains)
    BY <2>2, <2>4, ReadingFacts DEF Filters
  <2> QED
    BY <2>3, <2>4, <2>5 DEF MaskOf
<1> QED
  BY <1>2, <1>3 DEF JoinsOutline, JoinsContent, HasOutlineSearch

----------------------------------------------------------------------------
FilterRows(q, S) == PathsOf(Selected(AddAnds(Filters), Rows(q))) = S

\* What the tokens with the ANDs keep of the reading.
LEMMA FiltersInflate ==
    ASSUME expression \in Seq(Lexemes)
    PROVE  /\ Typed(Filters) /\ Typed(AddAnds(Filters))
           /\ \E f : Inflates(f, Filters, AddAnds(Filters))
<1>1. PICK T : T = TokensOf(expression, PathContains, {"sort"})
  OBVIOUS
<1>2. PICK ts : ts = Filters
  OBVIOUS
<1>3. PathContains \in OperandTypes
  BY DEF OperandTypes
<1>4. PICK wordType \in OperandTypes : wordType = PathContains
  BY <1>3
<1>5. (\A t \in T : t.type \in TokenTypes) /\ ts \in Seq(T)
  <2>1. PICK L : L = {"sort"}
    OBVIOUS
  <2>2. /\ \A t \in TokensOf(expression, wordType, L) : t.type \in TokenTypes
        /\ Reading(expression, wordType, L) \in Seq(TokensOf(expression, wordType, L))
    BY <2>1, ReadingTyped
  <2> QED
    BY <1>1, <1>2, <1>4, <2>1, <2>2 DEF Filters
<1>6. Typed(ts) /\ Typed(AddAnds(ts)) /\ \E f : Inflates(f, ts, AddAnds(ts))
  BY <1>5, AddAndsInflates
<1> QED
  BY <1>2, <1>6

LEMMA FiltersRun ==
    ASSUME expression \in Seq(Lexemes), Sound(Filters), NEW q, Asks(q, Filters),
           ~("toc" \in Kinds /\ Kinds \cap ContentKinds # {})
    PROVE  \/ RunQuery(q) = Found(PathsOf(Selected(AddAnds(Filters), Rows(q))))
           \/ ~Usable(Filters) /\ RunQuery(q) = Error
<1>1. PICK ts : ts = Filters
  OBVIOUS
<1>2. PICK us : us = AddAnds(ts)
  OBVIOUS
<1>3. Typed(ts) /\ Typed(us) /\ \E f : Inflates(f, ts, us)
  BY <1>1, <1>2, FiltersInflate
<1>4. PICK f : Inflates(f, ts, us)
  BY <1>3
<1>5. Grammatical(ts, TRUE) /\ "size" \notin Kinds
  BY <1>1 DEF Sound
<1>6. Grammatical(us, FALSE) /\ (Usable(ts) => Usable(us))
  BY <1>3, <1>4, <1>5, InflatedGrammar, InflatedUsable
<1>7. q.tokens = us /\ q.mask = MaskOf(ts) /\ q.error = FALSE /\ Sortable(q)
  BY <1>1, <1>2 DEF Asks
<1>8. us # <<>>
  BY <1>6 DEF Grammatical
<1>9. ASSUME NEW i \in DOMAIN us PROVE Known(q, us[i])
  <2>1. i \in 1..Len(us)
    BY <1>3 DEF Typed
  <2>2. PICK k \in 1..Len(ts) :
           i = f[k] \/ (i = f[k] - 1 /\ f[k] = f[k - 1] + 2 /\ us[i].type = And)
    BY <1>3, <1>4, <2>1, InflatedPlaces
  <2>3. CASE us[i].type = And
    BY <2>3, SearchedTypes DEF Known
  <2>4. CASE i = f[k]
    <3>1. us[i] = ts[k]
      BY <1>4, <2>4 DEF Inflates
    <3>2. PICK j \in Taken(expression, {"sort"}) : ts[k] = TokenOf(expression[j], PathContains)
      <4>1. Len(expression) \in Nat
        OBVIOUS
      <4> QED
        BY <1>1, <4>1, ReadingFacts DEF Filters
    <3>3. /\ us[i].type \in Searched \cup {And, Or, Negation, Open, Close}
          /\ us[i].type = OutlineContains => "toc" \in Kinds
          /\ FilterContent \subseteq us[i].type => Kinds \cap ContentKinds # {}
      BY <1>5, <3>1, <3>2, FilterTokens
    <3>4. us[i].type \notin {Word, PathSize}
      BY <3>3, SearchedTypes DEF Searched
    <3>5. /\ JoinsContent(q) <=> Kinds \cap ContentKinds # {}
          /\ "toc" \in Kinds /\ Kinds \cap ContentKinds = {} => JoinsOutline(q)
      BY <1>1, <1>7, JoinsAre
    <3> QED
      BY <3>3, <3>4, <3>5 DEF Known
  <2> QED
    BY <2>2, <2>3, <2>4
<1>10. ~(\/ q.error
         \/ q.tokens = <<>>
         \/ \E i \in DOMAIN q.tokens : ~Known(q, q.tokens[i])
         \/ ~Grammatical(q.tokens, FALSE)
         \/ ~Sortable(q))
  BY <1>6, <1>7, <1>8, <1>9
<1>11. \/ RunQuery(q) = Found({r.file.path : r \in Selected(q.tokens, Rows(q))})
       \/ ~Usable(q.tokens) /\ RunQuery(q) = Error
  BY <1>10, Zenon DEF RunQuery
<1> QED
  BY <1>1, <1>2, <1>6, <1>7, <1>11 DEF PathsOf

\* The files of the rows that are selected, but for those without an outline.
LEMMA FiltersFound ==
    ASSUME expression \in Seq(Lexemes), Sound(Filters), NEW q, q.mask = MaskOf(Filters),
           ~("toc" \in Kinds /\ Kinds \cap ContentKinds # {})
    PROVE  PathsOf(Selected(AddAnds(Filters), Rows(q))) = Lossy(q, PathsOf(Selected(Filters, RowsFor(FALSE))))
<1>1. PICK ts : ts = Filters
  OBVIOUS
<1>2. PICK us : us = AddAnds(ts)
  OBVIOUS
<1>3. Typed(ts) /\ Typed(us) /\ \E f : Inflates(f, ts, us)
  BY <1>1, <1>2, FiltersInflate
<1>4. PICK f : Inflates(f, ts, us)
  BY <1>3
<1>5. Grammatical(ts, TRUE) /\ "size" \notin Kinds
  BY <1>1 DEF Sound
<1>6. Grammatical(us, FALSE)
  BY <1>3, <1>4, <1>5, InflatedGrammar
<1>7. /\ JoinsContent(q) <=> Kinds \cap ContentKinds # {}
      /\ "toc" \in Kinds /\ Kinds \cap ContentKinds = {} => JoinsOutline(q)
      /\ JoinsOutline(q) => Kinds \cap ContentKinds = {}
  BY JoinsAre
<1> DEFINE Few == RowsFor(FALSE)
           Page(g) == IF JoinsContent(q) THEN g.pages ELSE {NoPage}
<1>8. \A r : r \in Few <=>
         \E g \in Files : r \in [file : {g}, entry : IF "toc" \in Kinds THEN g.outline ELSE {{}},
                                 page : Page(g)]
  BY <1>7 DEF RowsFor
<1>9. \A r : r \in Rows(q) <=>
         \E g \in Files : r \in [file : {g}, entry : IF JoinsOutline(q) THEN g.outline ELSE {{}},
                                 page : Page(g)]
  BY DEF Rows
<1>10. /\ \A r \in Selected(ts, Few) : r \in Few
       /\ \A r \in Selected(us, Rows(q)) : r \in Rows(q)
  <2>1. /\ Len(ts) > 0 /\ ts[Len(ts)].type # Negation
        /\ Len(us) > 0 /\ us[Len(us)].type # Negation
    <3>1. PICK a, b : a = TRUE /\ b = FALSE
      OBVIOUS
    <3>2. Grammatical(ts, a) /\ Grammatical(us, b)
      BY <1>5, <1>6, <3>1
    <3>3. Len(ts) \in Nat \ {0} /\ ts[Len(ts)].type # Negation
      BY <1>3, <3>2, GrammarFacts
    <3>4. Len(us) \in Nat \ {0} /\ us[Len(us)].type # Negation
      BY <1>3, <3>2, GrammarFacts
    <3> QED
      BY <3>3, <3>4
  <2> HIDE DEF Few
  <2> QED
    BY <1>3, <2>1, SelectedRows
<1> HIDE DEF Few, Page
<1>11. \A r \in Few : \A s \in Rows(q) :
          r.file = s.file /\ r.page = s.page /\ ("toc" \in Kinds => r.entry = s.entry) =>
             (r \in Selected(ts, Few) <=> s \in Selected(us, Rows(q)))
  <2> SUFFICES ASSUME NEW r \in Few, NEW s \in Rows(q), r.file = s.file, r.page = s.page,
                      "toc" \in Kinds => r.entry = s.entry
               PROVE  r \in Selected(ts, Few) <=> s \in Selected(us, Rows(q))
    OBVIOUS
  <2>1. ASSUME NEW i \in 1..Len(ts), ts[i].type \in OperandTypes
        PROVE  Holds(ts[i], r) <=> Holds(ts[i], s)
    <3>1. PICK j \in Taken(expression, {"sort"}) : ts[i] = TokenOf(expression[j], PathContains)
      <4>1. Len(expression) \in Nat
        OBVIOUS
      <4> QED
        BY <1>1, <4>1, ReadingFacts DEF Filters
    <3>2. /\ ts[i].type \in Searched \cup {And, Or, Negation, Open, Close}
          /\ ts[i].type = OutlineContains => "toc" \in Kinds
      BY <1>5, <3>1, FilterTokens
    <3>3. ts[i].type \in Searched
      BY <2>1, <3>2, OperandFacts
    <3> QED
      BY <3>2, <3>3, HoldsAlike
  <2>2. AlikeRows(ts, r, s)
    BY <2>1 DEF AlikeRows
  <2> QED
    BY <1>3, <1>4, <1>5, <2>2, InflatedSelection
<1>12. ASSUME JoinsOutline(q), "toc" \notin Kinds
       PROVE  PathsOf(Selected(us, Rows(q))) = PathsOf(Selected(ts, Few)) \cap Outlined
  <2>1. ASSUME NEW s \in Selected(us, Rows(q))
        PROVE  s.file.path \in PathsOf(Selected(ts, Few)) \cap Outlined
    <3>1. PICK g \in Files : s \in [file : {g}, entry : g.outline, page : Page(g)]
      BY <1>9, <1>10, <1>12, <2>1
    <3>2. PICK r : r = [file |-> g, entry |-> {}, page |-> s.page]
      OBVIOUS
    <3>3. r \in [file : {g}, entry : {{}}, page : Page(g)]
      BY <3>1, <3>2
    <3>4. r \in Few
      BY <1>8, <1>12, <3>3
    <3>5. r \in Selected(ts, Few)
      BY <1>10, <1>11, <1>12, <2>1, <3>1, <3>2, <3>4
    <3>6. r.file = g /\ s.file = g /\ g.outline # {}
      BY <3>1, <3>2
    <3> QED
      BY <3>5, <3>6 DEF PathsOf, Outlined
  <2>2. ASSUME NEW r \in Selected(ts, Few), r.file.path \in Outlined
        PROVE  r.file.path \in PathsOf(Selected(us, Rows(q)))
    <3>1. PICK g \in Files : r \in [file : {g}, entry : {{}}, page : Page(g)]
      BY <1>8, <1>10, <1>12, <2>2
    <3>2. g.outline # {}
      <4>1. PICK k \in Files : k.outline # {} /\ k.path = r.file.path
        BY <2>2 DEF Outlined
      <4>2. r.file = g
        BY <3>1
      <4> QED
        BY <4>1, <4>2, FilesAssumption
    <3>3. PICK n \in g.outline : TRUE
      BY <3>2
    <3>4. PICK s : s = [file |-> g, entry |-> n, page |-> r.page]
      OBVIOUS
    <3>5. s \in [file : {g}, entry : g.outline, page : Page(g)]
      BY <3>1, <3>4
    <3>6. s \in Rows(q)
      BY <1>9, <1>12, <3>5
    <3>7. r.file = g /\ s.file = g /\ r.page = s.page
      BY <3>1, <3>4
    <3>8. s \in Selected(us, Rows(q))
      BY <1>10, <1>11, <1>12, <2>2, <3>6, <3>7
    <3> QED
      BY <3>7, <3>8 DEF PathsOf
  <2> QED
    BY <2>1, <2>2 DEF PathsOf
<1>13. ASSUME ~(JoinsOutline(q) /\ "toc" \notin Kinds)
       PROVE  PathsOf(Selected(us, Rows(q))) = PathsOf(Selected(ts, Few))
  <2>1. ("toc" \in Kinds) <=> JoinsOutline(q)
    BY <1>7, <1>13
  <2>2. \A r : r \in Few <=> r \in Rows(q)
    BY <1>8, <1>9, <2>1
  <2>3. \A r : r \in Selected(ts, Few) <=> r \in Selected(us, Rows(q))
    BY <1>10, <1>11, <2>2
  <2> QED
    BY <2>3 DEF PathsOf
<1> QED
  BY <1>1, <1>2, <1>12, <1>13 DEF Lossy, Few

----------------------------------------------------------------------------
(***************************************************************************)
(* The command line, and the search line, as they build what they ask.     *)
(***************************************************************************)
SortsAre == SortUpTo(expression, Len(expression))
LEMMA SortsOfFiles ==
    ASSUME expression \in Seq(Lexemes), SortsFiles
    PROVE  /\ SortedOnce(expression)
           /\ SortsAre \subseteq {"path", "mtime", "size"}
           /\ "content.text" \notin SortsAre
           /\ Kinds \cap ContentKinds # {} => SortsAre = {} /\ "sort" \notin Kinds
<1>1. DOMAIN expression = 1..Len(expression)
  OBVIOUS
<1>2. SortedOnce(expression)
  BY <1>1 DEF SortsFiles, Sorts, SortedOnce
<1>3. \A c \in SortsAre : \E i \in Sorts : \E d \in expression[i].value : c = d[1]
  BY <1>1 DEF SortsAre, SortUpTo, CreateSortConditions, Sorts
<1>4. SortsAre \subseteq {"path", "mtime", "size"}
  BY <1>3 DEF SortsFiles
<1>5. Kinds \cap ContentKinds # {} => Sorts = {}
  BY DEF SortsFiles
<1> QED
  BY <1>2, <1>3, <1>4, <1>5 DEF Sorts, Kinds

LEMMA FiltersUnrefused ==
    ASSUME expression \in Seq(Lexemes), Sound(Filters), SortsFiles
    PROVE  /\ Unrefused(expression, PathContains, FALSE)
           /\ CheckParanthesis(expression) /\ expression # <<>> /\ NoClash(Filters)
<1>1. Typed(Filters)
  BY FiltersInflate
<1>2. NoClash(Filters)
  <2>1. PICK j : j = TRUE
    OBVIOUS
  <2>2. Grammatical(Filters, j)
    BY <2>1 DEF Sound
  <2>3. \A i \in 2..Len(Filters) : ~(Filters[i].type = Negation /\ Filters[i - 1].type = Negation)
    BY DEF Sound
  <2> QED
    BY <1>1, <2>2, <2>3, SoundNoClash
<1>3. CheckParanthesis(expression)
  <2>1. PICK L : L = {"sort"}
    OBVIOUS
  <2>2. "sort" \in L /\ {"open", "close"} \cap L = {}
    BY <2>1
  <2>3. PICK type \in OperandTypes : type = PathContains
    BY DEF OperandTypes
  <2>4. Depth(Reading(expression, type, L), Len(Reading(expression, type, L)) + 1) = 0
    BY <2>1, <2>3 DEF Sound, Grammatical, Filters
  <2>5. \A i \in DOMAIN expression : ~expression[i].closing
    BY DEF Sound
  <2> QED
    BY <2>2, <2>4, <2>5, ParenthesesMatch
<1>4. expression # <<>>
  <2>1. Filters # <<>>
    BY DEF Sound, Grammatical
  <2>2. Len(Filters) # 0
    BY <1>1, <2>1, GrammarFacts DEF Sound, Grammatical, Typed
  <2>3. ASSUME expression = <<>> PROVE FALSE
    <3>1. PICK e : e = expression
      OBVIOUS
    <3>2. Len(e) = 0 /\ Len(e) \in Nat
      BY <2>3, <3>1
    <3>3. PICK L, type : L = {"sort"} /\ type = PathContains
      OBVIOUS
    <3>4. PICK h : Reads(h, e, type, L)
      BY <3>2, ReadingIs
    <3>5. Reading(e, type, L) = <<>>
      BY <3>2, <3>4 DEF Reads
    <3> QED
      BY <2>1, <3>1, <3>3, <3>5 DEF Filters
  <2> QED
    BY <2>3
<1>5. LeftOut(FALSE) = {"sort"}
  BY DEF LeftOut
<1> QED
  BY <1>2, <1>3, <1>4, <1>5, SortsOfFiles DEF Unrefused, Filters, SortsAre

\* What is asked with every word a filter of the path.
LEMMA PathsBuilt ==
    ASSUME expression \in Seq(Lexemes), Sound(Filters), SortsFiles,
           NEW q, q = Build(expression, PathContains, FALSE)
    PROVE  /\ IsQuery(q) /\ q.tokens = AddAnds(Filters) /\ q.mask = MaskOf(Filters)
           /\ q.error = FALSE /\ q.sort = SortsAre /\ Asks(q, Filters)
<1>1. PICK merge \in BOOLEAN : merge = FALSE
  OBVIOUS
<1>2. PICK type \in OperandTypes : type = PathContains
  BY DEF OperandTypes
<1>3. Unrefused(expression, type, merge)
  BY <1>1, <1>2, FiltersUnrefused
<1>4. Built(Build(expression, type, merge), expression, type, merge)
  BY <1>3, BuildIs
<1>5. LeftOut(merge) = {"sort"} /\ Merged(expression, merge) = {}
  BY <1>1 DEF LeftOut, Merged
<1>6. /\ IsQuery(q) /\ q.sort = SortsAre /\ q.error = FALSE
      /\ q.tokens = AddAnds(Filters) /\ q.mask = MaskOf(Filters)
  BY <1>1, <1>2, <1>4, <1>5 DEF Built, Filters, SortsAre
<1>7. Sortable(q)
  <2>1. JoinsContent(q) <=> Kinds \cap ContentKinds # {}
    BY <1>6, JoinsAre
  <2> QED
    BY <1>6, <2>1, SortsOfFiles DEF Sortable
<1> QED
  BY <1>6, <1>7 DEF Asks

IsMeant(result) ==
    Gives(result, Filters, Lossy(Build(expression, PathContains, FALSE),
                                 PathsOf(Selected(Filters, RowsFor(FALSE)))))
LEMMA AskedIsMeant ==
    ASSUME expression \in Seq(Lexemes), Sound(Filters), SortsFiles,
           ~("toc" \in Kinds /\ Kinds \cap ContentKinds # {}),
           NEW q, Asks(q, Filters)
    PROVE  IsMeant(RunQuery(q))
<1>1. PICK p : p = Build(expression, PathContains, FALSE)
  OBVIOUS
<1>2. p.mask = q.mask /\ q.mask = MaskOf(Filters)
  BY <1>1, PathsBuilt DEF Asks
<1>3. JoinsOutline(q) <=> JoinsOutline(p)
  BY <1>2 DEF JoinsOutline, HasContentSearch, HasOutlineSearch
<1>4. \A files : Lossy(q, files) = Lossy(p, files)
  BY <1>3 DEF Lossy
<1>5. \/ RunQuery(q) = Found(PathsOf(Selected(AddAnds(Filters), Rows(q))))
      \/ ~Usable(Filters) /\ RunQuery(q) = Error
  BY FiltersRun
<1>6. PathsOf(Selected(AddAnds(Filters), Rows(q))) =
         Lossy(q, PathsOf(Selected(Filters, RowsFor(FALSE))))
  BY <1>2, FiltersFound
<1> QED
  BY <1>1, <1>4, <1>5, <1>6 DEF IsMeant, Gives

LEMMA CommandIsMeant ==
    ASSUME expression \in Seq(Lexemes), Sound(Filters), SortsFiles,
           ~("toc" \in Kinds /\ Kinds \cap ContentKinds # {})
    PROVE  /\ IsMeant(CommandSearch)
           /\ answer.by = "reverse" => IsMeant(ReverseSearch)
           /\ IsMeant(RunQuery(PathsQuery))
<1>1. PICK q : q = Build(expression, PathContains, FALSE)
  OBVIOUS
<1>2. /\ IsQuery(q) /\ q.tokens = AddAnds(Filters) /\ q.mask = MaskOf(Filters)
      /\ q.error = FALSE /\ q.sort = SortsAre /\ Asks(q, Filters)
  BY <1>1, PathsBuilt
<1>3. IsMeant(RunQuery(q))
  BY <1>2, AskedIsMeant
<1>4. ASSUME answer.by = "reverse" PROVE IsMeant(ReverseSearch)
  <2>1. PICK r : r = AddSortCondition(q, "mtime")
    OBVIOUS
  <2>2. /\ r.tokens = q.tokens /\ r.mask = q.mask /\ r.error = q.error
        /\ r.sort = q.sort \cup {"mtime"}
    BY <1>2, <2>1 DEF AddSortCondition, IsQuery
  <2>3. JoinsContent(r) <=> Kinds \cap ContentKinds # {}
    BY <1>2, <2>2, JoinsAre
  <2>4. Kinds \cap ContentKinds = {}
    BY <1>4 DEF SortsFiles
  <2>5. Sortable(r)
    BY <1>2, <2>2, <2>3, <2>4, SortsOfFiles DEF Sortable
  <2>6. Asks(r, Filters)
    BY <1>2, <2>2, <2>5 DEF Asks
  <2> QED
    BY <1>1, <2>1, <2>6, AskedIsMeant DEF ReverseSearch
<1> QED
  BY <1>1, <1>3, <1>4 DEF CommandSearch, PathsQuery

----------------------------------------------------------------------------
WordsUp == WordsUpTo(expression, Len(expression))
LEMMA WordsMerged ==
    ASSUME expression \in Seq(Lexemes)
    PROVE  /\ WordsUp = {} <=> "word" \notin Kinds
           /\ WordsUp = WordsOf(expression)
           /\ Merged(expression, TRUE) = WordsUp /\ LeftOut(TRUE) = {"sort", "word"}
<1>1. DOMAIN expression = 1..Len(expression) /\ \A i \in 1..Len(expression) : expression[i] \in Lexemes
  OBVIOUS
<1>2. \A w : w \in WordsUp <=> \E i \in DOMAIN expression : expression[i].kind = "word" /\ w \in expression[i].value
  BY <1>1 DEF WordsUp, WordsUpTo
<1>3. \A w : w \in WordsOf(expression) <=>
         \E i \in DOMAIN expression : expression[i].kind = "word" /\ w \in expression[i].value
  BY DEF WordsOf
<1>4. \A i \in DOMAIN expression : expression[i].kind = "word" => \E w : w \in expression[i].value
  BY <1>1, LexemesAssumption
<1>5. WordsUp = {} <=> "word" \notin Kinds
  BY <1>2, <1>4 DEF Kinds
<1>6. WordsUp = WordsOf(expression)
  BY <1>2, <1>3
<1> QED
  BY <1>5, <1>6 DEF Merged, WordsUp, LeftOut

\* The filters of the search line, without its words.
LineFilters == Reading(expression, PathContains, {"sort", "word"})
LEMMA LineReading ==
    ASSUME expression \in Seq(Lexemes), NEW wordType
    PROVE  /\ Reading(expression, wordType, {"sort", "word"}) = LineFilters
           /\ "word" \notin Kinds => LineFilters = Filters
<1>1. PICK e : e = expression
  OBVIOUS
<1>2. PICK L, M : L = {"sort", "word"} /\ M = {"sort"}
  OBVIOUS
<1>3. Len(e) \in Nat /\ \A k \in 1..Len(e) : e[k] \in Lexemes
  BY <1>1
<1>4. \A k \in 1..Len(e) : e[k].kind \notin L => TokenOf(e[k], wordType) = TokenOf(e[k], PathContains)
  BY <1>2, <1>3, SameToken
<1>5. Reading(e, wordType, L) = Reading(e, PathContains, L)
  BY <1>3, <1>4, SameReading
<1>6. ASSUME "word" \notin Kinds PROVE Reading(e, PathContains, L) = Reading(e, PathContains, M)
  <2>1. \A k \in 1..Len(e) : e[k].kind \in L <=> e[k].kind \in M
    BY <1>1, <1>2, <1>3, <1>6 DEF Kinds
  <2> QED
    BY <1>3, <2>1, SameReading
<1> QED
  BY <1>1, <1>2, <1>5, <1>6 DEF LineFilters, Filters

\* The query of the search line: its words are one more operand, after the rest.
Together == Append(LineFilters, Token(Word, WordsUp))
LEMMA LineBuilt ==
    ASSUME expression \in Seq(Lexemes), SortedOnce(expression), "content.text" \notin SortsAre,
           CheckParanthesis(expression), expression # <<>>, NoClash(LineFilters),
           NEW q, q = LineQuery
    PROVE  /\ IsQuery(q) /\ q.error = FALSE /\ q.sort = SortsAre
           /\ "word" \notin Kinds => q.tokens = AddAnds(LineFilters) /\ q.mask = MaskOf(LineFilters)
           /\ "word" \in Kinds => q.tokens = AddAnds(Together) /\ q.mask = MaskOf(LineFilters) \cup Word
           /\ HasLoneWords(q) <=> "word" \in Kinds
           /\ HasContentSearch(q) <=> Kinds \cap ContentKinds # {}
           /\ HasPathSearch(q) <=> Kinds \cap (PathKinds \cup {"size"}) # {}
<1>1. PICK merge \in BOOLEAN : merge = TRUE
  OBVIOUS
<1>2. PICK type \in {Word, PathContains} : type = Word
  OBVIOUS
<1>3. /\ LeftOut(merge) = {"sort", "word"} /\ Merged(expression, merge) = WordsUp
      /\ Reading(expression, type, LeftOut(merge)) = LineFilters
  BY <1>1, WordsMerged, LineReading
<1>4. Unrefused(expression, type, merge)
  BY <1>3 DEF Unrefused, SortsAre
<1>5. Built(Build(expression, type, merge), expression, type, merge)
  BY <1>1, <1>4, BuildIs
<1>6. q = Build(expression, type, merge)
  BY <1>1, <1>2 DEF LineQuery
<1>7. /\ IsQuery(q) /\ q.error = FALSE /\ q.sort = SortsAre
      /\ WordsUp = {} => q.tokens = AddAnds(LineFilters) /\ q.mask = MaskOf(LineFilters)
      /\ WordsUp # {} => q.tokens = AddAnds(Together) /\ q.mask = MaskOf(LineFilters) \cup Word
  BY <1>2, <1>3, <1>5, <1>6 DEF Built, SortsAre, Together
<1>8. PICK m : m = MaskOf(Reading(expression, type, LeftOut(merge)))
  OBVIOUS
<1>9. /\ 8 \in m <=> ("word" \in Kinds /\ ~merge /\ type = Word)
      /\ 512 \in m <=> Kinds \cap ContentKinds # {}
      /\ 256 \in m <=> \/ Kinds \cap (PathKinds \cup {"size"}) # {}
                       \/ "word" \in Kinds /\ ~merge /\ type = PathContains
  BY <1>8, MaskBits
<1>10. m = MaskOf(LineFilters)
  BY <1>3, <1>8
<1>11. /\ q.mask = m \/ q.mask = m \cup Word
       /\ "word" \in Kinds => q.mask = m \cup Word
       /\ "word" \notin Kinds => q.mask = m
  BY <1>7, <1>10, WordsMerged
<1>12. /\ 8 \in q.mask <=> "word" \in Kinds
       /\ 512 \in q.mask <=> 512 \in m
       /\ 256 \in q.mask <=> 256 \in m
  BY <1>1, <1>9, <1>11 DEF Word
<1>13. /\ HasLoneWords(q) <=> 8 \in q.mask
       /\ HasContentSearch(q) <=> 512 \in q.mask
       /\ HasPathSearch(q) <=> 256 \in q.mask
  BY DEF HasLoneWords, HasContentSearch, HasPathSearch, Word, FilterContent, FilterPath
<1> QED
  BY <1>1, <1>7, <1>9, <1>12, <1>13, WordsMerged

LEMMA LineIsMeant ==
    ASSUME expression \in Seq(Lexemes), Sound(Filters), SortsFiles,
           ~("toc" \in Kinds /\ Kinds \cap ContentKinds # {}),
           "word" \in Kinds => "c" \in Kinds /\ Kinds \cap PathKinds = {} /\ WordsAreApart
    PROVE  IsMeant(LineEditSearch)
<1>1. PICK q : q = LineQuery
  OBVIOUS
<1>2. CheckParanthesis(expression) /\ expression # <<>> /\ NoClash(Filters) /\ "size" \notin Kinds
  BY FiltersUnrefused DEF Sound
<1>3. "word" \in Kinds => Kinds \cap ContentKinds # {} /\ "sort" \notin Kinds
  BY SortsOfFiles DEF ContentKinds
<1>4. NoClash(LineFilters)
  <2>1. CASE "word" \notin Kinds
    BY <1>2, <2>1, LineReading
  <2>2. CASE "word" \in Kinds
    <3>1. PICK e : e = expression
      OBVIOUS
    <3>2. DOMAIN e = 1..Len(e) /\ \A k \in 1..Len(e) : e[k].kind # "sort"
      BY <1>3, <2>2, <3>1 DEF Kinds
    <3>3. ApartIn(e)
      BY <2>2, <3>1, <3>2 DEF ApartIn, WordsAreApart, IsBetween
    <3>4. PICK type \in OperandTypes : type = PathContains
      BY DEF OperandTypes
    <3>5. NoClash(Reading(e, type, {"sort"}))
      BY <1>2, <3>1, <3>4 DEF Filters
    <3>6. NoClash(Reading(e, PathContains, {"sort", "word"}))
      BY <3>1, <3>2, <3>3, <3>5, ApartNoClash
    <3> QED
      BY <3>1, <3>6 DEF LineFilters
  <2> QED
    BY <2>1, <2>2
<1>5. /\ IsQuery(q) /\ q.error = FALSE /\ q.sort = SortsAre
      /\ "word" \notin Kinds => q.tokens = AddAnds(LineFilters) /\ q.mask = MaskOf(LineFilters)
      /\ HasLoneWords(q) <=> "word" \in Kinds
      /\ HasContentSearch(q) <=> Kinds \cap ContentKinds # {}
      /\ HasPathSearch(q) <=> Kinds \cap (PathKinds \cup {"size"}) # {}
  BY <1>1, <1>2, <1>4, SortsOfFiles, LineBuilt
<1>6. CASE "word" \notin Kinds
  <2>1. q.tokens = AddAnds(Filters) /\ q.mask = MaskOf(Filters)
    BY <1>5, <1>6, LineReading
  <2>2. JoinsContent(q) <=> Kinds \cap ContentKinds # {}
    BY <2>1, JoinsAre
  <2>3. Sortable(q)
    BY <1>5, <2>2, SortsOfFiles DEF Sortable
  <2>4. IsMeant(RunQuery(q))
    BY <1>5, <2>1, <2>3, AskedIsMeant DEF Asks
  <2>5. ~HasLoneWords(q)
    BY <1>5, <1>6
  <2>6. AddsContentSearch(q) => ContentQuery(q) = q
    BY <2>5 DEF ContentQuery
  <2>7. AddsContentSearch(q) => ~AddsPathSearch(q)
    BY <2>5 DEF AddsContentSearch, AddsPathSearch
  <2> QED
    BY <1>1, <1>5, <2>4, <2>5, <2>6, <2>7 DEF LineEditSearch
<1>7. CASE "word" \in Kinds
  <2>1. HasLoneWords(q) /\ HasContentSearch(q) /\ ~HasPathSearch(q)
    BY <1>2, <1>3, <1>5, <1>7
  <2>2. AddsContentSearch(q) /\ ~AddsPathSearch(q)
    BY <2>1 DEF AddsContentSearch, AddsPathSearch
  <2>3. ContentQuery(q) = PathsQuery
    BY <2>1, <2>2 DEF ContentQuery
  <2>4. IsMeant(RunQuery(PathsQuery))
    BY CommandIsMeant
  <2> QED
    BY <1>1, <1>5, <2>2, <2>3, <2>4 DEF LineEditSearch
<1> QED
  BY <1>6, <1>7

----------------------------------------------------------------------------
(***************************************************************************)
(* What was answered is what the search of the expression gives, and       *)
(* nothing is typed after.                                                 *)
(***************************************************************************)
SearchInv ==
    /\ expression \in Seq(Lexemes)
    /\ answer.by \in {"nobody", "command", "reverse", "line"}
    /\ answer.by = "command" => answer.result = CommandSearch
    /\ answer.by = "reverse" => answer.result = ReverseSearch
    /\ answer.by = "line" => answer.result = LineEditSearch

LEMMA SearchUnchanged ==
    ASSUME expression' = expression
    PROVE  /\ CommandSearch' = CommandSearch /\ ReverseSearch' = ReverseSearch
           /\ LineEditSearch' = LineEditSearch
BY DEF CommandSearch, ReverseSearch, LineEditSearch, LineQuery, PathsQuery, ContentQuery

LEMMA SearchInvInductive ==
    /\ Init => SearchInv
    /\ SearchInv /\ [Next]_vars => SearchInv'
<1>1. Init => SearchInv
  BY OnDiskAssumption DEF Init, SearchInv, NotAsked
<1>2. ASSUME SearchInv, [Next]_vars PROVE SearchInv'
  <2>1. CASE SearchByCommand
    <3>1. expression' = expression
      BY <2>1 DEF SearchByCommand
    <3> QED
      BY <1>2, <2>1, <3>1, SearchUnchanged DEF SearchInv, SearchByCommand
  <2>2. CASE SearchByLine
    <3>1. expression' = expression
      BY <2>2 DEF SearchByLine
    <3> QED
      BY <1>2, <2>2, <3>1, SearchUnchanged DEF SearchInv, SearchByLine
  <2>3. CASE UNCHANGED searchVars
    <3>1. expression' = expression /\ answer' = answer
      BY <2>3 DEF searchVars
    <3> QED
      BY <1>2, <3>1, SearchUnchanged DEF SearchInv
  <2> QED
    BY <1>2, <2>1, <2>2, <2>3 DEF Next, vars, MakePreview
<1> QED
  BY <1>1, <1>2

LEMMA SearchInvAlways == Spec => []SearchInv
<1> QED
  BY SearchInvInductive, PTL DEF Spec

\* What a search by filters gives, and the line with its words, is the files the filters
\* find as the expression combines them (looqsquery.cpp:333-351, sqlitesearch.cpp:207-224,
\* mainwindow.cpp:779-828); or, only where a c: stands below OR or is negated, an error, which
\* for c: below OR is less than USAGE.md:170 promises.
THEOREM FiltersFindTheorem == Spec => []FiltersFindWhatIsMeant
<1>1. ASSUME SearchInv PROVE FiltersFindWhatIsMeant
  <2> SUFFICES ASSUME ReadAsFilters, Sound(Filters), SortsFiles,
                      ~("toc" \in Kinds /\ Kinds \cap ContentKinds # {})
               PROVE  IsMeant(answer.result)
    BY DEF FiltersFindWhatIsMeant, IsMeant, Filters
  <2>1. CASE answer.by = "command"
    BY <1>1, <2>1, CommandIsMeant DEF SearchInv
  <2>2. CASE answer.by = "reverse"
    BY <1>1, <2>2, CommandIsMeant DEF SearchInv
  <2>3. CASE answer.by = "line"
    <3>1. "word" \in Kinds => "c" \in Kinds /\ Kinds \cap PathKinds = {} /\ WordsAreApart
      BY <2>3 DEF ReadAsFilters
    <3> QED
      BY <1>1, <2>3, <3>1, LineIsMeant DEF SearchInv
  <2> QED
    BY <2>1, <2>2, <2>3 DEF ReadAsFilters
<1> QED
  BY <1>1, SearchInvAlways, PTL

----------------------------------------------------------------------------
(***************************************************************************)
(* The words of the search line as a search of the content: in the tokens  *)
(* the lone words become a filter, after the ANDs were put.                *)
(***************************************************************************)
WithContent == Append(LineFilters, Token(ContentContains, WordsUp))
WordTokens == FinalTokens(AddAnds(Together), ContentContains)

LEMMA LineTokens ==
    ASSUME expression \in Seq(Lexemes), "size" \notin Kinds
    PROVE  /\ Typed(LineFilters)
           /\ LineFilters \in Seq(TokensOf(expression, PathContains, {"sort", "word"}))
           /\ \A t \in TokensOf(expression, PathContains, {"sort", "word"}) : t.type \in TokenTypes
           /\ \A i \in 1..Len(LineFilters) :
                 \E k \in Taken(expression, {"sort", "word"}) :
                    LineFilters[i] = TokenOf(expression[k], PathContains)
           /\ \A i \in 1..Len(LineFilters) :
                 /\ LineFilters[i].type \in Searched \cup {And, Or, Negation, Open, Close}
                 /\ LineFilters[i].type = OutlineContains => "toc" \in Kinds
                 /\ FilterContent \subseteq LineFilters[i].type => Kinds \cap ContentKinds # {}
<1>1. PICK L : L = {"sort", "word"}
  OBVIOUS
<1>2. PICK e : e = expression
  OBVIOUS
<1>3. PICK type \in OperandTypes : type = PathContains
  BY DEF OperandTypes
<1>4. PICK ts : ts = Reading(e, type, L)
  OBVIOUS
<1>5. ts = LineFilters
  BY <1>1, <1>2, <1>3, <1>4 DEF LineFilters
<1>6. Len(e) \in Nat /\ e \in Seq(Lexemes) /\ "sort" \in L
  BY <1>1, <1>2
<1>7. \A i \in 1..Len(ts) : \E k \in Taken(e, L) : ts[i] = TokenOf(e[k], type)
  BY <1>4, <1>6, ReadingFacts
<1>8. /\ Typed(ts) /\ ts \in Seq(TokensOf(e, type, L))
      /\ \A t \in TokensOf(e, type, L) : t.type \in TokenTypes
  BY <1>4, <1>6, ReadingTyped
<1>9. \A k \in Taken(e, L) : k \in Taken(expression, {"sort"})
  BY <1>1, <1>2 DEF Taken
<1>10. \A i \in 1..Len(ts) :
          /\ ts[i].type \in Searched \cup {And, Or, Negation, Open, Close}
          /\ ts[i].type = OutlineContains => "toc" \in Kinds
          /\ FilterContent \subseteq ts[i].type => Kinds \cap ContentKinds # {}
  BY <1>2, <1>3, <1>7, <1>9, FilterTokens
<1> QED
  BY <1>1, <1>2, <1>3, <1>5, <1>7, <1>8, <1>10

\* A token more at the end.
LEMMA OneMore ==
    ASSUME NEW T, NEW ts \in Seq(T), NEW t, NEW us, us = Append(ts, t)
    PROVE  /\ us \in Seq(T \cup {t}) /\ Len(us) = Len(ts) + 1 /\ us[Len(us)] = t
           /\ DOMAIN us = 1..Len(us) /\ \A i \in 1..Len(ts) : us[i] = ts[i]
<1>1. us \in Seq(T \cup {t})
  OBVIOUS
<1> QED
  BY <1>1

LEMMA OneMoreTyped ==
    ASSUME NEW T, \A u \in T : u.type \in TokenTypes, NEW ts \in Seq(T), NEW t,
           t.type \in TokenTypes, NEW us, us = Append(ts, t)
    PROVE  Typed(us) /\ us \in Seq(T \cup {t}) /\ \A u \in T \cup {t} : u.type \in TokenTypes
<1>1. us \in Seq(T \cup {t}) /\ \A u \in T \cup {t} : u.type \in TokenTypes
  BY OneMore
<1> QED
  BY <1>1, SeqTyped

LEMMA WordsInflate ==
    ASSUME expression \in Seq(Lexemes), "size" \notin Kinds
    PROVE  /\ Typed(WithContent) /\ Typed(WordTokens)
           /\ \E f : Inflates(f, WithContent, WordTokens)
<1>1. PICK ls : ls = LineFilters
  OBVIOUS
<1>2. PICK T : T = TokensOf(expression, PathContains, {"sort", "word"})
  OBVIOUS
<1>3. /\ Typed(ls) /\ ls \in Seq(T) /\ \A t \in T : t.type \in TokenTypes
      /\ \A i \in 1..Len(ls) : ls[i].type \in Searched \cup {And, Or, Negation, Open, Close}
  BY <1>1, <1>2, LineTokens
<1>4. PICK w, c : w = Token(Word, WordsUp) /\ c = Token(ContentContains, WordsUp)
  OBVIOUS
<1>5. /\ w.type = Word /\ w.value = WordsUp /\ w.type \in TokenTypes /\ w.type \in OperandTypes
      /\ c.type = ContentContains /\ c.type \in TokenTypes /\ c.type \in OperandTypes
      /\ c = Token(ContentContains, w.value)
  BY <1>4 DEF Token, TokenTypes, OperandTypes
<1>6. PICK ts : ts = Append(ls, w)
  OBVIOUS
<1>7. PICK vs : vs = Append(ls, c)
  OBVIOUS
<1>8. PICK bs : bs = AddAnds(ts)
  OBVIOUS
<1>9. PICK us : us = FinalTokens(bs, ContentContains)
  OBVIOUS
<1>10. ts = Together /\ vs = WithContent /\ us = WordTokens
  BY <1>1, <1>4, <1>6, <1>7, <1>8, <1>9 DEF Together, WithContent, WordTokens
<1>11. /\ Typed(ts) /\ Len(ts) = Len(ls) + 1 /\ ts[Len(ts)] = w
       /\ Typed(vs) /\ Len(vs) = Len(ls) + 1 /\ vs[Len(vs)] = c
       /\ \A i \in 1..Len(ls) : ts[i] = ls[i] /\ vs[i] = ls[i]
  <2>1. ts \in Seq(T \cup {w}) /\ Len(ts) = Len(ls) + 1 /\ ts[Len(ts)] = w
        /\ \A i \in 1..Len(ls) : ts[i] = ls[i]
    BY <1>3, <1>6, OneMore
  <2>2. vs \in Seq(T \cup {c}) /\ Len(vs) = Len(ls) + 1 /\ vs[Len(vs)] = c
        /\ \A i \in 1..Len(ls) : vs[i] = ls[i]
    BY <1>3, <1>7, OneMore
  <2>3. Typed(ts)
    BY <1>3, <1>5, <1>6, OneMoreTyped
  <2>4. Typed(vs)
    BY <1>3, <1>5, <1>7, OneMoreTyped
  <2> QED
    BY <2>1, <2>2, <2>3, <2>4
<1>12. Typed(bs) /\ \E f : Inflates(f, ts, bs)
  <2>1. ts \in Seq(T \cup {w}) /\ \A u \in T \cup {w} : u.type \in TokenTypes
    BY <1>3, <1>5, <1>6, OneMoreTyped
  <2> QED
    BY <1>8, <2>1, AddAndsInflates
<1>13. PICK f : Inflates(f, ts, bs)
  BY <1>12
<1>14. Len(ls) \in Nat /\ Len(ts) \in Nat /\ Len(bs) \in Nat /\ Len(vs) = Len(ts)
  BY <1>3, <1>11, <1>12 DEF Typed
<1>15. Typed(us) /\ Len(us) = Len(bs) /\ \A i \in 1..Len(bs) :
          us[i] = IF bs[i].type = Word THEN Token(ContentContains, bs[i].value) ELSE bs[i]
  <2>1. DOMAIN bs = 1..Len(bs)
    BY <1>12 DEF Typed
  <2>2. us = [i \in 1..Len(bs) |->
                IF bs[i].type = Word THEN Token(ContentContains, bs[i].value) ELSE bs[i]]
    BY <1>9, <2>1 DEF FinalTokens
  <2>3. PICK S : S = {us[i] : i \in 1..Len(bs)}
    OBVIOUS
  <2>4. PICK n \in Nat : n = Len(bs)
    BY <1>14
  <2>5. us \in [1..n -> S]
    BY <2>2, <2>3, <2>4
  <2>6. Len(us) = Len(bs)
    <3>1. us \in Seq(S) /\ DOMAIN us = 1..n
      BY <2>5
    <3>2. Len(us) \in Nat /\ \A i : i \in 1..Len(us) <=> i \in 1..n
      BY <3>1
    <3>3. Len(us) <= n
      BY <3>2
    <3>4. n <= Len(us)
      BY <3>2
    <3> QED
      BY <2>4, <3>2, <3>3, <3>4
  <2>7. \A i \in 1..Len(us) : us[i].type \in TokenTypes
    <3>1. ASSUME NEW i \in 1..Len(us) PROVE us[i].type \in TokenTypes
      <4>1. us[i] = IF bs[i].type = Word THEN Token(ContentContains, bs[i].value) ELSE bs[i]
        BY <2>2, <2>6
      <4>2. Token(ContentContains, bs[i].value).type \in TokenTypes
        BY DEF Token, TokenTypes, OperandTypes
      <4> QED
        BY <1>12, <2>6, <4>1, <4>2 DEF Typed
    <3> QED
      BY <3>1
  <2>8. DOMAIN us = 1..Len(us) /\ Len(us) \in Nat
    BY <1>14, <2>2, <2>6
  <2> QED
    BY <2>2, <2>6, <2>7, <2>8 DEF Typed
<1>16. And # Word /\ \A i \in 1..Len(ls) : ls[i].type # Word
  BY <1>3, SearchedTypes DEF Searched
<1>17. ASSUME NEW k \in 1..Len(ts)
       PROVE  /\ f[k] \in 1..Len(bs) /\ bs[f[k]] = ts[k] /\ us[f[k]] = vs[k]
              /\ Joined(vs, k) <=> Joined(ts, k)
  <2>1. f[k] \in 1..Len(bs) /\ bs[f[k]] = ts[k] /\ ts[k].type \in TokenTypes
    <3>1. Typed(ts) /\ Typed(bs)
      BY <1>11, <1>12
    <3> QED
      <4>1. Inflates(f, ts, bs)
        BY <1>13
      <4>2. f[k] \in 1..Len(bs) /\ f[k] \in DOMAIN bs /\ k \in DOMAIN ts
            /\ ts[k].type \in TokenTypes /\ bs[f[k]] = ts[k]
        BY <3>1, <4>1, InflatedToken
      <4> QED
        BY <4>2
  <2>2. us[f[k]] = IF ts[k].type = Word THEN Token(ContentContains, ts[k].value) ELSE ts[k]
    BY <1>15, <2>1
  <2>3. CASE k \in 1..Len(ls)
    <3>1. ts[k] = ls[k] /\ vs[k] = ls[k]
      BY <1>11, <2>3
    <3>2. us[f[k]] = vs[k]
      BY <1>16, <2>2, <2>3, <3>1
    <3>3. k > 1 => ts[k - 1] = vs[k - 1]
      <4>1. k > 1 => k - 1 \in 1..Len(ls)
        BY <1>14, <2>3
      <4> QED
        BY <1>11, <4>1
    <3> QED
      BY <2>1, <3>1, <3>2, <3>3 DEF Joined
  <2>4. CASE k = Len(ls) + 1
    <3>1. ts[k] = w /\ vs[k] = c
      BY <1>11, <2>4
    <3>2. us[f[k]] = vs[k]
      BY <1>5, <2>2, <3>1
    <3>3. ASSUME k > 1 PROVE NeedsAnd(vs[k], vs[k - 1].type) <=> NeedsAnd(ts[k], ts[k - 1].type)
      <4>1. k - 1 \in 1..Len(ls)
        BY <1>14, <2>4, <3>3
      <4>2. vs[k - 1] = ls[k - 1] /\ ts[k - 1] = ls[k - 1] /\ ls[k - 1].type \in TokenTypes
        BY <1>3, <1>11, <4>1 DEF Typed
      <4>3. StartsFactor(w) /\ StartsFactor(c)
        BY <1>5, TokenFacts
      <4>4. NeedsAnd(c, ls[k - 1].type) <=> EndsFactor(ls[k - 1])
        BY <1>5, <4>2, <4>3, NeedsAndFacts
      <4>5. NeedsAnd(w, ls[k - 1].type) <=> EndsFactor(ls[k - 1])
        BY <1>5, <4>2, <4>3, NeedsAndFacts
      <4> QED
        BY <3>1, <4>2, <4>4, <4>5
    <3> QED
      BY <2>1, <3>2, <3>3 DEF Joined
  <2>5. k \in 1..Len(ls) \/ k = Len(ls) + 1
    BY <1>11, <1>14
  <2> QED
    BY <2>3, <2>4, <2>5
<1>18. Inflates(f, vs, us)
  <2>1. /\ f \in [0..Len(vs) -> 0..Len(us)] /\ f[0] = 0 /\ f[Len(vs)] = Len(us)
    BY <1>13, <1>14, <1>15 DEF Inflates
  <2>2. ASSUME NEW k \in 1..Len(vs)
        PROVE  /\ us[f[k]] = vs[k]
               /\ Joined(vs, k) => f[k] = f[k - 1] + 2 /\ us[f[k] - 1].type = And
               /\ ~Joined(vs, k) => f[k] = f[k - 1] + 1
    <3>1. k \in 1..Len(ts)
      BY <1>14
    <3>2. /\ Joined(ts, k) => f[k] = f[k - 1] + 2 /\ bs[f[k] - 1].type = And
          /\ ~Joined(ts, k) => f[k] = f[k - 1] + 1
      BY <1>13, <3>1 DEF Inflates
    <3>3. f[k - 1] \in Nat
      <4>1. k - 1 \in 0..Len(ts)
        BY <3>1
      <4> QED
        <5>1. Typed(ts) /\ Typed(bs)
          BY <1>11, <1>12
        <5>2. \A j \in 0..Len(ts) : f[j] \in Nat
          BY <1>13, <5>1, InflatedOrder
        <5> QED
          BY <4>1, <5>2
    <3>4. Joined(ts, k) => f[k] - 1 \in 1..Len(bs)
      <4>1. f[k] \in 1..Len(bs)
        BY <1>17, <3>1
      <4>2. f[k] \in Nat /\ f[k] <= Len(bs)
        BY <1>14, <4>1
      <4>3. Joined(ts, k) => f[k] - 1 = f[k - 1] + 1
        BY <3>2, <3>3
      <4> QED
        BY <1>14, <3>3, <4>2, <4>3
    <3>5. Joined(ts, k) => us[f[k] - 1] = bs[f[k] - 1]
      BY <1>15, <1>16, <3>2, <3>4
    <3> QED
      BY <1>17, <3>1, <3>2, <3>5
  <2> QED
    BY <2>1, <2>2 DEF Inflates
<1> QED
  BY <1>10, <1>11, <1>15, <1>18

----------------------------------------------------------------------------
\* A sequence of operands: it reads as an expression, and all of them must hold.
Operands(ts) == Len(ts) > 0 /\ \A i \in 1..Len(ts) : ts[i].type \in OperandTypes
LEMMA FlatDepth ==
    ASSUME NEW ts, Typed(ts), Operands(ts), NEW i \in 1..Len(ts) + 1
    PROVE  Depth(ts, i) = 0
<1>1. \A k \in 1..i - 1 : ts[k].type \notin {Open, Close}
  <2>1. \A k \in 1..i - 1 : k \in 1..Len(ts)
    BY DEF Typed
  <2> QED
    BY <2>1, OperandFacts DEF Operands
<1> DEFINE A == {k \in 1..i - 1 : ts[k].type = Open}
           B == {k \in 1..i - 1 : ts[k].type = Close}
<1>2. A = {} /\ B = {}
  BY <1>1
<1>3. Depth(ts, i) = Cardinality(A) - Cardinality(B)
  BY DEF Depth
<1> HIDE DEF A, B
<1> QED
  BY <1>2, <1>3, FS_EmptySet

LEMMA OperandsRead ==
    ASSUME NEW ts, Typed(ts), Operands(ts), NEW juxtaposed, juxtaposed = TRUE
    PROVE  /\ Grammatical(ts, juxtaposed) /\ Usable(ts)
           /\ \A i \in 2..Len(ts) : ~(ts[i].type = Negation /\ ts[i - 1].type = Negation)
           /\ Term(ts, 0, 0) = 1..Len(ts) /\ Ors(ts, 0) = {} /\ Groups(ts) = {0}
<1>1. Len(ts) \in Nat /\ Len(ts) > 0 /\ DOMAIN ts = 1..Len(ts)
  BY DEF Typed, Operands
<1>2. \A i \in 1..Len(ts) : /\ StartsFactor(ts[i]) /\ EndsFactor(ts[i])
                            /\ ts[i].type \notin {Negation, And, Or, Open, Close}
  <2>1. ASSUME NEW i \in 1..Len(ts)
        PROVE  StartsFactor(ts[i]) /\ EndsFactor(ts[i]) /\ ts[i].type \notin {Negation, And, Or, Open, Close}
    <3>1. ts[i].type \in OperandTypes /\ ts[i].type \in TokenTypes
      BY DEF Operands, TokenTypes
    <3> QED
      BY <3>1, TokenFacts, OperandFacts
  <2> QED
    BY <2>1
<1>3. \A i \in 1..Len(ts) + 1 : Depth(ts, i) = 0
  BY FlatDepth
<1>4. \A i \in 2..Len(ts) : i \in 1..Len(ts) /\ i - 1 \in 1..Len(ts)
  BY <1>1
<1>5. \A i \in 1..Len(ts) : ~IsNegated(ts, i)
  BY <1>1, <1>2 DEF IsNegated
<1>6. Grammatical(ts, juxtaposed)
  <2>1. ts # <<>>
    <3>1. Len(<<>>) = 0
      OBVIOUS
    <3> QED
      BY <1>1, <3>1
  <2>2. StartsFactor(ts[1]) /\ EndsFactor(ts[Len(ts)])
    BY <1>1, <1>2
  <2>3. \A i \in 2..Len(ts) : Follows(ts[i], ts[i - 1], juxtaposed)
    BY <1>2, <1>4 DEF Follows
  <2>4. /\ \A i \in DOMAIN ts : Depth(ts, i + 1) >= 0
        /\ Depth(ts, Len(ts) + 1) = 0
    BY <1>1, <1>3
  <2> QED
    BY <2>1, <2>2, <2>3, <2>4 DEF Grammatical
<1>7. Groups(ts) = {0}
  BY <1>1, <1>2 DEF Groups
<1>8. \A i \in 1..Len(ts) : Encloses(ts, 0, i) /\ i \in Within(ts, 0)
  <2>1. PICK g : g = 0 /\ g + 1 \in 1..Len(ts) + 1
    BY <1>1
  <2>2. \A i \in 1..Len(ts) : Encloses(ts, g, i) /\ i \in Within(ts, g)
    BY <1>1, <1>3, <2>1 DEF Encloses, Within
  <2> QED
    BY <2>1, <2>2
<1>9. Ors(ts, 0) = {}
  BY <1>1, <1>2 DEF Ors, Within
<1>10. Term(ts, 0, 0) = 1..Len(ts)
  <2>1. Factors(ts, 0) = 1..Len(ts)
    BY <1>1, <1>2, <1>5, <1>8 DEF Factors, Within
  <2> QED
    BY <1>9, <2>1 DEF Term
<1>11. Usable(ts)
  BY <1>1, <1>5, <1>7, <1>9 DEF Usable, MustHold, IsNegated
<1>12. \A i \in 2..Len(ts) : ~(ts[i].type = Negation /\ ts[i - 1].type = Negation)
  BY <1>2, <1>4
<1> QED
  BY <1>6, <1>7, <1>9, <1>10, <1>11, <1>12

LEMMA OperandsSelect ==
    ASSUME NEW ts, Typed(ts), Operands(ts), NEW R, NEW r \in R
    PROVE  r \in Selected(ts, R) <=> \A i \in 1..Len(ts) : Holds(ts[i], r)
<1>1. Len(ts) \in Nat /\ Len(ts) > 0 /\ ts[Len(ts)].type # Negation
  BY OperandFacts DEF Typed, Operands
<1>2. PICK h : IsSelection(h, ts, R) /\ Selected(ts, R) = h[0]
  BY <1>1, SelectedIs
<1>3. h[0] = Picked(ts, R, h, 0) /\ \A i \in 1..Len(ts) : h[i] = Picked(ts, R, h, i)
  BY <1>1, <1>2 DEF IsSelection
<1>4. Term(ts, 0, 0) = 1..Len(ts) /\ Ors(ts, 0) = {} /\ Groups(ts) = {0}
  BY OperandsRead
<1>5. r \in h[0] <=> \A i \in 1..Len(ts) : r \in h[i]
  BY <1>3, <1>4 DEF Picked
<1>6. ASSUME NEW i \in 1..Len(ts) PROVE r \in h[i] <=> Holds(ts[i], r)
  <2>1. i \notin Groups(ts) /\ ts[i].type # Negation
    BY <1>4, OperandFacts DEF Operands
  <2> QED
    BY <1>3, <2>1 DEF Picked
<1> QED
  BY <1>2, <1>5, <1>6

----------------------------------------------------------------------------
(***************************************************************************)
(* An operand after an expression without an OR that is not in a group:    *)
(* it is one more of what must hold.                                       *)
(***************************************************************************)
Appended(us, ts, t) ==
    /\ Typed(us) /\ Len(us) = Len(ts) + 1 /\ us[Len(us)] = t
    /\ \A i \in 1..Len(ts) : us[i] = ts[i]

LEMMA AppendedDepth ==
    ASSUME NEW ts, Typed(ts), NEW j, Grammatical(ts, j), NEW t, t.type \in OperandTypes,
           NEW us, Appended(us, ts, t)
    PROVE  /\ \A i \in 1..Len(ts) + 1 : Depth(us, i) = Depth(ts, i)
           /\ Depth(us, Len(ts) + 1) = 0 /\ Depth(us, Len(us) + 1) = 0
           /\ \A i \in 1..Len(ts) + 1 : Depth(us, i) >= 0
<1>1. Len(ts) \in Nat /\ Len(us) = Len(ts) + 1 /\ DOMAIN ts = 1..Len(ts)
  BY DEF Typed, Appended
<1>2. ASSUME NEW i \in 1..Len(ts) + 1 PROVE Depth(us, i) = Depth(ts, i)
  <2>1. i \in Nat \ {0} /\ \A k \in 1..i - 1 : us[k].type = ts[k].type
    BY <1>1 DEF Appended
  <2> QED
    BY <2>1, DepthBefore
<1>3. Depth(ts, Len(ts) + 1) = 0
  BY DEF Grammatical
<1>4. Depth(us, Len(ts) + 1) = 0
  BY <1>1, <1>2, <1>3
<1>5. Depth(us, Len(us) + 1) = 0
  <2>1. us[Len(us)].type \notin {Open, Close} /\ Len(us) \in Nat \ {0}
    BY <1>1, OperandFacts DEF Appended
  <2> QED
    BY <1>1, <1>4, <2>1, DepthFacts
<1>6. ASSUME NEW i \in 1..Len(ts) + 1 PROVE Depth(us, i) >= 0
  <2>1. CASE i = 1
    <3>1. PICK n \in Nat \ {0} : n = 1
      OBVIOUS
    <3>2. Depth(us, 1) = 0
      BY <3>1, DepthFacts
    <3> QED
      BY <2>1, <3>2
  <2>2. CASE i # 1
    <3>1. PICK k \in DOMAIN ts : k + 1 = i
      <4>1. i - 1 \in DOMAIN ts /\ i - 1 + 1 = i
        BY <1>1, <2>2
      <4> QED
        BY <4>1
    <3>2. Depth(ts, k + 1) >= 0
      BY DEF Grammatical
    <3> QED
      BY <1>2, <3>1, <3>2
  <2> QED
    BY <2>1, <2>2
<1> QED
  BY <1>2, <1>4, <1>5, <1>6

LEMMA AppendedGrammar ==
    ASSUME NEW ts, Typed(ts), NEW j, Grammatical(ts, j), j = TRUE, NEW t, t.type \in OperandTypes,
           NEW us, Appended(us, ts, t)
    PROVE  Grammatical(us, j)
<1>1. /\ Len(ts) \in Nat /\ Len(ts) > 0 /\ Len(us) = Len(ts) + 1 /\ DOMAIN us = 1..Len(us)
      /\ DOMAIN ts = 1..Len(ts)
  <2>1. Len(ts) \in Nat \ {0}
    BY GrammarFacts
  <2> QED
    BY <2>1 DEF Typed, Appended
<1>2. t.type \in TokenTypes
  BY DEF TokenTypes
<1>3. StartsFactor(t) /\ EndsFactor(t)
  BY <1>2, TokenFacts
<1>4. us # <<>>
  <2>1. Len(<<>>) = 0
    OBVIOUS
  <2> QED
    BY <1>1, <2>1
<1>5. StartsFactor(us[1]) /\ EndsFactor(us[Len(us)])
  <2>1. 1 \in 1..Len(ts)
    BY <1>1
  <2> QED
    BY <1>3, <2>1 DEF Grammatical, Appended
<1>6. ASSUME NEW i \in 2..Len(us) PROVE Follows(us[i], us[i - 1], j)
  <2>1. CASE i = Len(us)
    <3>1. i - 1 = Len(ts) /\ Len(ts) \in 1..Len(ts) /\ us[i] = t
      BY <1>1, <2>1 DEF Appended
    <3>2. us[i - 1] = ts[Len(ts)]
      BY <3>1 DEF Appended
    <3> QED
      BY <1>3, <3>1, <3>2 DEF Grammatical, Follows
  <2>2. CASE i # Len(us)
    <3>1. i \in 2..Len(ts) /\ i \in 1..Len(ts) /\ i - 1 \in 1..Len(ts)
      BY <1>1, <2>2
    <3>2. us[i] = ts[i] /\ us[i - 1] = ts[i - 1]
      BY <3>1 DEF Appended
    <3> QED
      BY <3>1, <3>2 DEF Grammatical
  <2> QED
    BY <2>1, <2>2
<1>7. /\ \A i \in 1..Len(ts) + 1 : Depth(us, i) >= 0
      /\ Depth(us, Len(us) + 1) = 0
  BY AppendedDepth
<1>8. \A i \in DOMAIN us : Depth(us, i + 1) >= 0
  BY <1>1, <1>7
<1> QED
  BY <1>4, <1>5, <1>6, <1>7, <1>8 DEF Grammatical

\* The groups that a parenthesis opens are as they were, and the operand is in none.
LEMMA AppendedGroups ==
    ASSUME NEW ts, Typed(ts), NEW j, Grammatical(ts, j), NEW t, t.type \in OperandTypes,
           NEW us, Appended(us, ts, t)
    PROVE  /\ Groups(us) = Groups(ts)
           /\ \A g \in 0..Len(ts), i \in 1..Len(ts) :
                 /\ Encloses(us, g, i) <=> Encloses(ts, g, i)
                 /\ i \in Within(us, g) <=> i \in Within(ts, g)
           /\ \A g \in Groups(ts) : g # 0 => ~Encloses(us, g, Len(us)) /\ Len(us) \notin Within(us, g)
           /\ Encloses(us, 0, Len(us)) /\ Len(us) \in Within(us, 0)
           /\ \A i \in 1..Len(ts) : IsNegated(us, i) <=> IsNegated(ts, i)
           /\ ~IsNegated(us, Len(us))
<1>1. /\ Len(ts) \in Nat /\ Len(ts) > 0 /\ Len(us) = Len(ts) + 1 /\ DOMAIN us = 1..Len(us)
      /\ DOMAIN ts = 1..Len(ts) /\ us[Len(us)] = t
  BY GrammarFacts DEF Typed, Appended
<1>2. /\ \A i \in 1..Len(ts) + 1 : Depth(us, i) = Depth(ts, i)
      /\ Depth(us, Len(ts) + 1) = 0
      /\ \A i \in 1..Len(ts) + 1 : Depth(us, i) >= 0
  BY AppendedDepth
<1>3. \A i \in 1..Len(ts) : us[i] = ts[i]
  BY DEF Appended
<1>4. Groups(us) = Groups(ts)
  <2>1. us[Len(us)].type # Open
    BY <1>1, OperandFacts
  <2>2. \A i : i \in DOMAIN us <=> i \in DOMAIN ts \/ i = Len(us)
    BY <1>1
  <2> QED
    BY <1>1, <1>3, <2>1, <2>2 DEF Groups
<1>5. ASSUME NEW g \in 0..Len(ts), NEW i \in 1..Len(ts)
      PROVE  /\ Encloses(us, g, i) <=> Encloses(ts, g, i)
             /\ i \in Within(us, g) <=> i \in Within(ts, g)
  <2>1. /\ g + 1 \in 1..Len(ts) + 1 /\ i \in 1..Len(ts) + 1 /\ i \in DOMAIN us /\ i \in DOMAIN ts
        /\ \A k \in g + 1..i : k \in 1..Len(ts) + 1
    BY <1>1
  <2>2. /\ Depth(us, g + 1) = Depth(ts, g + 1) /\ Depth(us, i) = Depth(ts, i)
        /\ \A k \in g + 1..i : Depth(us, k) = Depth(ts, k)
    BY <1>2, <2>1
  <2>3. Encloses(us, g, i) <=> Encloses(ts, g, i)
    BY <2>2 DEF Encloses
  <2> QED
    BY <2>1, <2>2, <2>3 DEF Within
<1>6. ASSUME NEW g \in Groups(ts), g # 0 PROVE ~Encloses(us, g, Len(us))
  <2>1. g \in 1..Len(ts) /\ ts[g].type = Open /\ g \in Nat \ {0}
    BY <1>1, <1>6 DEF Groups
  <2>2. us[g].type = Open /\ Depth(us, g) >= 0 /\ Depth(us, g) \in Int
    BY <1>1, <1>2, <1>3, <2>1, DepthFacts
  <2>3. Depth(us, g + 1) = Depth(us, g) + 1
    BY <2>1, <2>2, DepthFacts
  <2>4. Len(us) \in g + 1..Len(us)
    BY <1>1, <2>1
  <2> QED
    BY <1>1, <1>2, <2>2, <2>3, <2>4 DEF Encloses
<1>7. Encloses(us, 0, Len(us)) /\ Len(us) \in Within(us, 0)
  <2>1. PICK g : g = 0 /\ g + 1 = 1
    OBVIOUS
  <2>2. Depth(us, g + 1) = 0
    <3>1. PICK n \in Nat \ {0} : n = 1
      OBVIOUS
    <3>2. Depth(us, 1) = 0
      BY <3>1, DepthFacts
    <3> QED
      BY <2>1, <3>2
  <2>3. \A k \in g + 1..Len(us) : Depth(us, k) >= 0
    BY <1>1, <1>2, <2>1
  <2>4. Depth(us, Len(us)) = 0 /\ Len(us) \in DOMAIN us /\ g < Len(us)
    BY <1>1, <1>2, <2>1
  <2>5. Encloses(us, g, Len(us)) /\ Len(us) \in Within(us, g)
    BY <2>2, <2>3, <2>4 DEF Encloses, Within
  <2> QED
    BY <2>1, <2>5
<1>8. ASSUME NEW i \in 1..Len(ts) PROVE IsNegated(us, i) <=> IsNegated(ts, i)
  <2>1. i > 1 => us[i - 1] = ts[i - 1]
    <3>1. i > 1 => i - 1 \in 1..Len(ts)
      BY <1>1
    <3> QED
      BY <1>3, <3>1
  <2> QED
    BY <2>1 DEF IsNegated
<1>9. ~IsNegated(us, Len(us))
  <2>1. us[Len(us) - 1] = ts[Len(ts)] /\ ts[Len(ts)].type # Negation
    <3>1. Len(us) - 1 = Len(ts) /\ Len(ts) \in 1..Len(ts)
      BY <1>1
    <3> QED
      BY <1>3, <3>1, GrammarFacts
  <2> QED
    BY <2>1 DEF IsNegated
<1> QED
  BY <1>4, <1>5, <1>6, <1>7, <1>8, <1>9 DEF Within

----------------------------------------------------------------------------
LEMMA AppendedParts ==
    ASSUME NEW ts, Typed(ts), NEW j, Grammatical(ts, j), NEW t, t.type \in OperandTypes,
           NEW us, Appended(us, ts, t), NEW g \in Groups(ts)
    PROVE  /\ Ors(us, g) = Ors(ts, g)
           /\ g # 0 => Factors(us, g) = Factors(ts, g)
           /\ g # 0 => \A o : Term(us, g, o) = Term(ts, g, o)
           /\ Factors(us, 0) = Factors(ts, 0) \cup {Len(us)}
           /\ Ors(ts, 0) = {} => Term(us, 0, 0) = Term(ts, 0, 0) \cup {Len(us)}
<1>1. /\ Len(ts) \in Nat /\ Len(us) = Len(ts) + 1 /\ DOMAIN us = 1..Len(us)
      /\ DOMAIN ts = 1..Len(ts) /\ us[Len(us)] = t
  BY DEF Typed, Appended
<1>2. /\ \A a \in 0..Len(ts), i \in 1..Len(ts) :
            /\ Encloses(us, a, i) <=> Encloses(ts, a, i)
            /\ i \in Within(us, a) <=> i \in Within(ts, a)
      /\ \A a \in Groups(ts) : a # 0 => ~Encloses(us, a, Len(us)) /\ Len(us) \notin Within(us, a)
      /\ Encloses(us, 0, Len(us)) /\ Len(us) \in Within(us, 0)
      /\ \A i \in 1..Len(ts) : IsNegated(us, i) <=> IsNegated(ts, i)
      /\ ~IsNegated(us, Len(us))
  BY AppendedGroups
<1>3. \A i \in 1..Len(ts) : us[i] = ts[i]
  BY DEF Appended
<1>4. t.type # Or /\ StartsFactor(t)
  <2>1. t.type \in TokenTypes
    BY DEF TokenTypes
  <2> QED
    BY <2>1, TokenFacts, OperandFacts
<1>5. \A a \in Groups(ts) : a \in 0..Len(ts)
  BY <1>1 DEF Groups
<1>6. ASSUME NEW a \in Groups(ts)
      PROVE  /\ \A i : i \in Ors(us, a) <=> i \in Ors(ts, a)
             /\ \A i : i \in Factors(us, a) <=> i \in Factors(ts, a) \/ (i = Len(us) /\ a = 0)
  <2>1. a \in 0..Len(ts)
    BY <1>5
  <2>2. \A i : /\ i \in Within(us, a) => i \in 1..Len(ts) \/ i = Len(us)
               /\ i \in Within(ts, a) => i \in 1..Len(ts)
               /\ i \in 1..Len(ts) => (i \in Within(us, a) <=> i \in Within(ts, a))
               /\ i \in 1..Len(ts) => i # Len(us)
    <3>1. \A i : i \in DOMAIN us <=> i \in 1..Len(ts) \/ i = Len(us)
      BY <1>1
    <3>2. \A i \in 1..Len(ts) : i # Len(us)
      BY <1>1
    <3> QED
      BY <1>1, <1>2, <2>1, <3>1, <3>2 DEF Within
  <2>3. Len(us) \in Within(us, a) <=> a = 0
    BY <1>2
  <2>4. \A i : i \in Ors(us, a) <=> i \in Ors(ts, a)
    BY <1>1, <1>3, <1>4, <2>2 DEF Ors
  <2>5. \A i : i \in Factors(us, a) <=> i \in Factors(ts, a) \/ (i = Len(us) /\ a = 0)
    BY <1>1, <1>2, <1>3, <1>4, <2>2, <2>3 DEF Factors
  <2> QED
    BY <2>4, <2>5
<1>7. 0 \in Groups(ts)
  BY DEF Groups
<1>8. Ors(us, g) = Ors(ts, g) /\ (g # 0 => Factors(us, g) = Factors(ts, g))
  BY <1>6
<1>9. Factors(us, 0) = Factors(ts, 0) \cup {Len(us)} /\ Ors(us, 0) = Ors(ts, 0)
  BY <1>6, <1>7
<1>10. ASSUME Ors(ts, 0) = {} PROVE Term(us, 0, 0) = Term(ts, 0, 0) \cup {Len(us)}
  <2>1. Term(us, 0, 0) = {i \in Factors(us, 0) : 0 < i} /\ Term(ts, 0, 0) = {i \in Factors(ts, 0) : 0 < i}
    BY <1>9, <1>10 DEF Term
  <2>2. 0 < Len(us)
    BY <1>1
  <2> QED
    BY <1>9, <2>1, <2>2
<1> QED
  BY <1>8, <1>9, <1>10 DEF Term

LEMMA AppendedUsable ==
    ASSUME NEW ts, Typed(ts), NEW j, Grammatical(ts, j), NEW t, t.type \in OperandTypes,
           NEW us, Appended(us, ts, t), Usable(ts), Ors(ts, 0) = {}
    PROVE  Usable(us)
<1>1. /\ Len(ts) \in Nat /\ Len(us) = Len(ts) + 1 /\ DOMAIN us = 1..Len(us)
      /\ DOMAIN ts = 1..Len(ts) /\ us[Len(us)] = t /\ \A i \in 1..Len(ts) : us[i] = ts[i]
  BY DEF Typed, Appended
<1>2. /\ Groups(us) = Groups(ts)
      /\ \A a \in 0..Len(ts), i \in 1..Len(ts) :
            /\ Encloses(us, a, i) <=> Encloses(ts, a, i)
            /\ i \in Within(us, a) <=> i \in Within(ts, a)
      /\ \A a \in Groups(ts) : a # 0 => ~Encloses(us, a, Len(us)) /\ Len(us) \notin Within(us, a)
      /\ \A i \in 1..Len(ts) : IsNegated(us, i) <=> IsNegated(ts, i)
      /\ ~IsNegated(us, Len(us))
  BY AppendedGroups
<1>3. \A g \in Groups(ts) : Ors(us, g) = Ors(ts, g) /\ g \in 0..Len(ts)
  <2>1. \A g \in Groups(ts) : Ors(us, g) = Ors(ts, g)
    BY AppendedParts
  <2> QED
    BY <1>1, <2>1 DEF Groups
<1>4. ~IsNegated(us, 0) /\ ~IsNegated(ts, 0)
  BY DEF IsNegated
<1>5. \A g \in Groups(ts) : IsNegated(us, g) <=> IsNegated(ts, g)
  BY <1>2, <1>4, <1>1 DEF Groups
<1>6. ASSUME NEW i \in DOMAIN us, us[i].type = ContentContains
      PROVE  /\ ~IsNegated(us, i)
             /\ \A g \in Groups(us) : Encloses(us, g, i) => Ors(us, g) = {} /\ ~IsNegated(us, g)
  <2>1. CASE i = Len(us)
    BY <1>2, <1>3, <1>4, <2>1
  <2>2. CASE i # Len(us)
    <3>1. i \in 1..Len(ts) /\ ts[i].type = ContentContains
      BY <1>1, <1>6, <2>2
    <3>2. /\ ~IsNegated(ts, i)
          /\ \A g \in Groups(ts) : Encloses(ts, g, i) => Ors(ts, g) = {} /\ ~IsNegated(ts, g)
      BY <1>1, <3>1 DEF Usable, MustHold
    <3> QED
      BY <1>2, <1>3, <1>5, <3>1, <3>2
  <2> QED
    BY <2>1, <2>2
<1> QED
  BY <1>6 DEF Usable, MustHold

LEMMA AppendedSelects ==
    ASSUME NEW ts, Typed(ts), NEW j, Grammatical(ts, j), NEW t, t.type \in OperandTypes,
           NEW us, Appended(us, ts, t), Ors(ts, 0) = {}, NEW R, NEW r \in R
    PROVE  r \in Selected(us, R) <=> r \in Selected(ts, R) /\ Holds(t, r)
<1>1. /\ Len(ts) \in Nat /\ Len(ts) > 0 /\ Len(us) = Len(ts) + 1 /\ DOMAIN us = 1..Len(us)
      /\ DOMAIN ts = 1..Len(ts) /\ us[Len(us)] = t /\ \A i \in 1..Len(ts) : us[i] = ts[i]
      /\ Typed(us)
  BY GrammarFacts DEF Typed, Appended
<1>2. /\ ts[Len(ts)].type # Negation /\ us[Len(us)].type # Negation /\ Len(us) > 0
      /\ \A i \in 1..Len(ts) : ts[i].type = Negation => i + 1 \in 1..Len(ts) /\ StartsFactor(ts[i + 1])
  BY <1>1, GrammarFacts, OperandFacts
<1>3. PICK g : IsSelection(g, ts, R) /\ Selected(ts, R) = g[0]
  BY <1>1, <1>2, SelectedIs
<1>4. PICK h : IsSelection(h, us, R) /\ Selected(us, R) = h[0]
  BY <1>1, <1>2, SelectedIs
<1>5. PICK f : f = [i \in 0..Len(ts) |-> i]
  OBVIOUS
<1>6. /\ f \in [0..Len(ts) -> 0..Len(us)]
      /\ \A i \in 0..Len(ts) : f[i] = i
  BY <1>1, <1>5
<1>7. Groups(us) = Groups(ts) /\ 0 \in Groups(ts)
  BY AppendedGroups DEF Groups
<1>8. \A a \in Groups(ts) :
         /\ Ors(us, a) = Ors(ts, a)
         /\ a # 0 => \A o : Term(us, a, o) = Term(ts, a, o)
         /\ Term(us, 0, 0) = Term(ts, 0, 0) \cup {Len(us)}
  BY AppendedParts
<1>9. ASSUME NEW i \in 1..Len(ts), StartsFactor(ts[i]) PROVE Mirrors(f, ts, us, i)
  <2>1. i \in 0..Len(ts) /\ f[i] = i /\ i # 0 /\ us[i] = ts[i]
    BY <1>1, <1>6
  <2>2. \A S \in SUBSET (0..Len(ts)) : Places(f, S) = S
    BY <1>6 DEF Places
  <2>3. i \in Groups(ts) => Ors(ts, i) \in SUBSET (0..Len(ts)) /\ \A o : Term(ts, i, o) \in SUBSET (0..Len(ts))
    BY <1>1 DEF Ors, Term, Factors, Within
  <2>4. i \in Groups(ts) =>
          /\ Ors(us, f[i]) = Places(f, Ors(ts, i))
          /\ \A o \in {i} \cup Ors(ts, i) : Term(us, f[i], f[o]) = Places(f, Term(ts, i, o))
    <3>1. \A o \in {i} \cup Ors(ts, i) : i \in Groups(ts) => f[o] = o
      BY <1>6, <2>1, <2>3
    <3> QED
      BY <1>8, <2>1, <2>2, <2>3, <3>1
  <2>5. ts[i].type = Negation => f[i + 1] = f[i] + 1 /\ i + 1 \in 1..Len(ts) /\ StartsFactor(ts[i + 1])
    <3>1. ASSUME ts[i].type = Negation PROVE f[i + 1] = i + 1
      <4>1. i + 1 \in 0..Len(ts)
        BY <1>1, <1>2, <3>1
      <4> QED
        BY <1>6, <4>1
    <3> QED
      BY <1>2, <2>1, <3>1
  <2> QED
    BY <1>7, <2>1, <2>4, <2>5 DEF Mirrors
<1>10. AlikeRows(ts, r, r)
  BY DEF AlikeRows
<1>11. AgreeFrom(1, f, ts, r, g, r, h)
  BY <1>1, <1>3, <1>4, <1>6, <1>9, <1>10, SameFactors DEF FactorsMirror
<1>12. \A k \in 1..Len(ts) : StartsFactor(ts[k]) => (r \in g[k] <=> r \in h[k])
  BY <1>1, <1>6, <1>11 DEF AgreeFrom
<1>13. g[0] = Picked(ts, R, g, 0) /\ h[0] = Picked(us, R, h, 0) /\ h[Len(us)] = Picked(us, R, h, Len(us))
  BY <1>1, <1>3, <1>4 DEF IsSelection
<1>14. r \in g[0] <=> \A k \in Term(ts, 0, 0) : r \in g[k]
  BY <1>7, <1>13 DEF Picked
<1>15. r \in h[0] <=> \A k \in Term(ts, 0, 0) \cup {Len(us)} : r \in h[k]
  BY <1>7, <1>8, <1>13 DEF Picked
<1>16. \A k \in Term(ts, 0, 0) : k \in 1..Len(ts) /\ StartsFactor(ts[k])
  BY <1>1 DEF Term, Factors, Within
<1>17. r \in h[Len(us)] <=> Holds(t, r)
  <2>1. Len(us) \notin Groups(us)
    BY <1>1, OperandFacts DEF Groups
  <2> QED
    BY <1>1, <1>2, <1>13, <2>1 DEF Picked
<1> QED
  BY <1>3, <1>4, <1>12, <1>14, <1>15, <1>16, <1>17

----------------------------------------------------------------------------
\* The search of the content for the words of the line.
AsksContent(q) ==
    /\ q.tokens = WordTokens /\ q.error = FALSE /\ q.sort = {}
    /\ q.mask = (MaskOf(LineFilters) \cup Word) \cup ContentContains

LEMMA WordsRun ==
    ASSUME expression \in Seq(Lexemes), "size" \notin Kinds, "toc" \notin Kinds,
           Grammatical(WithContent, TRUE), NEW q, AsksContent(q)
    PROVE  Gives(RunQuery(q), WithContent, PathsOf(Selected(WithContent, RowsFor(TRUE))))
<1>1. PICK vs : vs = WithContent
  OBVIOUS
<1>2. PICK us : us = WordTokens
  OBVIOUS
<1>3. Typed(vs) /\ Typed(us) /\ \E f : Inflates(f, vs, us)
  BY <1>1, <1>2, WordsInflate
<1>4. PICK f : Inflates(f, vs, us)
  BY <1>3
<1>5. Grammatical(vs, TRUE)
  BY <1>1
<1>6. Grammatical(us, FALSE) /\ (Usable(vs) => Usable(us))
  BY <1>3, <1>4, <1>5, InflatedGrammar, InflatedUsable
<1>7. us # <<>>
  BY <1>6 DEF Grammatical
<1>8. JoinsContent(q) /\ ~JoinsOutline(q)
  <2>1. 512 \in q.mask
    BY DEF AsksContent, ContentContains
  <2> QED
    BY <2>1 DEF JoinsContent, JoinsOutline, HasContentSearch, FilterContent
<1>9. ASSUME NEW k \in 1..Len(vs)
      PROVE  vs[k].type \in (Searched \ {OutlineContains}) \cup {And, Or, Negation, Open, Close}
  <2>1. PICK ls : ls = LineFilters
    OBVIOUS
  <2>2. PICK T : T = TokensOf(expression, PathContains, {"sort", "word"})
    OBVIOUS
  <2>3. /\ ls \in Seq(T) /\ Len(ls) \in Nat
        /\ \A i \in 1..Len(ls) : /\ ls[i].type \in Searched \cup {And, Or, Negation, Open, Close}
                                 /\ ls[i].type = OutlineContains => "toc" \in Kinds
    BY <2>1, <2>2, LineTokens DEF Typed
  <2>4. PICK c : c = Token(ContentContains, WordsUp)
    OBVIOUS
  <2>5. vs = Append(ls, c)
    BY <1>1, <2>1, <2>4 DEF WithContent
  <2>6. /\ Len(vs) = Len(ls) + 1 /\ vs[Len(vs)] = c
        /\ \A i \in 1..Len(ls) : vs[i] = ls[i]
    BY <2>3, <2>5, OneMore
  <2>7. CASE k \in 1..Len(ls)
    BY <2>3, <2>6, <2>7
  <2>8. CASE k = Len(ls) + 1
    <3>1. vs[k].type = ContentContains
      BY <2>4, <2>6, <2>8 DEF Token
    <3> QED
      BY <3>1, SearchedTypes
  <2> QED
    BY <2>3, <2>6, <2>7, <2>8
<1>10. ASSUME NEW i \in DOMAIN us PROVE Known(q, us[i])
  <2>1. i \in 1..Len(us)
    BY <1>3 DEF Typed
  <2>2. Typed(vs) /\ Typed(us) /\ Inflates(f, vs, us)
    BY <1>3, <1>4
  <2>3. PICK k \in 1..Len(vs) :
           i = f[k] \/ (i = f[k] - 1 /\ f[k] = f[k - 1] + 2 /\ us[i].type = And)
    BY <2>1, <2>2, InflatedPlaces
  <2>4. CASE us[i].type = And
    BY <2>4, SearchedTypes DEF Known
  <2>5. CASE i = f[k]
    <3>1. us[i] = vs[k]
      BY <1>4, <2>5 DEF Inflates
    <3>2. us[i].type \notin {Word, PathSize, OutlineContains}
      BY <1>9, <3>1, SearchedTypes DEF Searched
    <3> QED
      BY <1>8, <3>2 DEF Known
  <2> QED
    BY <2>3, <2>4, <2>5
<1>11. q.tokens = us /\ q.error = FALSE /\ Sortable(q)
  BY <1>2 DEF AsksContent, Sortable
<1>12. ~(\/ q.error
         \/ q.tokens = <<>>
         \/ \E i \in DOMAIN q.tokens : ~Known(q, q.tokens[i])
         \/ ~Grammatical(q.tokens, FALSE)
         \/ ~Sortable(q))
  BY <1>6, <1>7, <1>10, <1>11
<1>13. \/ RunQuery(q) = Found({r.file.path : r \in Selected(q.tokens, Rows(q))})
       \/ ~Usable(q.tokens) /\ RunQuery(q) = Error
  BY <1>12, Zenon DEF RunQuery
<1> DEFINE Few == RowsFor(TRUE)
<1>14. \A r : r \in Rows(q) <=> r \in Few
  <2>1. \A r : r \in Rows(q) <=>
           \E g \in Files : r \in [file : {g}, entry : {{}}, page : g.pages]
    BY <1>8 DEF Rows
  <2>2. \A r : r \in Few <=>
           \E g \in Files : r \in [file : {g}, entry : {{}}, page : g.pages]
    BY DEF RowsFor
  <2> QED
    BY <2>1, <2>2
<1>15. /\ \A r \in Selected(vs, Few) : r \in Few
       /\ \A r \in Selected(us, Rows(q)) : r \in Rows(q)
  <2>1. PICK a, b : a = TRUE /\ b = FALSE
    OBVIOUS
  <2>2. Grammatical(vs, a) /\ Grammatical(us, b)
    BY <1>5, <1>6, <2>1
  <2>3. Len(vs) \in Nat \ {0} /\ vs[Len(vs)].type # Negation
    BY <1>3, <2>2, GrammarFacts
  <2>4. Len(us) \in Nat \ {0} /\ us[Len(us)].type # Negation
    BY <1>3, <2>2, GrammarFacts
  <2>5. Len(vs) > 0 /\ Len(us) > 0
    BY <2>3, <2>4
  <2> HIDE DEF Few
  <2> QED
    BY <1>3, <2>3, <2>4, <2>5, SelectedRows
<1> HIDE DEF Few
<1>16. ASSUME NEW r \in Few PROVE r \in Selected(vs, Few) <=> r \in Selected(us, Rows(q))
  <2>1. AlikeRows(vs, r, r) /\ r \in Rows(q)
    BY <1>14 DEF AlikeRows
  <2> QED
    BY <1>3, <1>4, <1>5, <2>1, InflatedSelection
<1>17. \A r : r \in Selected(vs, Few) <=> r \in Selected(us, Rows(q))
  BY <1>14, <1>15, <1>16
<1>18. {r.file.path : r \in Selected(q.tokens, Rows(q))} = PathsOf(Selected(vs, Few))
  BY <1>11, <1>17 DEF PathsOf
<1> QED
  BY <1>1, <1>6, <1>11, <1>13, <1>18 DEF Gives, Few

\* The search line with words among filters of the path: WordsAs.
LEMMA WordsAsked ==
    ASSUME NEW q, IsQuery(q), q.error = FALSE, q.sort = {}, q.tokens = AddAnds(Together),
           q.mask = MaskOf(LineFilters) \cup Word
    PROVE  AsksContent(WordsAs(q, ContentContains))
<1>1. PICK r : r = WordsAs(q, ContentContains)
  OBVIOUS
<1>2. /\ r.tokens = FinalTokens(q.tokens, ContentContains) /\ r.mask = q.mask \cup ContentContains
      /\ r.error = q.error /\ r.sort = q.sort
  BY <1>1 DEF WordsAs, IsQuery
<1> QED
  BY <1>1, <1>2 DEF AsksContent, WordTokens

LEMMA NoSorts ==
    ASSUME expression \in Seq(Lexemes), "sort" \notin Kinds
    PROVE  SortsAre = {} /\ SortedOnce(expression) /\ "content.text" \notin SortsAre
<1>1. \A i \in 1..Len(expression) : expression[i].kind # "sort"
  BY DEF Kinds
<1>2. {j \in 1..Len(expression) : expression[j].kind = "sort"} = {}
  BY <1>1
<1> QED
  BY <1>1, <1>2 DEF SortsAre, SortUpTo, SortedOnce

\* The lone words as they are searched for.
WordsIn == EscapeFtsArgument(WordsOf(expression))
LEMMA WordsHold ==
    ASSUME expression \in Seq(Lexemes), NEW r
    PROVE  Holds(Token(ContentContains, WordsUp), r) = (WordsIn \subseteq r.page.words)
<1>1. PICK t : t = Token(ContentContains, WordsUp)
  OBVIOUS
<1>2. t.type = ContentContains /\ t.value = WordsUp
  BY <1>1 DEF Token
<1> QED
  BY <1>1, <1>2, HoldsIs, WordsMerged DEF WordsIn

LEMMA LineIsContent ==
    ASSUME expression \in Seq(Lexemes), "word" \in Kinds, Kinds \cap PathKinds # {},
           Kinds \cap {"toc", "sort"} = {}, Sound(LineFilters), Ors(LineFilters, 0) = {}
    PROVE  Gives(LineEditSearch, LineFilters,
                 PathsOf({r \in Selected(LineFilters, RowsFor(TRUE)) : WordsIn \subseteq r.page.words}))
<1>1. PICK q : q = LineQuery
  OBVIOUS
<1>2. "size" \notin Kinds /\ "toc" \notin Kinds /\ "sort" \notin Kinds
  BY DEF Sound
<1>3. PICK ls : ls = LineFilters
  OBVIOUS
<1>4. PICK T : T = TokensOf(expression, PathContains, {"sort", "word"})
  OBVIOUS
<1>5. Typed(ls) /\ ls \in Seq(T) /\ Grammatical(ls, TRUE)
  BY <1>2, <1>3, <1>4, LineTokens DEF Sound
<1>6. PICK j : j = TRUE
  OBVIOUS
<1>7. Grammatical(ls, j)
  BY <1>5, <1>6
<1>8. NoClash(LineFilters)
  <2>1. \A i \in 2..Len(ls) : ~(ls[i].type = Negation /\ ls[i - 1].type = Negation)
    BY <1>3 DEF Sound
  <2> QED
    BY <1>3, <1>5, <1>7, <2>1, SoundNoClash
<1>9. CheckParanthesis(expression)
  <2>1. PICK L : L = {"sort", "word"}
    OBVIOUS
  <2>2. "sort" \in L /\ {"open", "close"} \cap L = {}
    BY <2>1
  <2>3. PICK type \in OperandTypes : type = PathContains
    BY DEF OperandTypes
  <2>4. Depth(Reading(expression, type, L), Len(Reading(expression, type, L)) + 1) = 0
    BY <1>3, <1>7, <2>1, <2>3 DEF Grammatical, LineFilters
  <2>5. \A i \in DOMAIN expression : ~expression[i].closing
    BY DEF Sound
  <2> QED
    BY <2>2, <2>4, <2>5, ParenthesesMatch
<1>10. expression # <<>>
  BY DEF Kinds
<1>11. /\ IsQuery(q) /\ q.error = FALSE /\ q.sort = SortsAre
       /\ q.tokens = AddAnds(Together) /\ q.mask = MaskOf(LineFilters) \cup Word
       /\ HasLoneWords(q) /\ HasPathSearch(q)
  BY <1>1, <1>2, <1>8, <1>9, <1>10, NoSorts, LineBuilt
<1>12. AsksContent(WordsAs(q, ContentContains))
  BY <1>2, <1>11, NoSorts, WordsAsked
<1>13. LineEditSearch = RunQuery(WordsAs(q, ContentContains))
  <2>1. AddsContentSearch(q) /\ ~AddsPathSearch(q)
    BY <1>11 DEF AddsContentSearch, AddsPathSearch
  <2>2. ContentQuery(q) = WordsAs(q, ContentContains)
    BY <1>11, <2>1 DEF ContentQuery
  <2> QED
    BY <1>1, <1>11, <2>1, <2>2 DEF LineEditSearch
<1>14. PICK c : c = Token(ContentContains, WordsUp)
  OBVIOUS
<1>15. PICK vs : vs = Append(ls, c)
  OBVIOUS
<1>16. vs = WithContent
  BY <1>3, <1>14, <1>15 DEF WithContent
<1>17. c.type \in OperandTypes /\ c.type \in TokenTypes /\ c.type = ContentContains
  BY <1>14 DEF Token, OperandTypes, TokenTypes
<1>18. Appended(vs, ls, c)
  <2>1. /\ Len(vs) = Len(ls) + 1 /\ vs[Len(vs)] = c
        /\ \A i \in 1..Len(ls) : vs[i] = ls[i]
    BY <1>5, <1>15, OneMore
  <2>2. Typed(vs)
    BY <1>2, <1>16, WordsInflate
  <2> QED
    BY <2>1, <2>2 DEF Appended
<1>19. Ors(ls, 0) = {}
  BY <1>3
<1>20. Grammatical(vs, j) /\ (Usable(ls) => Usable(vs))
  BY <1>5, <1>6, <1>7, <1>17, <1>18, <1>19, AppendedGrammar, AppendedUsable
<1>21. Gives(RunQuery(WordsAs(q, ContentContains)), vs, PathsOf(Selected(vs, RowsFor(TRUE))))
  BY <1>2, <1>6, <1>12, <1>16, <1>20, WordsRun
<1>22. PICK R : R = RowsFor(TRUE)
  OBVIOUS
<1>23. \A r \in R : r \in Selected(vs, R) <=> r \in Selected(ls, R) /\ Holds(c, r)
  BY <1>5, <1>7, <1>17, <1>18, <1>19, AppendedSelects
<1>24. /\ \A r \in Selected(vs, R) : r \in R
       /\ \A r \in Selected(ls, R) : r \in R
  <2>1. Typed(vs)
    BY <1>18 DEF Appended
  <2>2. Len(vs) \in Nat \ {0} /\ vs[Len(vs)].type # Negation
    BY <1>20, <2>1, GrammarFacts
  <2>3. Len(ls) \in Nat \ {0} /\ ls[Len(ls)].type # Negation
    BY <1>5, <1>7, GrammarFacts
  <2>4. Len(ls) > 0 /\ Len(vs) > 0
    BY <2>2, <2>3
  <2> QED
    BY <1>5, <2>1, <2>2, <2>3, <2>4, SelectedRows
<1>25. \A r : r \in Selected(vs, R) <=>
                r \in Selected(ls, R) /\ WordsIn \subseteq r.page.words
  BY <1>14, <1>23, <1>24, WordsHold
<1>26. Selected(vs, R) = {r \in Selected(ls, R) : WordsIn \subseteq r.page.words}
  BY <1>25
<1> QED
  BY <1>3, <1>13, <1>20, <1>21, <1>22, <1>26 DEF Gives

\* Lone words among filters of the path are one search of the content, within what the
\* filters find; or an error where one of these is a c: below OR or negated
\* (mainwindow.cpp:784-791).
THEOREM WordsAreContentTheorem == Spec => []WordsAreContent
<1>1. ASSUME SearchInv PROVE WordsAreContent
  <2> SUFFICES ASSUME answer.by = "line", "word" \in Kinds, Kinds \cap PathKinds # {},
                      Kinds \cap {"toc", "sort"} = {}, Sound(LineFilters), Ors(LineFilters, 0) = {}
               PROVE  Gives(answer.result, LineFilters,
                            PathsOf({r \in Selected(LineFilters, RowsFor(TRUE)) :
                                        WordsIn \subseteq r.page.words}))
    BY DEF WordsAreContent, LineFilters, WordsIn
  <2> QED
    BY <1>1, LineIsContent DEF SearchInv
<1> QED
  BY <1>1, SearchInvAlways, PTL

----------------------------------------------------------------------------
(***************************************************************************)
(* Words alone: both searches are of operands only.                        *)
(***************************************************************************)
OnlyWords == Kinds = {"word"} /\ \A i \in DOMAIN expression : ~expression[i].closing

LEMMA OnlyWordsFacts ==
    ASSUME expression \in Seq(Lexemes), OnlyWords
    PROVE  /\ expression # <<>> /\ CheckParanthesis(expression)
           /\ SortsAre = {} /\ SortedOnce(expression) /\ "content.text" \notin SortsAre
           /\ Kinds \cap ContentKinds = {} /\ Kinds \cap (PathKinds \cup {"size"}) = {}
           /\ "size" \notin Kinds /\ "toc" \notin Kinds
           /\ Len(LineFilters) = 0 /\ Typed(LineFilters) /\ NoClash(LineFilters)
<1>1. expression # <<>>
  BY DEF OnlyWords, Kinds
<1>2. \A i \in DOMAIN expression : expression[i].kind = "word" /\ ~expression[i].closing
  BY DEF OnlyWords, Kinds
<1>3. CheckParanthesis(expression)
  <2> DEFINE A == {i \in DOMAIN expression : expression[i].kind = "open"}
             B == {i \in DOMAIN expression : expression[i].kind = "close" \/ expression[i].closing}
  <2>1. A = {} /\ B = {}
    BY <1>2
  <2>2. CheckParanthesis(expression) <=> Cardinality(A) = Cardinality(B)
    BY DEF CheckParanthesis
  <2> HIDE DEF A, B
  <2> QED
    BY <2>1, <2>2
<1>4. /\ Kinds \cap ContentKinds = {} /\ Kinds \cap (PathKinds \cup {"size"}) = {}
      /\ "size" \notin Kinds /\ "toc" \notin Kinds /\ "sort" \notin Kinds
  BY DEF OnlyWords, ContentKinds, PathKinds
<1>5. /\ Typed(LineFilters)
      /\ \A i \in 1..Len(LineFilters) :
            \E k \in Taken(expression, {"sort", "word"}) : LineFilters[i] = TokenOf(expression[k], PathContains)
  BY <1>4, LineTokens
<1>6. Taken(expression, {"sort", "word"}) = {}
  BY <1>2 DEF Taken
<1>7. Len(LineFilters) = 0
  BY <1>5, <1>6 DEF Typed
<1>8. NoClash(LineFilters)
  BY <1>7 DEF NoClash
<1> QED
  BY <1>1, <1>3, <1>4, <1>5, <1>7, <1>8, NoSorts

LEMMA OnlyWordsContent ==
    ASSUME expression \in Seq(Lexemes), OnlyWords, NEW q, AsksContent(q)
    PROVE  RunQuery(q) = Found({f.path : f \in {g \in Files :
              \E page \in g.pages : WordsIn \subseteq page.words}})
<1>1. /\ Len(LineFilters) = 0 /\ "size" \notin Kinds /\ "toc" \notin Kinds
      /\ Kinds \cap ContentKinds = {}
  BY OnlyWordsFacts
<1>2. PICK ls, c, T : /\ ls = LineFilters /\ c = Token(ContentContains, WordsUp)
                      /\ T = TokensOf(expression, PathContains, {"sort", "word"})
  OBVIOUS
<1>3. ls \in Seq(T)
  BY <1>1, <1>2, LineTokens
<1>4. PICK vs : vs = Append(ls, c)
  OBVIOUS
<1>5. vs = WithContent
  BY <1>2, <1>4 DEF WithContent
<1>6. c.type = ContentContains /\ c.type \in OperandTypes
  BY <1>2 DEF Token, OperandTypes
<1>7. Len(vs) = 1 /\ vs[1] = c
  <2>1. Len(vs) = Len(ls) + 1 /\ vs[Len(vs)] = c
    BY <1>3, <1>4, OneMore
  <2> QED
    BY <1>1, <1>2, <2>1
<1>8. Typed(vs) /\ Operands(vs)
  BY <1>1, <1>5, <1>6, <1>7, WordsInflate DEF Operands
<1>9. PICK j : j = TRUE
  OBVIOUS
<1>10. Grammatical(vs, j) /\ Usable(vs)
  BY <1>8, <1>9, OperandsRead
<1>11. RunQuery(q) = Found(PathsOf(Selected(vs, RowsFor(TRUE))))
  BY <1>1, <1>5, <1>9, <1>10, WordsRun DEF Gives
<1>12. PICK R : R = RowsFor(TRUE)
  OBVIOUS
<1>13. \A r \in Selected(vs, R) : r \in R
  <2>1. Len(vs) > 0 /\ vs[Len(vs)].type # Negation
    BY <1>6, <1>7, OperandFacts
  <2> QED
    BY <1>8, <2>1, SelectedRows
<1>14. \A r \in R : r \in Selected(vs, R) <=> WordsIn \subseteq r.page.words
  <2>1. \A r \in R : r \in Selected(vs, R) <=> \A i \in 1..Len(vs) : Holds(vs[i], r)
    BY <1>8, OperandsSelect
  <2>2. \A r : Holds(c, r) = (WordsIn \subseteq r.page.words)
    BY <1>2, WordsHold
  <2>3. \A i : i \in 1..Len(vs) <=> i = 1
    BY <1>7
  <2> QED
    BY <1>7, <2>1, <2>2, <2>3
<1>15. \A r : r \in R <=> \E g \in Files : r \in [file : {g}, entry : {{}}, page : g.pages]
  BY <1>1, <1>12 DEF RowsFor
<1>16. ASSUME NEW r \in Selected(vs, R)
       PROVE  \E g \in Files : r.file.path = g.path /\ \E page \in g.pages : WordsIn \subseteq page.words
  <2>1. PICK g \in Files : r \in [file : {g}, entry : {{}}, page : g.pages]
    BY <1>13, <1>15
  <2>2. r.file = g /\ r.page \in g.pages
    BY <2>1
  <2> QED
    BY <1>13, <1>14, <2>2
<1>17. ASSUME NEW g \in Files, NEW page \in g.pages, WordsIn \subseteq page.words
       PROVE  g.path \in PathsOf(Selected(vs, R))
  <2>1. PICK r : r = [file |-> g, entry |-> {}, page |-> page]
    OBVIOUS
  <2>2. r \in [file : {g}, entry : {{}}, page : g.pages] /\ r.file = g /\ r.page = page
    BY <2>1
  <2>3. r \in Selected(vs, R)
    BY <1>14, <1>15, <1>17, <2>2
  <2> QED
    BY <2>2, <2>3 DEF PathsOf
<1>18. PathsOf(Selected(vs, R)) =
          {f.path : f \in {g \in Files : \E page \in g.pages : WordsIn \subseteq page.words}}
  BY <1>16, <1>17 DEF PathsOf
<1> QED
  BY <1>11, <1>12, <1>18

LEMMA OnlyWordsFilters ==
    ASSUME expression \in Seq(Lexemes), OnlyWords
    PROVE  /\ Typed(Filters) /\ Operands(Filters) /\ Sound(Filters) /\ Usable(Filters) /\ SortsFiles
           /\ \A i \in 1..Len(Filters) : Filters[i].type = PathContains
           /\ \A r : (\A i \in 1..Len(Filters) : Holds(Filters[i], r)) <=>
                        WordsOf(expression) \subseteq r.file.names
<1>1. PICK e, L, ts : e = expression /\ L = {"sort"} /\ ts = Filters
  OBVIOUS
<1>2. Len(e) \in Nat /\ DOMAIN e = 1..Len(e) /\ e \in Seq(Lexemes) /\ e # <<>>
  BY <1>1, OnlyWordsFacts
<1>3. \A k \in 1..Len(e) : e[k].kind = "word" /\ ~e[k].closing /\ e[k] \in Lexemes
  <2>1. \A k \in DOMAIN expression : expression[k].kind = "word"
    BY DEF OnlyWords, Kinds
  <2>2. \A k \in DOMAIN expression : ~expression[k].closing
    BY DEF OnlyWords
  <2>3. \A k \in 1..Len(e) : e[k] \in Lexemes
    BY <1>2
  <2> QED
    BY <1>1, <1>2, <2>1, <2>2, <2>3
<1>4. Typed(ts)
  BY <1>1, FiltersInflate
<1>5. ts = Reading(e, PathContains, L)
  BY <1>1 DEF Filters
<1>6. /\ \A i \in 1..Len(ts) : \E k \in Taken(e, L) : ts[i] = TokenOf(e[k], PathContains)
      /\ \A k \in Taken(e, L) : \E i \in 1..Len(ts) : ts[i] = TokenOf(e[k], PathContains)
  <2>1. PICK type : type = PathContains
    OBVIOUS
  <2>2. ts = Reading(e, type, L)
    BY <1>5, <2>1
  <2>3. /\ \A i \in 1..Len(ts) : \E k \in Taken(e, L) : ts[i] = TokenOf(e[k], type)
        /\ \A k \in Taken(e, L) : \E i \in 1..Len(ts) : ts[i] = TokenOf(e[k], type)
    <3>1. Len(e) \in Nat
      BY <1>2
    <3> QED
      BY <3>1, <2>2, ReadingFacts
  <2> QED
    BY <2>1, <2>3
<1>7. \A k : k \in Taken(e, L) <=> k \in 1..Len(e)
  BY <1>1, <1>3 DEF Taken
<1>8. \A k \in 1..Len(e) : TokenOf(e[k], PathContains) = Token(PathContains, e[k].value)
  BY <1>3, TokenOfFacts
<1>9. \A k \in 1..Len(e) : /\ TokenOf(e[k], PathContains).type = PathContains
                           /\ TokenOf(e[k], PathContains).value = e[k].value
  <2>1. \A t, v : Token(t, v).type = t /\ Token(t, v).value = v
    BY DEF Token
  <2> QED
    BY <1>8, <2>1
<1>10. \A i \in 1..Len(ts) : ts[i].type = PathContains
  BY <1>6, <1>7, <1>9
<1>11. Len(ts) > 0
  <2>1. 1 \in 1..Len(e)
    BY <1>2
  <2>2. PICK i \in 1..Len(ts) : TRUE
    BY <1>6, <1>7, <2>1
  <2> QED
    BY <1>4, <2>2 DEF Typed
<1>12. Operands(ts)
  BY <1>10, <1>11 DEF Operands, OperandTypes
<1>13. PICK j : j = TRUE
  OBVIOUS
<1>14. /\ Grammatical(ts, j) /\ Usable(ts)
       /\ \A i \in 2..Len(ts) : ~(ts[i].type = Negation /\ ts[i - 1].type = Negation)
  BY <1>4, <1>12, <1>13, OperandsRead
<1>15. Sound(ts)
  <2>1. \A i \in DOMAIN expression : ~expression[i].closing
    BY DEF OnlyWords
  <2> QED
    BY <1>13, <1>14, <2>1, OnlyWordsFacts DEF Sound
<1>16. SortsFiles
  <2>1. Sorts = {}
    BY <1>1, <1>2, <1>3 DEF Sorts
  <2> QED
    BY <2>1, OnlyWordsFacts DEF SortsFiles
<1>17. ASSUME NEW r
       PROVE  (\A i \in 1..Len(ts) : Holds(ts[i], r)) <=> WordsOf(expression) \subseteq r.file.names
  <2>1. \A i \in 1..Len(ts) : Holds(ts[i], r) = (ts[i].value \subseteq r.file.names)
    BY <1>10, HoldsIs
  <2>2. (\A i \in 1..Len(ts) : Holds(ts[i], r)) <=> \A k \in 1..Len(e) : e[k].value \subseteq r.file.names
    <3>1. ASSUME \A i \in 1..Len(ts) : Holds(ts[i], r), NEW k \in 1..Len(e)
          PROVE  e[k].value \subseteq r.file.names
      <4>1. PICK i \in 1..Len(ts) : ts[i] = TokenOf(e[k], PathContains)
        BY <1>6, <1>7
      <4>2. ts[i].value = e[k].value
        BY <1>9, <4>1
      <4> QED
        BY <2>1, <3>1, <4>2
    <3>2. ASSUME \A k \in 1..Len(e) : e[k].value \subseteq r.file.names, NEW i \in 1..Len(ts)
          PROVE  Holds(ts[i], r)
      <4>1. PICK k \in 1..Len(e) : ts[i] = TokenOf(e[k], PathContains)
        BY <1>6, <1>7
      <4>2. ts[i].value = e[k].value
        BY <1>9, <4>1
      <4> QED
        BY <2>1, <3>2, <4>2
    <3> QED
      BY <3>1, <3>2
  <2>3. \A w : w \in WordsOf(expression) <=> \E k \in 1..Len(e) : w \in e[k].value
    BY <1>1, <1>2, <1>3 DEF WordsOf
  <2> QED
    BY <2>2, <2>3
<1> QED
  BY <1>1, <1>4, <1>10, <1>12, <1>13, <1>14, <1>15, <1>16, <1>17

LEMMA OnlyWordsPaths ==
    ASSUME expression \in Seq(Lexemes), OnlyWords
    PROVE  RunQuery(PathsQuery) =
              Found({f.path : f \in {g \in Files : WordsOf(expression) \subseteq g.names}})
<1>1. PICK ts : ts = Filters
  OBVIOUS
<1>2. /\ Typed(ts) /\ Operands(ts) /\ Sound(ts) /\ Usable(ts) /\ SortsFiles
      /\ \A i \in 1..Len(ts) : ts[i].type = PathContains
      /\ \A r : (\A i \in 1..Len(ts) : Holds(ts[i], r)) <=> WordsOf(expression) \subseteq r.file.names
  BY <1>1, OnlyWordsFilters
<1>3. Kinds \cap ContentKinds = {} /\ "toc" \notin Kinds
  BY OnlyWordsFacts
<1>4. IsMeant(RunQuery(PathsQuery)) /\ Usable(ts)
  BY <1>1, <1>2, <1>3, CommandIsMeant
<1>5. PICK q : q = Build(expression, PathContains, FALSE)
  OBVIOUS
<1>6. q.mask = MaskOf(ts)
  BY <1>1, <1>2, <1>5, PathsBuilt
<1>7. ~JoinsOutline(q)
  <2>1. 4 \notin q.mask
    BY <1>2, <1>6 DEF MaskOf, PathContains
  <2> QED
    BY <2>1 DEF JoinsOutline, HasOutlineSearch, OutlineContains
<1>8. PICK R : R = RowsFor(FALSE)
  OBVIOUS
<1>9. RunQuery(PathsQuery) = Found(PathsOf(Selected(ts, R)))
  BY <1>1, <1>4, <1>5, <1>7, <1>8 DEF IsMeant, Gives, Lossy
<1>10. \A r \in Selected(ts, R) : r \in R
  <2>1. Len(ts) > 0 /\ ts[Len(ts)].type # Negation
    BY <1>2, OperandFacts DEF Operands, Typed
  <2> QED
    BY <1>2, <2>1, SelectedRows
<1>11. \A r \in R : r \in Selected(ts, R) <=> WordsOf(expression) \subseteq r.file.names
  BY <1>2, OperandsSelect
<1>12. \A r : r \in R <=> \E g \in Files : r \in [file : {g}, entry : {{}}, page : {NoPage}]
  BY <1>3, <1>8 DEF RowsFor
<1>13. ASSUME NEW r \in Selected(ts, R)
       PROVE  \E g \in Files : r.file.path = g.path /\ WordsOf(expression) \subseteq g.names
  <2>1. PICK g \in Files : r \in [file : {g}, entry : {{}}, page : {NoPage}]
    BY <1>10, <1>12
  <2>2. r.file = g
    BY <2>1
  <2> QED
    BY <1>10, <1>11, <2>2
<1>14. ASSUME NEW g \in Files, WordsOf(expression) \subseteq g.names
       PROVE  g.path \in PathsOf(Selected(ts, R))
  <2>1. PICK r : r = [file |-> g, entry |-> {}, page |-> NoPage]
    OBVIOUS
  <2>2. r \in [file : {g}, entry : {{}}, page : {NoPage}] /\ r.file = g
    BY <2>1
  <2>3. r \in Selected(ts, R)
    BY <1>11, <1>12, <1>14, <2>2
  <2> QED
    BY <2>2, <2>3 DEF PathsOf
<1>15. PathsOf(Selected(ts, R)) = {f.path : f \in {g \in Files : WordsOf(expression) \subseteq g.names}}
  BY <1>13, <1>14 DEF PathsOf
<1> QED
  BY <1>9, <1>15

LEMMA LineIsBoth ==
    ASSUME expression \in Seq(Lexemes), OnlyWords
    PROVE  LineEditSearch = Found({f.path : f \in {g \in Files :
              \/ WordsOf(expression) \subseteq g.names
              \/ \E page \in g.pages : WordsIn \subseteq page.words}})
<1>1. PICK q : q = LineQuery
  OBVIOUS
<1>2. /\ expression # <<>> /\ CheckParanthesis(expression)
      /\ SortsAre = {} /\ SortedOnce(expression) /\ "content.text" \notin SortsAre
      /\ Kinds \cap ContentKinds = {} /\ Kinds \cap (PathKinds \cup {"size"}) = {}
      /\ NoClash(LineFilters)
  BY OnlyWordsFacts
<1>3. "word" \in Kinds
  BY DEF OnlyWords
<1>4. /\ IsQuery(q) /\ q.error = FALSE /\ q.sort = SortsAre
      /\ q.tokens = AddAnds(Together) /\ q.mask = MaskOf(LineFilters) \cup Word
      /\ HasLoneWords(q) /\ ~HasContentSearch(q) /\ ~HasPathSearch(q)
  BY <1>1, <1>2, <1>3, LineBuilt
<1>5. AddsContentSearch(q) /\ AddsPathSearch(q) /\ ContentQuery(q) = WordsAs(q, ContentContains)
  BY <1>4 DEF AddsContentSearch, AddsPathSearch, ContentQuery
<1>6. AsksContent(WordsAs(q, ContentContains))
  BY <1>2, <1>4, WordsAsked
<1> DEFINE A == {f.path : f \in {g \in Files : WordsOf(expression) \subseteq g.names}}
           B == {f.path : f \in {g \in Files :
                   \E page \in g.pages : WordsIn \subseteq page.words}}
<1>7. RunQuery(PathsQuery) = Found(A) /\ RunQuery(ContentQuery(q)) = Found(B)
  BY <1>5, <1>6, OnlyWordsPaths, OnlyWordsContent
<1>8. LineEditSearch = Both(RunQuery(PathsQuery), RunQuery(ContentQuery(q)))
  BY <1>1, <1>4, <1>5 DEF LineEditSearch
<1>9. A \cup B = {f.path : f \in {g \in Files :
                     \/ WordsOf(expression) \subseteq g.names
                     \/ \E page \in g.pages : WordsIn \subseteq page.words}}
  OBVIOUS
<1> HIDE DEF A, B
<1>10. Both(Found(A), Found(B)) = Found(A \cup B)
  BY DEF Both, Found
<1> QED
  BY <1>7, <1>8, <1>9, <1>10

\* Words alone are looked for in paths and in content (mainwindow.cpp:799-806).
THEOREM WordsAreBothTheorem == Spec => []WordsAreBoth
<1>1. ASSUME SearchInv PROVE WordsAreBoth
  <2> SUFFICES ASSUME answer.by = "line", OnlyWords
               PROVE  answer.result = Found({f.path : f \in {g \in Files :
                         \/ WordsOf(expression) \subseteq g.names
                         \/ \E page \in g.pages : WordsIn \subseteq page.words}})
    BY DEF WordsAreBoth, OnlyWords, WordsIn
  <2> QED
    BY <1>1, LineIsBoth DEF SearchInv
<1> QED
  BY <1>1, SearchInvAlways, PTL

----------------------------------------------------------------------------
(***************************************************************************)
(* What build accepts it has read as it stands, whether or not it is what  *)
(* may be asked: after k lexemes there is an error, or the tokens are      *)
(* those of the reading.                                                   *)
(***************************************************************************)
TakenUp(q, e, h, k, merge) ==
    /\ IsQuery(q) /\ q.error \in BOOLEAN
    /\ ~q.error => /\ q.tokens = h[k] /\ q.mask = MaskOf(h[k])
                   /\ q.words = IF merge THEN WordsUpTo(e, k) ELSE {}

LEMMA MaskGrows ==
    ASSUME NEW e \in Seq(Lexemes), NEW wordType, NEW leftOut, NEW h,
           Reads(h, e, wordType, leftOut), NEW k \in 1..Len(e), e[k].kind \notin leftOut
    PROVE  MaskOf(h[k]) = MaskOf(h[k - 1]) \cup TokenOf(e[k], wordType).type
<1> DEFINE t == TokenOf(e[k], wordType)
           s == h[k - 1]
<1>1. k - 1 \in 0..Len(e)
  OBVIOUS
<1>2. Len(h[k]) = Len(s) + 1 /\ h[k][Len(h[k])] = t
  BY DEF Reads
<1>3. Len(s) \in Nat /\ \A i \in 1..Len(s) : h[k][i] = s[i]
  BY <1>1 DEF Reads, Grows
<1> HIDE DEF s, t
<1>4. 1..Len(h[k]) = (1..Len(s)) \cup {Len(s) + 1}
  BY <1>2, <1>3
<1>5. {h[k][i].type : i \in 1..Len(h[k])} = {s[i].type : i \in 1..Len(s)} \cup {t.type}
  BY <1>2, <1>3, <1>4
<1>6. MaskOf(h[k]) = MaskOf(s) \cup t.type
  BY <1>5 DEF MaskOf
<1> QED
  BY <1>6 DEF s, t

LEMMA TokenTaken ==
    ASSUME NEW e \in Seq(Lexemes), NEW wordType, NEW merge \in BOOLEAN, NEW h,
           Reads(h, e, wordType, LeftOut(merge)), NEW k \in 1..Len(e),
           e[k].kind \notin LeftOut(merge), NEW q, TakenUp(q, e, h, k - 1, merge)
    PROVE  /\ TakenUp(AddToken(q, TokenOf(e[k], wordType)), e, h, k, merge)
           /\ TakenUp(Failed(q), e, h, k, merge)
<1> DEFINE t == TokenOf(e[k], wordType)
<1>1. h[k] = Append(h[k - 1], t)
  BY DEF Reads
<1>2. MaskOf(h[k]) = MaskOf(h[k - 1]) \cup t.type
  <2>1. PICK L : L = LeftOut(merge)
    OBVIOUS
  <2>2. Reads(h, e, wordType, L) /\ e[k].kind \notin L
    BY <2>1
  <2> QED
    BY <2>2, MaskGrows
<1>3. merge => WordsUpTo(e, k) = WordsUpTo(e, k - 1)
  BY NotRead DEF LeftOut
<1> HIDE DEF t
<1>4. IsQuery(q) /\ q.error \in BOOLEAN
  BY DEF TakenUp
<1>5. /\ IsQuery(AddToken(q, t))
      /\ AddToken(q, t).tokens = Append(q.tokens, t) /\ AddToken(q, t).mask = q.mask \cup t.type
      /\ AddToken(q, t).words = q.words /\ AddToken(q, t).error = q.error
  BY <1>4, TokenIsAdded
<1>6. TakenUp(AddToken(q, t), e, h, k, merge)
  BY <1>1, <1>2, <1>3, <1>4, <1>5 DEF TakenUp
<1>7. IsQuery(Failed(q)) /\ Failed(q).error = TRUE
  BY <1>4 DEF Failed, IsQuery
<1> QED
  BY <1>6, <1>7 DEF TakenUp, t

LEMMA OneTaken ==
    ASSUME NEW e \in Seq(Lexemes), NEW wordType, NEW merge \in BOOLEAN, NEW h,
           Reads(h, e, wordType, LeftOut(merge)), NEW k \in 1..Len(e),
           NEW q, TakenUp(q, e, h, k - 1, merge)
    PROVE  TakenUp(ReadMatch(q, e[k], wordType, merge), e, h, k, merge)
<1> DEFINE t == TokenOf(e[k], wordType)
<1>1. e[k] \in Lexemes /\ q.error \in BOOLEAN /\ IsQuery(q)
  BY DEF TakenUp
<1>2. e[k].kind \in {"word", "sort"} \cup DOMAIN MarkType \cup DOMAIN FilterType
  BY <1>1, LexemesAssumption
<1>3. e[k].kind \notin LeftOut(merge) =>
        TakenUp(AddToken(q, t), e, h, k, merge) /\ TakenUp(Failed(q), e, h, k, merge)
  BY TokenTaken
<1>4. CASE q.error
  BY <1>1, <1>4 DEF ReadMatch, TakenUp
<1>5. CASE ~q.error /\ e[k].kind \in {"and", "or", "not", "open", "close"}
  <2>1. t = Mark(MarkType[e[k].kind]) /\ e[k].kind \notin LeftOut(merge)
    BY <1>1, <1>5, TokenOfFacts, KindsAre DEF LeftOut
  <2>2. \/ ReadMatch(q, e[k], wordType, merge) = AddToken(q, t)
        \/ ReadMatch(q, e[k], wordType, merge) = Failed(q)
    BY <1>5, <2>1, KindsAre, TypesAre DEF ReadMatch
  <2> QED
    BY <1>3, <2>1, <2>2
<1>6. CASE ~q.error /\ e[k].kind \in DOMAIN FilterType
  <2>1. t = Token(FilterType[e[k].kind], e[k].value) /\ e[k].kind \notin LeftOut(merge)
    BY <1>1, <1>6, TokenOfFacts, KindsAre DEF LeftOut
  <2> QED
    BY <1>3, <1>6, <2>1, KindsAre DEF ReadMatch
<1>7. CASE ~q.error /\ e[k].kind = "word" /\ ~merge
  <2>1. t = Token(wordType, e[k].value) /\ e[k].kind \notin LeftOut(merge)
    BY <1>1, <1>7, TokenOfFacts DEF LeftOut
  <2> QED
    BY <1>3, <1>7, <2>1, KindsAre DEF ReadMatch
<1>8. CASE ~q.error /\ e[k].kind = "word" /\ merge
  <2>1. ReadMatch(q, e[k], wordType, merge) = [q EXCEPT !.words = @ \cup e[k].value]
    BY <1>8, KindsAre DEF ReadMatch
  <2>2. h[k] = h[k - 1]
    BY <1>8 DEF Reads, LeftOut
  <2>3. WordsUpTo(e, k) = WordsUpTo(e, k - 1) \cup e[k].value
    BY <1>8, NotRead
  <2> QED
    BY <1>8, <2>1, <2>2, <2>3 DEF TakenUp, IsQuery
<1>9. CASE ~q.error /\ e[k].kind = "sort"
  <2>1. h[k] = h[k - 1] /\ WordsUpTo(e, k) = WordsUpTo(e, k - 1)
    BY <1>9, NotRead DEF Reads, LeftOut
  <2>2. \/ ReadMatch(q, e[k], wordType, merge) = [q EXCEPT !.sort = CreateSortConditions(e[k].value)]
        \/ ReadMatch(q, e[k], wordType, merge) = Failed(q)
    BY <1>9, KindsAre DEF ReadMatch
  <2>3. IsQuery(Failed(q)) /\ Failed(q).error = TRUE
    BY <1>1 DEF Failed, IsQuery
  <2> QED
    BY <1>9, <2>1, <2>2, <2>3 DEF TakenUp, IsQuery
<1> QED
  BY <1>1, <1>2, <1>4, <1>5, <1>6, <1>7, <1>8, <1>9, KindsAre

LEMMA AllTaken ==
    ASSUME NEW e \in Seq(Lexemes), NEW wordType, NEW merge \in BOOLEAN, NEW h,
           Reads(h, e, wordType, LeftOut(merge))
    PROVE  TakenUp(ReadMatches(e, wordType, merge), e, h, Len(e), merge)
<1>1. Len(e) \in Nat
  OBVIOUS
<1>2. PICK g : Queries(g, Len(e), e, wordType, merge) /\ ReadMatches(e, wordType, merge) = g[Len(e)]
  BY <1>1, QueriesIs
<1>3. /\ g[0] = NoQuery
      /\ \A k \in 1..Len(e) : g[k] = ReadMatch(g[k - 1], e[k], wordType, merge)
  BY <1>1, <1>2 DEF Queries
<1> DEFINE Bad == {k \in 0..Len(e) : ~TakenUp(g[k], e, h, k, merge)}
<1>4. TakenUp(g[0], e, h, 0, merge)
  <2>1. h[0] = <<>> /\ MaskOf(<<>>) = {} /\ WordsUpTo(e, 0) = {}
    BY DEF Reads, MaskOf, WordsUpTo
  <2> QED
    BY <1>3, <2>1 DEF TakenUp, NoQuery, IsQuery
<1>5. ASSUME Bad # {} PROVE FALSE
  <2>1. Bad \subseteq Nat
    OBVIOUS
  <2>2. PICK k \in Bad : \A j \in Bad : k <= j
    <3> HIDE DEF Bad
    <3> QED
      BY <1>5, <2>1, LeastNatural
  <2>3. k \in 0..Len(e) /\ ~TakenUp(g[k], e, h, k, merge)
    BY <2>2
  <2>4. k # 0
    BY <1>4, <2>3
  <2>5. k - 1 \in 0..Len(e) /\ k - 1 \notin Bad /\ k \in 1..Len(e)
    BY <2>2, <2>3, <2>4
  <2>6. TakenUp(g[k - 1], e, h, k - 1, merge)
    BY <2>5
  <2> QED
    BY <1>3, <2>3, <2>5, <2>6, OneTaken
<1>6. Len(e) \in 0..Len(e) /\ Len(e) \notin Bad
  <2> HIDE DEF Bad
  <2> QED
    BY <1>1, <1>5
<1> QED
  BY <1>2, <1>6

Accepted(q, e, wordType, merge) ==
    LET ts == Reading(e, wordType, LeftOut(merge)) IN
    /\ IsQuery(q)
    /\ Merged(e, merge) = {} => q.tokens = AddAnds(ts) /\ q.mask = MaskOf(ts)
    /\ Merged(e, merge) # {} =>
          /\ q.tokens = AddAnds(Append(ts, Token(wordType, Merged(e, merge))))
          /\ q.mask = MaskOf(ts) \cup wordType

LEMMA AcceptedIs ==
    ASSUME NEW e \in Seq(Lexemes), e # <<>>, NEW wordType, NEW merge \in BOOLEAN,
           ~Build(e, wordType, merge).error
    PROVE  Accepted(Build(e, wordType, merge), e, wordType, merge)
<1> DEFINE ts == Reading(e, wordType, LeftOut(merge))
           W == Merged(e, merge)
           r == ReadMatches(e, wordType, merge)
           all == MergeWords(r, wordType)
           q == [all EXCEPT !.tokens = AddAnds(@)]
           b == Build(e, wordType, merge)
<1>a. Len(e) \in Nat
  OBVIOUS
<1>1. PICK h : Reads(h, e, wordType, LeftOut(merge))
  BY <1>a, ReadingIs
<1>2. h[Len(e)] = ts
  BY <1>1 DEF Reads
<1>3. TakenUp(r, e, h, Len(e), merge)
  BY <1>1, AllTaken
<1>4. /\ IsQuery(r) /\ r.error \in BOOLEAN
      /\ ~r.error => r.tokens = ts /\ r.mask = MaskOf(ts) /\ r.words = W
  BY <1>2, <1>3 DEF TakenUp, Merged
<1>5. b = Failed(NoQuery) \/ b = Failed(q) \/ (b = q /\ ~q.error)
  BY Zenon DEF Build
<1> HIDE DEF r, W, ts
<1>6. /\ IsQuery(all) /\ all.error = r.error
      /\ ~r.error /\ W = {} => all.tokens = ts /\ all.mask = MaskOf(ts)
      /\ ~r.error /\ W # {} =>
            all.tokens = Append(ts, Token(wordType, W)) /\ all.mask = MaskOf(ts) \cup wordType
  <2>1. CASE r.words = {}
    BY <1>4, <2>1 DEF MergeWords
  <2>2. CASE r.words # {}
    <3>1. all = AddToken(r, Token(wordType, r.words))
      BY <2>2 DEF MergeWords
    <3>2. Token(wordType, r.words).type = wordType
      BY DEF Token
    <3>3. PICK t : t = Token(wordType, r.words)
      OBVIOUS
    <3>4. /\ IsQuery(AddToken(r, t))
          /\ AddToken(r, t).tokens = Append(r.tokens, t) /\ AddToken(r, t).mask = r.mask \cup t.type
          /\ AddToken(r, t).error = r.error
      BY <1>4, TokenIsAdded
    <3> QED
      BY <1>4, <2>2, <3>1, <3>2, <3>3, <3>4
  <2> QED
    BY <2>1, <2>2
<1> HIDE DEF all
<1>7. /\ IsQuery(q) /\ q.error = all.error /\ q.mask = all.mask
      /\ q.tokens = AddAnds(all.tokens)
  BY <1>6 DEF IsQuery
<1>8. Failed(NoQuery).error = TRUE /\ Failed(q).error = TRUE
  <2>1. "error" \in DOMAIN NoQuery
    BY DEF NoQuery
  <2>2. "error" \in DOMAIN q
    BY <1>7 DEF IsQuery
  <2> HIDE DEF q
  <2> QED
    BY <2>1, <2>2 DEF Failed
<1> HIDE DEF q
<1>9. b = q /\ ~q.error
  BY <1>5, <1>8
<1> HIDE DEF b
<1>10. Accepted(b, e, wordType, merge)
  BY <1>4, <1>6, <1>7, <1>9 DEF Accepted, W, ts
<1> QED
  BY <1>10 DEF b

----------------------------------------------------------------------------
(***************************************************************************)
(* The words to highlight: of every content filter every word, in any      *)
(* order.                                                                  *)
(***************************************************************************)
LEMMA OrdersFacts ==
    ASSUME NEW S, IsFiniteSet(S), NEW o \in Orders(S)
    PROVE  o \in Seq(S) /\ \A w \in S : \E i \in 1..Len(o) : o[i] = w
<1>1. PICK n \in Nat : n = Cardinality(S)
  BY FS_CardinalityType
<1>2. o \in [1..n -> S] /\ \A w \in S : \E i \in 1..n : o[i] = w
  BY <1>1 DEF Orders, Bijection, Surjection, Injection
<1>3. o \in Seq(S) /\ Len(o) = n
  BY <1>2
<1> QED
  BY <1>2, <1>3

\* The lists after the first n tokens.
Listed(H, n, ts) ==
    H = [k \in 0..n |->
            IF k = 0 THEN {<<>>}
            ELSE IF ts[k].type = ContentContains
            THEN Lengthened(H[k - 1], ts[k].value)
            ELSE H[k - 1]]
LEMMA ListedExists ==
    ASSUME NEW ts, Len(ts) \in Nat
    PROVE  \E H : Listed(H, Len(ts), ts)
<1> DEFINE Step(G, k) == IF ts[k].type = ContentContains
                         THEN Lengthened(G, ts[k].value)
                         ELSE G
           Bad == {n \in 0..Len(ts) : ~\E H : Listed(H, n, ts)}
<1>1. ASSUME Bad # {} PROVE FALSE
  <2>1. Bad \subseteq Nat
    OBVIOUS
  <2>2. PICK n \in Bad : \A k \in Bad : n <= k
    <3> HIDE DEF Bad
    <3> QED
      BY <1>1, <2>1, LeastNatural
  <2>3. n \in 0..Len(ts) /\ ~\E H : Listed(H, n, ts)
    BY <2>2
  <2>4. n # 0
    <3>1. Listed([k \in 0..0 |-> {<<>>}], 0, ts)
      BY DEF Listed
    <3> QED
      BY <2>3, <3>1
  <2>5. n - 1 \in 0..Len(ts) /\ n - 1 \notin Bad /\ n \in 1..Len(ts)
    BY <2>2, <2>3, <2>4
  <2>6. PICK H : Listed(H, n - 1, ts)
    BY <2>5
  <2>a. H = [k \in 0..n - 1 |-> IF k = 0 THEN {<<>>} ELSE Step(H[k - 1], k)]
    BY <2>6 DEF Listed
  <2> HIDE DEF Step
  <2>b. \A k \in 0..n - 1 : H[k] = IF k = 0 THEN {<<>>} ELSE Step(H[k - 1], k)
    BY <2>a
  <2> DEFINE G == [k \in 0..n |-> IF k = n THEN Step(H[n - 1], n) ELSE H[k]]
  <2>7. /\ \A k \in 0..n - 1 : G[k] = H[k]
        /\ G[n] = Step(H[n - 1], n)
        /\ G = [k \in 0..n |-> G[k]]
    BY <2>5
  <2> HIDE DEF G
  <2>8. ASSUME NEW k \in 0..n
        PROVE  G[k] = IF k = 0 THEN {<<>>} ELSE Step(G[k - 1], k)
    <3>1. k # 0 => k - 1 \in 0..n - 1 /\ G[k - 1] = H[k - 1]
      <4>1. k # 0 => k - 1 \in 0..n - 1
        BY <2>5
      <4> QED
        BY <2>7, <4>1
    <3>2. CASE k = n
      BY <2>5, <2>7, <3>1, <3>2
    <3>3. CASE k # n
      <4>1. k \in 0..n - 1
        BY <2>5, <3>3
      <4> QED
        BY <2>b, <2>7, <3>1, <4>1
    <3> QED
      BY <3>2, <3>3
  <2>9. G = [k \in 0..n |-> IF k = 0 THEN {<<>>} ELSE Step(G[k - 1], k)]
    BY <2>7, <2>8
  <2>10. Listed(G, n, ts)
    BY <2>9 DEF Listed, Step
  <2> QED
    BY <2>3, <2>10
<1>2. Len(ts) \in 0..Len(ts) /\ Len(ts) \notin Bad
  <2> HIDE DEF Bad
  <2> QED
    BY <1>1
<1> QED
  BY <1>2

LEMMA ListedIs ==
    ASSUME NEW q, Len(q.tokens) \in Nat
    PROVE  \E H : Listed(H, Len(q.tokens), q.tokens) /\ WordsToHighlight(q) = H[Len(q.tokens)]
<1>1. PICK H : Listed(H, Len(q.tokens), q.tokens)
  <2>1. PICK ts : ts = q.tokens
    OBVIOUS
  <2> QED
    BY <2>1, ListedExists
<1>2. PICK G : G = CHOOSE K : Listed(K, Len(q.tokens), q.tokens)
  OBVIOUS
<1>3. Listed(G, Len(q.tokens), q.tokens)
  BY <1>1, <1>2
<1>4. WordsToHighlight(q) = G[Len(q.tokens)]
  BY <1>2, Zenon DEF WordsToHighlight, Listed
<1> QED
  BY <1>3, <1>4

\* What is searched for in the content are finitely many words of the vocabulary.
Readable(ts) ==
    /\ Len(ts) \in Nat
    /\ \A i \in 1..Len(ts) : ts[i].type = ContentContains =>
          ts[i].value \subseteq Vocabulary /\ IsFiniteSet(ts[i].value)

LEMMA HighlightFacts ==
    ASSUME NEW q, Readable(q.tokens), NEW ws \in WordsToHighlight(q)
    PROVE  /\ ws \in Seq(Vocabulary)
           /\ \A i \in 1..Len(q.tokens) : q.tokens[i].type = ContentContains =>
                 \A w \in q.tokens[i].value : \E k \in 1..Len(ws) : ws[k] = w
<1>1. PICK ts : ts = q.tokens
  OBVIOUS
<1>2. Len(ts) \in Nat /\ Readable(ts)
  BY <1>1 DEF Readable
<1>3. PICK H : Listed(H, Len(ts), ts) /\ WordsToHighlight(q) = H[Len(ts)]
  BY <1>1, <1>2, ListedIs
<1> DEFINE Covers(us, n) ==
              /\ us \in Seq(Vocabulary)
              /\ \A i \in 1..n : ts[i].type = ContentContains =>
                    \A w \in ts[i].value : \E k \in 1..Len(us) : us[k] = w
           Bad == {n \in 0..Len(ts) : \E us \in H[n] : ~Covers(us, n)}
<1>4. H[0] = {<<>>}
  BY <1>3 DEF Listed
<1>5. \A n \in 1..Len(ts) :
         H[n] = IF ts[n].type = ContentContains
                THEN Lengthened(H[n - 1], ts[n].value) ELSE H[n - 1]
  <2>1. \A n \in 1..Len(ts) : n \in 0..Len(ts) /\ n # 0
    OBVIOUS
  <2> QED
    BY <1>3, <2>1 DEF Listed
<1>6. ASSUME Bad # {} PROVE FALSE
  <2>1. Bad \subseteq Nat
    BY <1>2
  <2>2. PICK n \in Bad : \A k \in Bad : n <= k
    <3> HIDE DEF Bad
    <3> QED
      BY <1>6, <2>1, LeastNatural
  <2>3. PICK us \in H[n] : ~Covers(us, n)
    BY <2>2
  <2>4. n # 0
    <3>1. <<>> \in Seq(Vocabulary) /\ 1..0 = {}
      OBVIOUS
    <3> QED
      BY <1>4, <2>3, <3>1
  <2>5. n \in 1..Len(ts) /\ n - 1 \in 0..Len(ts) /\ n - 1 \notin Bad
    BY <1>2, <2>2, <2>4
  <2>6. \A vs \in H[n - 1] : Covers(vs, n - 1)
    BY <2>5
  <2>7. \A i : i \in 1..n <=> i \in 1..n - 1 \/ i = n
    BY <1>2, <2>5
  <2> HIDE DEF Bad
  <2>8. CASE ts[n].type # ContentContains
    BY <1>5, <2>3, <2>5, <2>6, <2>7, <2>8
  <2>9. CASE ts[n].type = ContentContains
    <3>1. PICK vs \in H[n - 1], o \in Orders(ts[n].value) : us = vs \o o
      <4>1. us \in Lengthened(H[n - 1], ts[n].value)
        BY <1>5, <2>3, <2>5, <2>9
      <4> QED
        BY <4>1 DEF Lengthened
    <3>2. ts[n].value \subseteq Vocabulary /\ IsFiniteSet(ts[n].value)
      BY <1>2, <2>5, <2>9 DEF Readable
    <3>3. o \in Seq(ts[n].value) /\ \A w \in ts[n].value : \E i \in 1..Len(o) : o[i] = w
      BY <3>2, OrdersFacts
    <3>4. o \in Seq(Vocabulary) /\ vs \in Seq(Vocabulary)
      BY <2>6, <3>2, <3>3
    <3>5. /\ us \in Seq(Vocabulary) /\ Len(us) = Len(vs) + Len(o)
          /\ \A i \in 1..Len(vs) + Len(o) : us[i] = IF i <= Len(vs) THEN vs[i] ELSE o[i - Len(vs)]
      BY <3>1, <3>4, ConcatProperties
    <3>6. Len(vs) \in Nat /\ Len(o) \in Nat
      BY <3>4
    <3>7. ASSUME NEW i \in 1..Len(vs) PROVE i \in 1..Len(us) /\ us[i] = vs[i]
      BY <3>5, <3>6
    <3>8. ASSUME NEW i \in 1..Len(o) PROVE Len(vs) + i \in 1..Len(us) /\ us[Len(vs) + i] = o[i]
      <4>1. Len(vs) + i \in 1..Len(vs) + Len(o) /\ ~(Len(vs) + i <= Len(vs)) /\ (Len(vs) + i) - Len(vs) = i
        BY <3>6
      <4> QED
        BY <3>5, <4>1
    <3>9. ASSUME NEW i \in 1..n, ts[i].type = ContentContains, NEW w \in ts[i].value
          PROVE  \E k \in 1..Len(us) : us[k] = w
      <4>1. CASE i = n
        BY <3>3, <3>8, <4>1
      <4>2. CASE i \in 1..n - 1
        <5>1. PICK k \in 1..Len(vs) : vs[k] = w
          BY <2>6, <3>9, <4>2
        <5> QED
          BY <3>7, <5>1
      <4> QED
        BY <2>7, <4>1, <4>2
    <3> QED
      BY <2>3, <3>5, <3>9
  <2> QED
    BY <2>8, <2>9
<1>7. Covers(ws, Len(ts))
  <2>1. Len(ts) \in 0..Len(ts) /\ Len(ts) \notin Bad
    <3> HIDE DEF Bad
    <3> QED
      BY <1>2, <1>6
  <2> QED
    BY <1>3, <2>1
<1> QED
  BY <1>1, <1>7

----------------------------------------------------------------------------
(***************************************************************************)
(* MATCH is usable where it must hold of every row, so what a search finds *)
(* has all the words of its content filters: by induction from the outer   *)
(* groups to the inner.                                                    *)
(***************************************************************************)
\* The group that a place stands in, with nothing in between.
LEMMA InnermostGroup ==
    ASSUME NEW ts, Typed(ts), NEW j, Grammatical(ts, j), NEW i \in 1..Len(ts)
    PROVE  \E g \in Groups(ts) : Encloses(ts, g, i) /\ Depth(ts, i) = Depth(ts, g + 1)
<1> DEFINE d == Depth(ts, i)
           Deep == {m \in 1..i : \A k \in m..i : Depth(ts, k) >= d}
<1>1. Len(ts) \in Nat /\ DOMAIN ts = 1..Len(ts) /\ i \in Nat \ {0}
  BY DEF Typed
<1>2. \A k \in 1..Len(ts) : Depth(ts, k) \in Int /\ Depth(ts, k) >= 0
  <2> TAKE k \in 1..Len(ts)
  <2>1. Depth(ts, k) \in Int
    BY DepthFacts
  <2>2. CASE k = 1
    BY <2>2, DepthFacts
  <2>3. CASE k # 1
    <3>1. k - 1 \in 1..Len(ts) /\ (k - 1) + 1 = k
      BY <1>1, <2>3
    <3>2. Depth(ts, (k - 1) + 1) >= 0
      BY <1>1, <3>1 DEF Grammatical
    <3> QED
      BY <2>1, <3>1, <3>2
  <2> QED
    BY <2>2, <2>3
<1>3. i \in Deep
  BY <1>1, <1>2
<1>4. PICK m \in Deep : \A k \in Deep : m <= k
  <2>1. Deep \subseteq Nat
    BY <1>1
  <2>2. Deep # {}
    <3> HIDE DEF Deep
    <3> QED
      BY <1>3
  <2> HIDE DEF Deep
  <2> QED
    BY <2>1, <2>2, LeastNatural
<1>5. m \in 1..i /\ \A k \in m..i : Depth(ts, k) >= d
  OBVIOUS
<1>6. CASE m = 1
  <2>1. Depth(ts, 1) = 0 /\ 1 \in m..i
    BY <1>1, <1>6, DepthFacts
  <2>2. d = 0
    BY <1>2, <1>5, <2>1
  <2>3. Encloses(ts, 0, i)
    BY <1>1, <1>5, <1>6, <2>1, <2>2 DEF Encloses
  <2> QED
    BY <2>1, <2>2, <2>3 DEF Groups
<1>7. CASE m # 1
  <2>1. m - 1 \in 1..i /\ m - 1 \in 1..Len(ts) /\ m \in 1..Len(ts) /\ (m - 1) + 1 = m
    BY <1>1, <1>5, <1>7
  <2>2. m - 1 \notin Deep
    <3> HIDE DEF Deep
    <3> QED
      BY <1>4, <2>1
  <2>3. Depth(ts, m - 1) < d
    <3>1. PICK k \in m - 1..i : ~(Depth(ts, k) >= d)
      BY <2>1, <2>2
    <3>2. k = m - 1
      BY <1>5, <2>1, <3>1
    <3> QED
      BY <1>1, <1>2, <2>1, <3>1, <3>2
  <2>4. Depth(ts, m) >= d
    BY <1>5
  <2>5. ts[m - 1].type = Open /\ Depth(ts, m) = Depth(ts, m - 1) + 1
    <3>1. m - 1 \in Nat \ {0} /\ Depth(ts, m - 1) \in Int /\ d \in Int /\ Depth(ts, m) \in Int
      BY <1>2, <2>1
    <3>2. CASE ts[m - 1].type = Close
      BY <2>1, <2>3, <2>4, <3>1, <3>2, DepthFacts
    <3>3. CASE ts[m - 1].type \notin {Open, Close}
      BY <2>1, <2>3, <2>4, <3>1, <3>3, DepthFacts
    <3>4. CASE ts[m - 1].type = Open
      BY <2>1, <3>1, <3>4, DepthFacts
    <3> QED
      BY <3>2, <3>3, <3>4
  <2>6. Depth(ts, m) = d
    BY <1>2, <2>1, <2>3, <2>4, <2>5
  <2>7. m - 1 \in Groups(ts)
    BY <1>1, <2>1, <2>5 DEF Groups
  <2>8. Encloses(ts, m - 1, i)
    BY <1>1, <1>5, <2>1, <2>6 DEF Encloses
  <2> QED
    BY <2>1, <2>6, <2>7, <2>8
<1> QED
  BY <1>6, <1>7

\* What encloses the group encloses the place.
LEMMA OuterEncloses ==
    ASSUME NEW ts, Typed(ts), NEW i \in 1..Len(ts), NEW g \in 1..Len(ts), ts[g].type = Open,
           Encloses(ts, g, i), NEW o \in Groups(ts), Encloses(ts, o, g)
    PROVE  Encloses(ts, o, i)
<1>1. Len(ts) \in Nat /\ DOMAIN ts = 1..Len(ts) /\ g \in Nat \ {0} /\ i \in Nat \ {0} /\ o \in Nat
  BY DEF Typed, Groups
<1>2. o < g /\ g < i /\ g \in o + 1..g
  BY <1>1 DEF Encloses
<1>3. \A k \in Nat \ {0} : Depth(ts, k) \in Int
  BY DepthFacts
<1>4. Depth(ts, g + 1) = Depth(ts, g) + 1 /\ Depth(ts, g) >= Depth(ts, o + 1)
  BY <1>1, <1>2, DepthFacts DEF Encloses
<1>5. ASSUME NEW k \in o + 1..i PROVE Depth(ts, k) >= Depth(ts, o + 1)
  <2>1. k \in Nat \ {0} /\ o + 1 \in Nat \ {0} /\ g + 1 \in Nat \ {0}
    BY <1>1
  <2>2. CASE k <= g
    BY <1>1, <2>2 DEF Encloses
  <2>3. CASE k > g
    <3>1. k \in g + 1..i
      BY <1>1, <2>3
    <3>2. Depth(ts, k) >= Depth(ts, g + 1)
      BY <3>1 DEF Encloses
    <3> QED
      BY <1>1, <1>3, <1>4, <2>1, <3>2
  <2> QED
    BY <1>1, <2>1, <2>2, <2>3
<1> QED
  BY <1>1, <1>2, <1>5 DEF Encloses

LEMMA ContentHolds ==
    ASSUME NEW ts, Typed(ts), Len(ts) > 0, NEW j, Grammatical(ts, j), Usable(ts), NEW R,
           NEW r \in Selected(ts, R)
    PROVE  \A i \in 1..Len(ts) : ts[i].type = ContentContains => Holds(ts[i], r)
<1> DEFINE Free(i) == \A g \in Groups(ts) : Encloses(ts, g, i) =>
                          Ors(ts, g) = {} /\ ~IsNegated(ts, g)
<1>1. Len(ts) \in Nat /\ DOMAIN ts = 1..Len(ts)
  BY DEF Typed
<1>2. Len(ts) > 0 /\ ts[Len(ts)].type # Negation
  BY NegationFacts, MarkTypes DEF Grammatical, EndsFactor, IsOperand
<1>3. PICK h : IsSelection(h, ts, R) /\ Selected(ts, R) = h[0]
  BY <1>2, SelectedIs
<1> DEFINE Bad == {i \in 1..Len(ts) : Free(i) /\ StartsFactor(ts[i]) /\ ~IsNegated(ts, i) /\ r \notin h[i]}
<1>4. ASSUME Bad # {} PROVE FALSE
  <2>1. Bad \subseteq Nat
    BY <1>1
  <2>2. PICK i \in Bad : \A k \in Bad : i <= k
    <3> HIDE DEF Bad
    <3> QED
      BY <1>4, <2>1, LeastNatural
  <2>3. i \in 1..Len(ts) /\ Free(i) /\ StartsFactor(ts[i]) /\ ~IsNegated(ts, i) /\ r \notin h[i]
    BY <2>2
  <2>4. PICK g \in Groups(ts) : Encloses(ts, g, i) /\ Depth(ts, i) = Depth(ts, g + 1)
    BY <2>3, InnermostGroup
  <2>5. Ors(ts, g) = {} /\ ~IsNegated(ts, g)
    BY <2>3, <2>4
  <2>6. r \in h[g]
    <3>1. CASE g = 0
      BY <1>3, <3>1
    <3>2. CASE g # 0
      <4>1. g \in 1..Len(ts) /\ ts[g].type = Open /\ g < i
        BY <1>1, <2>4, <3>2 DEF Groups, Encloses
      <4>2. Free(g)
        BY <2>3, <2>4, <4>1, OuterEncloses
      <4>3. StartsFactor(ts[g])
        BY <4>1 DEF StartsFactor
      <4>4. g \notin Bad
        <5>1. ~(i <= g)
          BY <1>1, <2>3, <4>1
        <5> HIDE DEF Bad
        <5> QED
          BY <2>2, <5>1
      <4> QED
        BY <2>5, <4>1, <4>2, <4>3, <4>4
    <3> QED
      BY <3>1, <3>2
  <2>7. g \in 0..Len(ts) /\ g < i
    BY <1>1, <2>3, <2>4 DEF Groups, Encloses
  <2>8. i \in Term(ts, g, g)
    BY <1>1, <2>3, <2>4, <2>5, <2>7 DEF Term, Factors, Within
  <2>9. h[g] = Picked(ts, R, h, g)
    BY <1>3, <2>7 DEF IsSelection
  <2>10. PICK o \in {g} \cup Ors(ts, g) : \A k \in Term(ts, g, o) : r \in h[k]
    BY <2>4, <2>6, <2>9 DEF Picked
  <2>11. o = g
    BY <2>5, <2>10
  <2> QED
    BY <2>3, <2>8, <2>10, <2>11
<1>5. ASSUME NEW i \in 1..Len(ts), ts[i].type = ContentContains PROVE Holds(ts[i], r)
  <2>1. Free(i) /\ ~IsNegated(ts, i)
    BY <1>1, <1>5 DEF Usable, MustHold
  <2>2. ts[i].type \in OperandTypes
    BY <1>5 DEF OperandTypes
  <2>3. StartsFactor(ts[i])
    BY <2>2, OperandFacts DEF StartsFactor, IsOperand
  <2>4. i \notin Bad
    <3> HIDE DEF Bad
    <3> QED
      BY <1>4
  <2>5. r \in h[i]
    BY <2>1, <2>3, <2>4
  <2>6. h[i] = Picked(ts, R, h, i) /\ i # 0
    BY <1>1, <1>3 DEF IsSelection
  <2>7. ts[i].type # Open /\ ts[i].type # Negation
    BY <2>2, OperandFacts
  <2>8. i \notin Groups(ts)
    BY <2>6, <2>7 DEF Groups
  <2> QED
    BY <2>5, <2>6, <2>7, <2>8 DEF Picked
<1> QED
  BY <1>5

----------------------------------------------------------------------------
(***************************************************************************)
(* The search of the content that the previews use as well: every word     *)
(* that is meant to be in the content is in one of its content filters.    *)
(***************************************************************************)
IsReadable(T) ==
    \A t \in T :
        /\ t.type \in TokenTypes
        /\ t.type \in {ContentContains, Word} => t.value \subseteq Vocabulary /\ IsFiniteSet(t.value)

LEMMA ReadableSeq ==
    ASSUME NEW T, IsReadable(T), NEW ts \in Seq(T)
    PROVE  Readable(ts) /\ Typed(ts)
<1>1. Len(ts) \in Nat /\ \A i \in 1..Len(ts) : ts[i] \in T
  OBVIOUS
<1>2. Typed(ts)
  BY SeqTyped DEF IsReadable
<1> QED
  BY <1>1, <1>2 DEF Readable, IsReadable

\* The ANDs leave every token there.
LEMMA AndsAdded ==
    ASSUME NEW T, IsReadable(T), NEW ts \in Seq(T), NEW us, us = AddAnds(ts)
    PROVE  /\ IsReadable(T \cup {Mark(And)}) /\ us \in Seq(T \cup {Mark(And)})
           /\ \A i \in 1..Len(ts) : \E k \in 1..Len(us) : us[k] = ts[i]
<1>1. \A t \in T : t.type \in TokenTypes
  BY DEF IsReadable
<1>2. /\ us \in Seq(T \cup {Mark(And)}) /\ Typed(ts) /\ Typed(us)
      /\ \E f : Inflates(f, ts, us)
  BY <1>1, AddAndsInflates
<1>3. PICK f : Inflates(f, ts, us)
  BY <1>2
<1>4. \A i \in 1..Len(ts) : f[i] \in 1..Len(us) /\ us[f[i]] = ts[i]
  BY <1>2, <1>3, InflatedToken
<1>5. Mark(And).type = And /\ Mark(And).value = {} /\ And \in TokenTypes
  BY DEF Mark, Token, TokenTypes
<1>6. IsFiniteSet({})
  BY FS_EmptySet
<1>7. IsReadable(T \cup {Mark(And)})
  BY <1>5, <1>6 DEF IsReadable
<1> QED
  BY <1>2, <1>4, <1>7

\* The words become a content filter.
LEMMA WordsTurned ==
    ASSUME NEW T, IsReadable(T), NEW bs \in Seq(T), NEW us, us = FinalTokens(bs, ContentContains)
    PROVE  \E U : /\ IsReadable(U) /\ us \in Seq(U) /\ Len(us) = Len(bs)
                  /\ \A k \in 1..Len(bs) :
                       us[k] = IF bs[k].type = Word THEN Token(ContentContains, bs[k].value) ELSE bs[k]
<1>1. PICK n \in Nat : n = Len(bs)
  OBVIOUS
<1>2. DOMAIN bs = 1..n /\ \A k \in 1..n : bs[k] \in T
  BY <1>1
<1>3. PICK U : U = T \cup {Token(ContentContains, t.value) : t \in {u \in T : u.type = Word}}
  OBVIOUS
<1>4. us = [k \in 1..n |->
              IF bs[k].type = Word THEN Token(ContentContains, bs[k].value) ELSE bs[k]]
  BY <1>2 DEF FinalTokens
<1>5. \A k \in 1..n : us[k] \in U
  BY <1>2, <1>3, <1>4
<1>6. us \in [1..n -> U]
  BY <1>4, <1>5
<1>7. us \in Seq(U) /\ Len(us) = n
  BY <1>6
<1>8. \A v : Token(ContentContains, v).type = ContentContains /\ Token(ContentContains, v).value = v
  BY DEF Token
<1>9. ContentContains \in TokenTypes
  BY DEF TokenTypes, OperandTypes
<1>10. IsReadable(U)
  <2>1. ASSUME NEW t \in T, t.type = Word, NEW u, u = Token(ContentContains, t.value)
        PROVE  u.type \in TokenTypes /\ u.value \subseteq Vocabulary /\ IsFiniteSet(u.value)
    BY <1>8, <1>9, <2>1 DEF IsReadable
  <2>2. ASSUME NEW u \in U
        PROVE  u \in T \/ \E t \in T : t.type = Word /\ u = Token(ContentContains, t.value)
    BY <1>3
  <2>3. ASSUME NEW u \in U
        PROVE  /\ u.type \in TokenTypes
               /\ u.type \in {ContentContains, Word} =>
                     u.value \subseteq Vocabulary /\ IsFiniteSet(u.value)
    <3>1. CASE u \in T
      BY <3>1 DEF IsReadable
    <3>2. CASE \E t \in T : t.type = Word /\ u = Token(ContentContains, t.value)
      BY <2>1, <3>2
    <3> QED
      BY <2>2, <3>1, <3>2
  <2> QED
    BY <2>3 DEF IsReadable
<1> QED
  BY <1>1, <1>4, <1>7, <1>10

\* The words and filters of the content have words of the vocabulary.
LEMMA ContentKind ==
    ASSUME NEW l \in Lexemes, l.kind # "sort"
    PROVE  /\ TokenOf(l, PathContains).type \in {ContentContains, Word} <=> l.kind = "c"
           /\ \A T : l.kind = "c" => TokenOf(l, T) = Token(ContentContains, l.value)
<1>1. l.kind \in {"word", "sort"} \cup DOMAIN MarkType \cup DOMAIN FilterType
  BY LexemesAssumption
<1>2. \A T, v : Token(T, v).type = T /\ Token(T, v).value = v
  BY DEF Token
<1>3. Word # ContentContains /\ Word # PathContains /\ PathContains # ContentContains
  <2>1. 8 \in Word /\ 8 \notin ContentContains /\ 8 \notin PathContains
        /\ 512 \in ContentContains /\ 512 \notin PathContains
    BY DEF Word, ContentContains, PathContains
  <2> QED
    BY <2>1
<1>4. CASE l.kind = "word"
  BY <1>2, <1>3, <1>4, TokenOfFacts
<1>5. CASE l.kind \in DOMAIN MarkType
  <2>1. PICK t : t = TokenOf(l, PathContains)
    OBVIOUS
  <2>2. t.type \in {And, Or, Negation, Open, Close}
    BY <1>5, <2>1, TokenOfFacts
  <2>3. ContentContains \in OperandTypes /\ Word \in OperandTypes
    BY DEF OperandTypes
  <2>4. t.type \notin {ContentContains, Word}
    BY <2>2, <2>3, OperandFacts
  <2> QED
    BY <1>5, <2>1, <2>4, KindsAre
<1>6. CASE l.kind \in DOMAIN FilterType
  <2>1. \A T : TokenOf(l, T) = Token(FilterType[l.kind], l.value)
    BY <1>6, TokenOfFacts
  <2>2. FilterType[l.kind] \in {ContentContains, Word} <=> l.kind = "c"
    <3>1. \A k \in {"p", "pb", "pe", "size", "t", "toc"} : 256 \in FilterType[k]
      BY TypesAre DEF PathContains, PathStarts, PathEnds, PathSize, TagAssigned, OutlineContains
    <3>2. 256 \notin ContentContains /\ 256 \notin Word /\ 8 \in Word /\ 8 \notin ContentPage
      BY DEF ContentContains, Word, ContentPage
    <3>3. 1 \in ContentContains /\ 1 \notin ContentPage
      BY DEF ContentContains, ContentPage
    <3>4. \A k \in {"p", "pb", "pe", "size", "t", "toc"} : FilterType[k] \notin {ContentContains, Word}
      BY <3>1, <3>2
    <3>5. FilterType["page"] \notin {ContentContains, Word}
      BY <3>2, <3>3, TypesAre
    <3> QED
      BY <1>6, <3>4, <3>5, KindsAre, TypesAre
  <2>3. FilterType["c"] = ContentContains
    BY TypesAre
  <2> QED
    BY <1>2, <2>1, <2>2, <2>3
<1> QED
  BY <1>1, <1>4, <1>5, <1>6

\* What is typed reads as tokens with words of the vocabulary.
LEMMA ReadableReading ==
    ASSUME NEW e \in Seq(Lexemes), NEW leftOut, "sort" \in leftOut, "c" \notin leftOut,
           NEW ts, ts = Reading(e, PathContains, leftOut)
    PROVE  \E T : /\ IsReadable(T) /\ ts \in Seq(T)
                  /\ \A k \in 1..Len(e) : e[k].kind = "c" =>
                       \E i \in 1..Len(ts) : ts[i] = Token(ContentContains, e[k].value)
<1>1. Len(e) \in Nat /\ \A k \in 1..Len(e) : e[k] \in Lexemes
  OBVIOUS
<1>2. PICK type : type = PathContains
  OBVIOUS
<1>3. PICK T : T = TokensOf(e, type, leftOut)
  OBVIOUS
<1>4. /\ ts \in Seq(T)
      /\ \A k \in Taken(e, leftOut) : \E i \in 1..Len(ts) : ts[i] = TokenOf(e[k], type)
  BY <1>1, <1>2, <1>3, ReadingFacts
<1>5. ASSUME NEW t \in T
      PROVE  /\ t.type \in TokenTypes
             /\ t.type \in {ContentContains, Word} =>
                   t.value \subseteq Vocabulary /\ IsFiniteSet(t.value)
  <2>1. PICK k \in 1..Len(e) : e[k].kind \notin leftOut /\ t = TokenOf(e[k], type)
    BY <1>3 DEF TokensOf, Taken
  <2>2. PICK l \in Lexemes : l = e[k] /\ l.kind # "sort" /\ t = TokenOf(l, type)
    BY <1>1, <2>1
  <2>3. PathContains \in OperandTypes
    BY DEF OperandTypes
  <2>4. t.type \in TokenTypes
    BY <1>2, <2>2, <2>3, TokenOfFacts
  <2>5. ASSUME t.type \in {ContentContains, Word}
        PROVE  t.value \subseteq Vocabulary /\ IsFiniteSet(t.value)
    <3>1. l.kind = "c" /\ t = Token(ContentContains, l.value)
      BY <1>2, <2>2, <2>5, ContentKind
    <3>2. t.value = l.value
      BY <3>1 DEF Token
    <3> QED
      BY <3>1, <3>2, WordsAssumption
  <2> QED
    BY <2>4, <2>5
<1>6. ASSUME NEW k \in 1..Len(e), e[k].kind = "c"
      PROVE  \E i \in 1..Len(ts) : ts[i] = Token(ContentContains, e[k].value)
  <2>1. k \in Taken(e, leftOut)
    BY <1>6 DEF Taken
  <2>2. PICK l \in Lexemes : l = e[k]
    BY <1>1
  <2>3. TokenOf(l, type) = Token(ContentContains, l.value)
    BY <1>6, <2>2, ContentKind
  <2> QED
    BY <1>4, <2>1, <2>2, <2>3
<1>7. IsReadable(T)
  BY <1>5 DEF IsReadable
<1> QED
  BY <1>4, <1>6, <1>7

\* So are the words of the search line, put together.
LEMMA WordsReadable ==
    ASSUME expression \in Seq(Lexemes)
    PROVE  WordsUp \subseteq Vocabulary /\ IsFiniteSet(WordsUp)
<1>1. PICK e : e = expression
  OBVIOUS
<1>2. Len(e) \in Nat /\ \A k \in 1..Len(e) : e[k] \in Lexemes
  BY <1>1
<1>3. PICK D : D = {j \in 1..Len(e) : e[j].kind = "word"}
  OBVIOUS
<1>4. PICK V : V = {e[i].value : i \in D}
  OBVIOUS
<1>5. WordsUp = UNION V
  BY <1>1, <1>3, <1>4 DEF WordsUp, WordsUpTo
<1>6. \A v \in V : v \subseteq Vocabulary /\ IsFiniteSet(v)
  <2>1. \A i \in D : e[i] \in Lexemes /\ e[i].kind = "word"
    BY <1>2, <1>3
  <2>2. \A i \in D : e[i].value \subseteq Vocabulary /\ IsFiniteSet(e[i].value)
    BY <2>1, WordsAssumption
  <2> QED
    BY <1>4, <2>2
<1>7. IsFiniteSet(D)
  <2>1. IsFiniteSet(1..Len(e))
    <3>1. 1 \in Int /\ Len(e) \in Int
      BY <1>2
    <3> QED
      BY <3>1, FS_Interval
  <2>2. D \in SUBSET (1..Len(e))
    BY <1>3
  <2> QED
    BY <2>1, <2>2, FS_Subset
<1>8. IsFiniteSet(V)
  <2>1. PICK f : f = [i \in D |-> e[i].value]
    OBVIOUS
  <2>2. f \in Surjection(D, V)
    BY <1>4, <2>1 DEF Surjection
  <2> QED
    BY <1>7, <2>2, FS_Surjection
<1> QED
  BY <1>5, <1>6, <1>8, FS_UNION

\* A word that is meant to be in the content is of a content filter, or a word of the line
\* where these are looked for in the content.
LEMMA WordsMeantAre ==
    ASSUME expression \in Seq(Lexemes), NEW w \in WordsMeant
    PROVE  \E k \in 1..Len(expression) :
              /\ w \in expression[k].value
              /\ \/ expression[k].kind = "c"
                 \/ expression[k].kind = "word" /\ LoneWordsAre = ContentContains
<1>1. PICK e, L : e = expression /\ L = {"sort"}
  OBVIOUS
<1>2. Len(e) \in Nat /\ \A k \in 1..Len(e) : e[k] \in Lexemes
  BY <1>1
<1>3. PICK type : type = LoneWordsAre
  OBVIOUS
<1>4. PICK ts : ts = Reading(e, type, L)
  OBVIOUS
<1>5. PICK i \in DOMAIN ts : ts[i].type = ContentContains /\ w \in ts[i].value
  BY <1>1, <1>3, <1>4 DEF WordsMeant
<1>6. /\ ts \in Seq(TokensOf(e, type, L))
      /\ \A n \in 1..Len(ts) : \E k \in Taken(e, L) : ts[n] = TokenOf(e[k], type)
  BY <1>2, <1>4, ReadingFacts
<1>7. PICK k \in Taken(e, L) : ts[i] = TokenOf(e[k], type)
  BY <1>5, <1>6
<1>8. k \in 1..Len(e) /\ e[k].kind # "sort"
  BY <1>1, <1>7 DEF Taken
<1>9. PICK l \in Lexemes : l = e[k] /\ l.kind # "sort" /\ ts[i] = TokenOf(l, type)
  BY <1>2, <1>7, <1>8
<1>10. CASE l.kind = "word"
  <2>1. ts[i] = Token(type, l.value)
    BY <1>9, <1>10, TokenOfFacts
  <2>2. ts[i].type = type /\ ts[i].value = l.value
    BY <2>1 DEF Token
  <2> QED
    BY <1>1, <1>3, <1>5, <1>8, <1>9, <1>10, <2>2
<1>11. CASE l.kind # "word"
  <2>1. TokenOf(l, type) = TokenOf(l, PathContains)
    BY <1>9, <1>11, SameToken
  <2>2. l.kind = "c"
    BY <1>5, <1>9, <2>1, ContentKind
  <2>3. ts[i] = Token(ContentContains, l.value)
    BY <1>9, <2>2, ContentKind
  <2>4. ts[i].value = l.value
    BY <2>3 DEF Token
  <2> QED
    BY <1>1, <1>5, <1>8, <1>9, <2>2, <2>4
<1> QED
  BY <1>10, <1>11

\* The query of the search line, where it is accepted.
LEMMA LineAccepted ==
    ASSUME expression \in Seq(Lexemes), expression # <<>>, NEW q, q = LineQuery, ~q.error
    PROVE  /\ IsQuery(q)
           /\ "word" \notin Kinds => q.tokens = AddAnds(LineFilters)
           /\ "word" \in Kinds => q.tokens = AddAnds(Together)
           /\ HasLoneWords(q) <=> "word" \in Kinds
           /\ HasContentSearch(q) <=> Kinds \cap ContentKinds # {}
           /\ HasPathSearch(q) <=> Kinds \cap (PathKinds \cup {"size"}) # {}
<1>1. PICK merge \in BOOLEAN : merge = TRUE
  OBVIOUS
<1>2. PICK type \in {Word, PathContains} : type = Word
  OBVIOUS
<1>3. /\ LeftOut(merge) = {"sort", "word"} /\ Merged(expression, merge) = WordsUp
      /\ Reading(expression, type, LeftOut(merge)) = LineFilters
  BY <1>1, WordsMerged, LineReading
<1>4. q = Build(expression, type, merge)
  BY <1>1, <1>2 DEF LineQuery
<1>5. Accepted(Build(expression, type, merge), expression, type, merge)
  BY <1>4, AcceptedIs
<1>6. /\ IsQuery(q)
      /\ WordsUp = {} => q.tokens = AddAnds(LineFilters) /\ q.mask = MaskOf(LineFilters)
      /\ WordsUp # {} => q.tokens = AddAnds(Together) /\ q.mask = MaskOf(LineFilters) \cup Word
  BY <1>2, <1>3, <1>4, <1>5 DEF Accepted, Together
<1>7. PICK m : m = MaskOf(Reading(expression, type, LeftOut(merge)))
  OBVIOUS
<1>8. /\ 8 \in m <=> ("word" \in Kinds /\ ~merge /\ type = Word)
      /\ 512 \in m <=> Kinds \cap ContentKinds # {}
      /\ 256 \in m <=> \/ Kinds \cap (PathKinds \cup {"size"}) # {}
                       \/ "word" \in Kinds /\ ~merge /\ type = PathContains
  BY <1>7, MaskBits
<1>9. m = MaskOf(LineFilters)
  BY <1>3, <1>7
<1>10. /\ "word" \in Kinds => q.mask = m \cup Word
       /\ "word" \notin Kinds => q.mask = m
  BY <1>6, <1>9, WordsMerged
<1>11. /\ 8 \in q.mask <=> "word" \in Kinds
       /\ 512 \in q.mask <=> 512 \in m
       /\ 256 \in q.mask <=> 256 \in m
  BY <1>1, <1>8, <1>10 DEF Word
<1>12. /\ HasLoneWords(q) <=> 8 \in q.mask
       /\ HasContentSearch(q) <=> 512 \in q.mask
       /\ HasPathSearch(q) <=> 256 \in q.mask
  BY DEF HasLoneWords, HasContentSearch, HasPathSearch, Word, FilterContent, FilterPath
<1> QED
  BY <1>1, <1>6, <1>8, <1>11, <1>12, WordsMerged

\* Each word that is meant to be in the content is in a content filter.
Finds(ts) ==
    \A w \in WordsMeant : \E i \in 1..Len(ts) : ts[i].type = ContentContains /\ w \in ts[i].value

LEMMA TokenHasWord ==
    ASSUME NEW ts, NEW i \in 1..Len(ts), NEW v, ts[i] = Token(ContentContains, v), NEW w \in v
    PROVE  \E k \in 1..Len(ts) : ts[k].type = ContentContains /\ w \in ts[k].value
<1>1. ts[i].type = ContentContains /\ ts[i].value = v
  BY DEF Token
<1> QED
  BY <1>1

\* Filters alone, or with words that are looked for in paths.
LEMMA FiltersHaveWords ==
    ASSUME expression \in Seq(Lexemes), NEW leftOut, "sort" \in leftOut, "c" \notin leftOut,
           NEW ts, ts = Reading(expression, PathContains, leftOut), NEW us, us = AddAnds(ts),
           "word" \in Kinds => LoneWordsAre # ContentContains
    PROVE  \E T : IsReadable(T) /\ us \in Seq(T) /\ Finds(us)
<1>1. PICK e : e = expression
  OBVIOUS
<1>2. PICK T : /\ IsReadable(T) /\ ts \in Seq(T)
               /\ \A k \in 1..Len(e) : e[k].kind = "c" =>
                     \E i \in 1..Len(ts) : ts[i] = Token(ContentContains, e[k].value)
  <2>1. e \in Seq(Lexemes) /\ ts = Reading(e, PathContains, leftOut)
    BY <1>1
  <2> QED
    BY <2>1, ReadableReading
<1>3. /\ IsReadable(T \cup {Mark(And)}) /\ us \in Seq(T \cup {Mark(And)})
      /\ \A i \in 1..Len(ts) : \E k \in 1..Len(us) : us[k] = ts[i]
  BY <1>2, AndsAdded
<1>4. ASSUME NEW w \in WordsMeant
      PROVE  \E i \in 1..Len(us) : us[i].type = ContentContains /\ w \in us[i].value
  <2>1. PICK k \in 1..Len(e) : w \in e[k].value /\
               (e[k].kind = "c" \/ (e[k].kind = "word" /\ LoneWordsAre = ContentContains))
    BY <1>1, WordsMeantAre
  <2>2. e[k].kind = "c"
    BY <1>1, <2>1 DEF Kinds
  <2>3. PICK i \in 1..Len(ts) : ts[i] = Token(ContentContains, e[k].value)
    BY <1>2, <2>2
  <2>4. PICK n \in 1..Len(us) : us[n] = Token(ContentContains, e[k].value)
    BY <1>3, <2>3
  <2> QED
    BY <2>1, <2>4, TokenHasWord
<1> QED
  BY <1>3, <1>4 DEF Finds

LEMMA AndsKeep ==
    ASSUME NEW T, IsReadable(T), NEW ts, ts \in Seq(T), NEW us, us = AddAnds(ts)
    PROVE  \E V : /\ IsReadable(V) /\ us \in Seq(V)
                  /\ \A i \in 1..Len(ts) : \E k \in 1..Len(us) : us[k] = ts[i]
<1>1. /\ IsReadable(T \cup {Mark(And)}) /\ us \in Seq(T \cup {Mark(And)})
      /\ \A i \in 1..Len(ts) : \E k \in 1..Len(us) : us[k] = ts[i]
  BY AndsAdded
<1>2. PICK V : V = T \cup {Mark(And)}
  OBVIOUS
<1> QED
  BY <1>1, <1>2

\* The words of the line together, as a content filter.
LEMMA WordsHaveWords ==
    ASSUME expression \in Seq(Lexemes), "word" \in Kinds, NEW us, us = WordTokens
    PROVE  \E T : IsReadable(T) /\ us \in Seq(T) /\ Finds(us)
<1>1. PICK e, L : e = expression /\ L = {"sort", "word"}
  OBVIOUS
<1>2. PICK ls : ls = LineFilters
  OBVIOUS
<1>3. PICK T : /\ IsReadable(T) /\ ls \in Seq(T)
               /\ \A k \in 1..Len(e) : e[k].kind = "c" =>
                     \E i \in 1..Len(ls) : ls[i] = Token(ContentContains, e[k].value)
  <2>1. e \in Seq(Lexemes) /\ ls = Reading(e, PathContains, L) /\ "sort" \in L /\ "c" \notin L
    BY <1>1, <1>2 DEF LineFilters
  <2> QED
    BY <2>1, ReadableReading
<1>4. PICK t : t = Token(Word, WordsUp)
  OBVIOUS
<1>5. t.type = Word /\ t.value = WordsUp /\ t.type \in TokenTypes
  BY <1>4 DEF Token, TokenTypes, OperandTypes
<1>6. PICK ts : ts = Append(ls, t)
  OBVIOUS
<1>7. PICK U : U = T \cup {t}
  OBVIOUS
<1>8. IsReadable(U)
  BY <1>3, <1>5, <1>7, WordsReadable DEF IsReadable
<1>9. /\ ts \in Seq(U) /\ Len(ts) \in Nat /\ Len(ts) = Len(ls) + 1 /\ ts[Len(ts)] = t
      /\ \A i \in 1..Len(ls) : ts[i] = ls[i]
  BY <1>3, <1>6, <1>7, OneMore
<1>10. PICK bs : bs = AddAnds(ts)
  OBVIOUS
<1>11. ts \in Seq(U)
  BY <1>9
<1>12. PICK V : /\ IsReadable(V) /\ bs \in Seq(V)
                /\ \A i \in 1..Len(ts) : \E k \in 1..Len(bs) : bs[k] = ts[i]
  BY <1>8, <1>10, <1>11, AndsKeep
<1>13. us = FinalTokens(bs, ContentContains)
  BY <1>2, <1>4, <1>6, <1>10 DEF WordTokens, Together
<1>14. PICK W : /\ IsReadable(W) /\ us \in Seq(W) /\ Len(us) = Len(bs)
                /\ \A k \in 1..Len(bs) :
                     us[k] = IF bs[k].type = Word THEN Token(ContentContains, bs[k].value) ELSE bs[k]
  BY <1>12, <1>13, WordsTurned
<1>15. ASSUME NEW w \in WordsMeant
       PROVE  \E i \in 1..Len(us) : us[i].type = ContentContains /\ w \in us[i].value
  <2>1. PICK k \in 1..Len(e) : w \in e[k].value /\
               (e[k].kind = "c" \/ (e[k].kind = "word" /\ LoneWordsAre = ContentContains))
    BY <1>1, WordsMeantAre
  <2>2. CASE e[k].kind = "c"
    <3>1. PICK i \in 1..Len(ls) : ls[i] = Token(ContentContains, e[k].value)
      BY <1>3, <2>2
    <3>2. i \in 1..Len(ts) /\ ts[i] = ls[i]
      <4>1. Len(ls) \in Nat
        BY <1>3
      <4> QED
        BY <1>9, <4>1
    <3>3. PICK n \in 1..Len(bs) : bs[n] = Token(ContentContains, e[k].value)
      BY <1>12, <3>1, <3>2
    <3>4. bs[n].type # Word
      <4>1. bs[n].type = ContentContains
        BY <3>3 DEF Token
      <4>2. 8 \in Word /\ 8 \notin ContentContains
        BY DEF Word, ContentContains
      <4> QED
        BY <4>1, <4>2
    <3>5. n \in 1..Len(us) /\ us[n] = Token(ContentContains, e[k].value)
      BY <1>14, <3>3, <3>4
    <3> QED
      BY <2>1, <3>5, TokenHasWord
  <2>3. CASE e[k].kind = "word"
    <3>1. w \in WordsUp
      BY <1>1, <2>1, <2>3 DEF WordsUp, WordsUpTo
    <3>2. Len(ts) \in 1..Len(ts)
      <4>1. Len(ls) \in Nat
        BY <1>3
      <4> QED
        BY <1>9, <4>1
    <3>3. PICK n \in 1..Len(bs) : bs[n] = t
      BY <1>9, <1>12, <3>2
    <3>4. n \in 1..Len(us) /\ us[n] = Token(ContentContains, WordsUp)
      BY <1>5, <1>14, <3>3
    <3> QED
      BY <3>1, <3>4, TokenHasWord
  <2> QED
    BY <2>1, <2>2, <2>3
<1> QED
  BY <1>14, <1>15 DEF Finds

\* It is no search of the content, or has them all.
LEMMA ContentQueryIs ==
    ASSUME expression \in Seq(Lexemes), ~LineQuery.error, NEW q, q = ContentQuery(LineQuery), ~q.error
    PROVE  \E T : /\ IsReadable(T) /\ q.tokens \in Seq(T)
                  /\ q.tokens = <<>> \/ Finds(q.tokens)
<1>1. PICK l : l = LineQuery /\ ~l.error
  OBVIOUS
<1>2. CASE ~AddsContentSearch(l)
  <2>1. q = [l EXCEPT !.tokens = <<>>]
    BY <1>1, <1>2 DEF ContentQuery, AddsContentSearch
  <2>2. "tokens" \in DOMAIN l
    <3>1. CASE expression = <<>>
      BY <1>1, <3>1 DEF LineQuery, Build, NoQuery
    <3>2. CASE expression # <<>>
      BY <1>1, <3>2, LineAccepted DEF IsQuery
    <3> QED
      BY <3>1, <3>2
  <2>3. q.tokens = <<>>
    BY <2>1, <2>2
  <2>4. IsReadable({}) /\ <<>> \in Seq({})
    BY DEF IsReadable
  <2> QED
    BY <2>3, <2>4
<1>3. CASE AddsContentSearch(l)
  <2>1. expression # <<>>
    <3>1. ASSUME expression = <<>> PROVE FALSE
      <4>1. l.mask = {}
        BY <1>1, <3>1 DEF LineQuery, Build, NoQuery
      <4> QED
        BY <1>3, <4>1 DEF AddsContentSearch, HasLoneWords, HasContentSearch, FilterContent
    <3> QED
      BY <3>1
  <2>2. /\ IsQuery(l)
        /\ "word" \notin Kinds => l.tokens = AddAnds(LineFilters)
        /\ "word" \in Kinds => l.tokens = AddAnds(Together)
        /\ HasLoneWords(l) <=> "word" \in Kinds
        /\ HasContentSearch(l) <=> Kinds \cap ContentKinds # {}
        /\ HasPathSearch(l) <=> Kinds \cap (PathKinds \cup {"size"}) # {}
    BY <1>1, <2>1, LineAccepted
  <2>3. PICK L, M : L = {"sort"} /\ M = {"sort", "word"}
    OBVIOUS
  <2>4. CASE HasLoneWords(l) /\ ~HasPathSearch(l) /\ HasContentSearch(l)
    <3>1. q = PathsQuery
      BY <1>1, <1>3, <2>4 DEF ContentQuery
    <3>2. PICK merge \in BOOLEAN : merge = FALSE
      OBVIOUS
    <3>3. PICK type : type = PathContains
      OBVIOUS
    <3>4. q = Build(expression, type, merge)
      BY <3>1, <3>2, <3>3 DEF PathsQuery
    <3>5. Accepted(Build(expression, type, merge), expression, type, merge)
      BY <2>1, <3>4, AcceptedIs
    <3>6. Merged(expression, merge) = {} /\ LeftOut(merge) = L
      BY <2>3, <3>2 DEF Merged, LeftOut
    <3>7. q.tokens = AddAnds(Reading(expression, type, L))
      BY <3>4, <3>5, <3>6 DEF Accepted
    <3>8. PICK ts : ts = Reading(expression, PathContains, L)
      OBVIOUS
    <3>9. PICK us : us = AddAnds(ts)
      OBVIOUS
    <3>10. q.tokens = us
      BY <3>3, <3>7, <3>8, <3>9
    <3>11. LoneWordsAre # ContentContains
      <4>1. LoneWordsAre = PathContains
        BY <2>2, <2>4 DEF LoneWordsAre
      <4>2. 512 \in ContentContains /\ 512 \notin PathContains
        BY DEF ContentContains, PathContains
      <4> QED
        BY <4>1, <4>2
    <3>12. \E T : IsReadable(T) /\ us \in Seq(T) /\ Finds(us)
      BY <2>3, <3>8, <3>9, <3>11, FiltersHaveWords
    <3> QED
      BY <3>10, <3>12
  <2>5. CASE HasLoneWords(l) /\ (HasPathSearch(l) \/ ~HasContentSearch(l))
    <3>1. q = WordsAs(l, ContentContains)
      BY <1>1, <1>3, <2>5 DEF ContentQuery
    <3>2. q.tokens = FinalTokens(l.tokens, ContentContains)
      BY <2>2, <3>1 DEF WordsAs, IsQuery
    <3>3. q.tokens = WordTokens
      BY <2>2, <2>5, <3>2 DEF WordTokens
    <3>4. PICK us : us = WordTokens
      OBVIOUS
    <3>5. \E T : IsReadable(T) /\ us \in Seq(T) /\ Finds(us)
      BY <2>2, <2>5, <3>4, WordsHaveWords
    <3> QED
      BY <3>3, <3>4, <3>5
  <2>6. CASE ~HasLoneWords(l)
    <3>1. q = l
      BY <1>1, <1>3, <2>6 DEF ContentQuery
    <3>2. "word" \notin Kinds
      BY <2>2, <2>6
    <3>3. PICK ts : ts = Reading(expression, PathContains, M)
      OBVIOUS
    <3>4. PICK us : us = AddAnds(ts)
      OBVIOUS
    <3>5. q.tokens = us
      BY <2>2, <2>3, <3>1, <3>2, <3>3, <3>4 DEF LineFilters
    <3>6. \E T : IsReadable(T) /\ us \in Seq(T) /\ Finds(us)
      BY <2>3, <3>2, <3>3, <3>4, FiltersHaveWords
    <3> QED
      BY <3>5, <3>6
  <2> QED
    BY <2>4, <2>5, <2>6
<1> QED
  BY <1>2, <1>3

----------------------------------------------------------------------------
\* A file that a search with a content filter finds has a page with the words of it.
LEMMA FoundHasWords ==
    ASSUME NEW ts, Typed(ts), Finds(ts), NEW q, q.tokens = ts, Usable(ts),
           NEW f \in Files, f.path \in RunQuery(q).files, NEW w \in WordsMeant \ DOMAIN Stripped
    PROVE  \E page \in f.pages : w \in page.words
<1>1. RunQuery(q) # Error
  <2>1. Error.files = {}
    BY DEF Error
  <2> QED
    BY <2>1
<1>2. /\ ts # <<>> /\ Grammatical(ts, FALSE)
      /\ \A i \in DOMAIN ts : Known(q, ts[i])
      /\ RunQuery(q) = Found({r.file.path : r \in Selected(ts, Rows(q))})
  BY <1>1 DEF RunQuery
<1>3. RunQuery(q).files = {r.file.path : r \in Selected(ts, Rows(q))}
  BY <1>2 DEF Found
<1>4. PICK R : R = Rows(q)
  OBVIOUS
<1>5. PICK r \in Selected(ts, R) : r.file.path = f.path
  BY <1>3, <1>4
<1>6. Len(ts) > 0 /\ DOMAIN ts = 1..Len(ts) /\ Len(ts) \in Nat
  <2>1. EndsFactor(ts[Len(ts)]) /\ StartsFactor(ts[1])
    BY <1>2 DEF Grammatical
  <2>2. PICK i \in 1..Len(ts) : ts[i].type = ContentContains /\ w \in ts[i].value
    BY DEF Finds
  <2>3. Len(ts) \in Nat /\ DOMAIN ts = 1..Len(ts)
    BY DEF Typed
  <2> QED
    BY <2>2, <2>3
<1>7. PICK i \in 1..Len(ts) : ts[i].type = ContentContains /\ w \in ts[i].value
  BY DEF Finds
<1>8. PICK j : j = FALSE
  OBVIOUS
<1>9. Holds(ts[i], r)
  <2>1. Grammatical(ts, j)
    BY <1>2, <1>8
  <2> QED
    BY <1>2, <1>5, <1>6, <1>7, <2>1, ContentHolds
<1>10. w \in r.page.words
  <2>1. EscapeFtsArgument(ts[i].value) \subseteq r.page.words
    BY <1>7, <1>9, HoldsIs
  <2>2. w \in EscapeFtsArgument(ts[i].value)
    BY <1>7 DEF EscapeFtsArgument
  <2> QED
    BY <2>1, <2>2
<1>11. r \in R
  <2>1. ts[Len(ts)].type # Negation
    BY <1>2, NegationFacts, MarkTypes DEF Grammatical, EndsFactor, IsOperand
  <2> QED
    BY <1>5, <1>6, <2>1, SelectedRows
<1>12. JoinsContent(q)
  <2>1. Known(q, ts[i])
    BY <1>2, <1>6, <1>7
  <2>2. FilterContent \subseteq ContentContains
    BY DEF FilterContent, ContentContains
  <2> QED
    BY <1>7, <2>1, <2>2 DEF Known
<1>13. r.file \in Files /\ r.page \in r.file.pages
  <2>1. PICK g \in Files : r \in [file : {g},
                                  entry : IF JoinsOutline(q) THEN g.outline ELSE {{}},
                                  page : IF JoinsContent(q) THEN g.pages ELSE {NoPage}]
    BY <1>4, <1>11 DEF Rows
  <2>2. r.file = g /\ r.page \in g.pages
    BY <1>12, <2>1
  <2> QED
    BY <2>2
<1>14. r.file = f
  BY <1>5, <1>13, FilesAssumption
<1> QED
  BY <1>10, <1>13, <1>14

\* The words of a list that the search gives, and the lines of the file that have them.
LEMMA SearchHasLine ==
    ASSUME expression \in Seq(Lexemes), ~LineQuery.error, NEW q, q = ContentQuery(LineQuery),
           ~q.error, NEW ws \in WordsToHighlight(q)
    PROVE  /\ ws \in Seq(Vocabulary)
           /\ TextFile.path \in RunQuery(q).files /\ Usable(q.tokens)
              /\ (\A page \in TextFile.pages : IndexedAs(page)) =>
                 \A w \in WordsMeant \ DOMAIN Stripped :
                    /\ \E k \in 1..Len(ws) : ws[k] = w
                    /\ \E n \in DOMAIN disk : \E v \in disk[n] : w = v \/ w \in Parts[v]
<1>1. PICK T : /\ IsReadable(T) /\ q.tokens \in Seq(T)
               /\ q.tokens = <<>> \/ Finds(q.tokens)
  BY ContentQueryIs
<1>2. PICK ts : ts = q.tokens
  OBVIOUS
<1>3. Readable(ts) /\ Typed(ts)
  BY <1>1, <1>2, ReadableSeq
<1>4. /\ ws \in Seq(Vocabulary)
      /\ \A i \in 1..Len(ts) : ts[i].type = ContentContains =>
           \A w \in ts[i].value : \E k \in 1..Len(ws) : ws[k] = w
  BY <1>2, <1>3, HighlightFacts
<1>5. ASSUME TextFile.path \in RunQuery(q).files, \A page \in TextFile.pages : IndexedAs(page),
             Usable(q.tokens), NEW w \in WordsMeant \ DOMAIN Stripped
      PROVE  /\ \E k \in 1..Len(ws) : ws[k] = w
             /\ \E n \in DOMAIN disk : \E v \in disk[n] : w = v \/ w \in Parts[v]
  <2>1. Finds(ts)
    <3>1. ts # <<>>
      <4>1. Error.files = {}
        BY DEF Error
      <4> QED
        BY <1>2, <1>5, <4>1 DEF RunQuery
    <3> QED
      BY <1>1, <1>2, <3>1
  <2>2. \E k \in 1..Len(ws) : ws[k] = w
    BY <1>4, <2>1 DEF Finds
  <2>3. PICK page \in TextFile.pages : w \in page.words
    BY <1>2, <1>3, <1>5, <2>1, TextFileAssumption, FoundHasWords
  <2>4. \E n \in DOMAIN disk : \E v \in disk[n] : w = v \/ w \in Parts[v]
    BY <1>5, <2>3 DEF IndexedAs
  <2> QED
    BY <2>2, <2>4
<1> QED
  BY <1>4, <1>5

\* Something is found, so neither reading of the line is an error.
LEMMA FoundNoError ==
    ASSUME expression \in Seq(Lexemes), NEW p \in LineEditSearch.files
    PROVE  ~LineQuery.error /\ ~ContentQuery(LineQuery).error
<1>1. PICK l : l = LineQuery
  OBVIOUS
<1>2. Error.files = {}
  BY DEF Error
<1>3. ~l.error
  BY <1>1, <1>2 DEF LineEditSearch
<1>4. PICK c : c = ContentQuery(l)
  OBVIOUS
<1>5. CASE AddsContentSearch(l)
  <2>1. ASSUME c.error PROVE FALSE
    <3>1. RunQuery(c) = Error
      BY <2>1 DEF RunQuery
    <3>2. CASE ~AddsPathSearch(l)
      BY <1>1, <1>2, <1>3, <1>4, <1>5, <3>1, <3>2 DEF LineEditSearch
    <3>3. CASE AddsPathSearch(l)
      <4>1. PICK a : LineEditSearch = Both(a, RunQuery(c))
        BY <1>1, <1>3, <1>4, <1>5, <3>3 DEF LineEditSearch
      <4>2. Error.error
        BY DEF Error
      <4>3. LineEditSearch = Error
        BY <3>1, <4>1, <4>2 DEF Both
      <4> QED
        BY <1>2, <4>3
    <3> QED
      BY <3>2, <3>3
  <2> QED
    BY <1>1, <1>3, <1>4, <2>1
<1>6. CASE ~AddsContentSearch(l)
  <2>1. c = [l EXCEPT !.tokens = <<>>]
    BY <1>4, <1>6 DEF ContentQuery, AddsContentSearch
  <2>2. c.error = l.error
    BY <2>1
  <2> QED
    BY <1>1, <1>3, <1>4, <2>2
<1> QED
  BY <1>5, <1>6

----------------------------------------------------------------------------
\* Whatever the list finds in a line of a snippet was counted, torn words and tags included.
HitsSeen(s) ==
    \A k \in DOMAIN s.lines : \A i \in DOMAIN words :
        Hit(i, s.lines[k].line) => s.counts[words[i]] > 0
SeenInv == HitsSeen(current) /\ \A i \in DOMAIN snippets : HitsSeen(snippets[i])

LEMMA AppendKeepsSeen ==
    ASSUME ReaderTypeOK, NEW s \in Snippet, HitsSeen(s), NEW e \in Seq(EntryType)
    PROVE  HitsSeen(AppendLines(s, e))
<1> DEFINE r == AppendLines(s, e)
<1>1. /\ words \in Seq(Vocabulary) /\ Len(words) \in Nat /\ DOMAIN words = 1..Len(words)
      /\ DOMAIN e = 1..Len(e) /\ Len(e) \in Nat
      /\ Len(s.lines) \in Nat /\ DOMAIN s.lines = 1..Len(s.lines)
      /\ s.counts \in [Vocabulary -> Nat]
  BY DEF ReaderTypeOK, Snippet
<1>2. /\ DOMAIN r.lines = 1..Len(s.lines) + Len(e)
      /\ \A k \in 1..Len(s.lines) : r.lines[k] = s.lines[k]
      /\ \A k \in 1..Len(e) : r.lines[Len(s.lines) + k] = e[k]
  BY AppendLinesFacts
<1> SUFFICES ASSUME NEW k \in DOMAIN r.lines, NEW i \in DOMAIN words, Hit(i, r.lines[k].line)
             PROVE  r.counts[words[i]] > 0
  BY DEF HitsSeen
<1> DEFINE w == words[i]
           hits == {p \in (DOMAIN words) \X (DOMAIN e) :
                       words[p[1]] = w /\ Hit(p[1], e[p[2]].line)}
<1>3. w \in Vocabulary /\ s.counts[w] \in Nat
  BY <1>1
<1>4. r.counts[w] = s.counts[w] + Cardinality(hits)
  BY <1>3 DEF AppendLines
<1>5. IsFiniteSet(hits) /\ Cardinality(hits) \in Nat
  <2>1. IsFiniteSet(DOMAIN words) /\ IsFiniteSet(DOMAIN e)
    <3>1. IsFiniteSet(DOMAIN words)
      BY <1>1, FS_Interval
    <3>2. IsFiniteSet(DOMAIN e)
      BY <1>1, FS_Interval
    <3> QED
      BY <3>1, <3>2
  <2>2. IsFiniteSet((DOMAIN words) \X (DOMAIN e)) /\ hits \subseteq (DOMAIN words) \X (DOMAIN e)
    BY <2>1, FS_Product
  <2> QED
    BY <2>2, FS_Subset, FS_CardinalityType
<1>6. CASE k \in 1..Len(s.lines)
  <2>1. r.lines[k] = s.lines[k] /\ k \in DOMAIN s.lines
    BY <1>1, <1>2, <1>6
  <2>2. s.counts[w] > 0
    BY <2>1 DEF HitsSeen
  <2> QED
    BY <1>3, <1>4, <1>5, <2>2
<1>7. CASE k \notin 1..Len(s.lines)
  <2>1. PICK m \in 1..Len(e) : k = Len(s.lines) + m
    <3>1. k \in Nat /\ k > Len(s.lines) /\ k <= Len(s.lines) + Len(e)
      BY <1>1, <1>2, <1>7
    <3>2. k - Len(s.lines) \in 1..Len(e) /\ k = Len(s.lines) + (k - Len(s.lines))
      BY <1>1, <3>1
    <3> QED
      BY <3>2
  <2>2. r.lines[k] = e[m] /\ m \in DOMAIN e
    BY <1>1, <1>2, <2>1
  <2>3. <<i, m>> \in hits
    BY <2>2
  <2>4. Cardinality(hits) # 0
    BY <1>5, <2>3, FS_EmptySet
  <2> QED
    BY <1>3, <1>4, <1>5, <2>4
<1> QED
  BY <1>6, <1>7

LEMMA NothingSeen == HitsSeen(NoSnippet)
BY NoSnippetFacts DEF HitsSeen

\* What is found in a line depends on the text and the list alone.
LEMMA SameHits ==
    ASSUME UNCHANGED <<text, words>>
    PROVE  /\ \A i, n : Hit(i, n)' = Hit(i, n)
           /\ \A s : HitsSeen(s)' <=> HitsSeen(s)
<1>1. \A i, n : Hit(i, n)' = Hit(i, n)
  BY DEF Hit, Occurs
<1> QED
  BY <1>1 DEF HitsSeen

LEMMA SeenKept ==
    ASSUME UNCHANGED <<text, words>>, HitsSeen(current'),
           \A i \in DOMAIN snippets' : HitsSeen(snippets'[i])
    PROVE  SeenInv'
<1>1. \A i, n : Hit(i, n)' = Hit(i, n)
  BY SameHits
<1> QED
  BY <1>1 DEF SeenInv, HitsSeen

LEMMA SeenNext == OrderInv /\ SeenInv /\ [ReaderNext]_readerVars => SeenInv'
<1> SUFFICES ASSUME OrderInv, SeenInv, [ReaderNext]_readerVars PROVE SeenInv'
  OBVIOUS
<1>0. ReaderTypeOK /\ HitsSeen(current) /\ \A i \in DOMAIN snippets : HitsSeen(snippets[i])
  BY DEF OrderInv, SeenInv
<1>1. ASSUME NEW t \in Seq(SUBSET Vocabulary), NEW ws \in Seq(Vocabulary), OpenFile(t, ws)
      PROVE  SeenInv'
  <2>1. current' = NoSnippet /\ snippets' = <<>>
    BY <1>1 DEF OrderInv, UnreadInv, OpenFile
  <2>2. DOMAIN current'.lines = {} /\ DOMAIN snippets' = {}
    BY <2>1, NoSnippetFacts
  <2> QED
    BY <2>2 DEF SeenInv, HitsSeen
<1>2. CASE ReadLine
  <2>1. UNCHANGED <<text, words>> /\ readerPc = "read" /\ lineCount < Len(text)
    BY <1>2 DEF ReadLine
  <2>2. CASE ReadOn(lineCount + 1)
    <3> DEFINE n == lineCount + 1
               e == <<Entry(n, n)>>
    <3>1. current' = AppendLines(current, e) /\ snippets' = snippets
      BY <2>2 DEF ReadOn
    <3>2. n \in Line /\ current \in Snippet
      BY <2>1, OrderFacts DEF Line
    <3>3. e \in Seq(EntryType)
      BY <3>2 DEF Entry, EntryType
    <3>4. HitsSeen(current')
      BY <1>0, <3>1, <3>2, <3>3, AppendKeepsSeen
    <3> QED
      BY <1>0, <2>1, <3>1, <3>4, SeenKept
  <2>3. CASE ReadAnew(lineCount + 1)
    <3> DEFINE n == lineCount + 1
               e == QueuedEntries(n) \o <<Entry(n, n)>>
    <3>1. Started \in Snippet /\ HitsSeen(Started)
      BY <1>0, <1>2, <2>3, ReadAnewFacts, NothingSeen DEF Started
    <3>2. /\ snippets' = IF justRead = 0 THEN Append(snippets, current) ELSE snippets
          /\ current' = AppendLines(Started, e) \/ current' = Started
      BY <2>3 DEF ReadAnew, Started
    <3>3. e \in Seq(EntryType)
      BY <2>1, QueuedFacts DEF OrderInv
    <3>4. HitsSeen(current')
      BY <1>0, <3>1, <3>2, <3>3, AppendKeepsSeen
    <3>5. \A i \in DOMAIN snippets' : HitsSeen(snippets'[i])
      <4>1. /\ snippets \in Seq(Snippet) /\ current \in Snippet
            /\ DOMAIN snippets = 1..Len(snippets) /\ Len(snippets) \in Nat
        BY OrderFacts
      <4>2. CASE justRead = 0
        <5>1. /\ DOMAIN snippets' = 1..Len(snippets) + 1 /\ snippets'[Len(snippets) + 1] = current
              /\ \A i \in 1..Len(snippets) : snippets'[i] = snippets[i]
          BY <3>2, <4>1, <4>2
        <5>2. ASSUME NEW i \in DOMAIN snippets' PROVE i \in 1..Len(snippets) \/ i = Len(snippets) + 1
          BY <4>1, <5>1
        <5> QED
          BY <1>0, <4>1, <5>1, <5>2
      <4>3. CASE justRead # 0
        BY <1>0, <3>2, <4>3
      <4> QED
        BY <4>2, <4>3
    <3> QED
      BY <2>1, <3>4, <3>5, SeenKept
  <2> QED
    BY <1>2, <2>2, <2>3 DEF ReadLine
<1>3. CASE EndOfText
  <2>1. /\ UNCHANGED <<text, words>> /\ current' = current
        /\ snippets' = IF current.lines = <<>> THEN snippets ELSE Append(snippets, current)
    BY <1>3 DEF EndOfText
  <2>2. \A i \in DOMAIN snippets' : HitsSeen(snippets'[i])
    <3>1. /\ snippets \in Seq(Snippet) /\ current \in Snippet
          /\ DOMAIN snippets = 1..Len(snippets) /\ Len(snippets) \in Nat
      BY OrderFacts
    <3>2. CASE current.lines # <<>>
      <4>1. /\ DOMAIN snippets' = 1..Len(snippets) + 1 /\ snippets'[Len(snippets) + 1] = current
            /\ \A i \in 1..Len(snippets) : snippets'[i] = snippets[i]
        BY <2>1, <3>1, <3>2
      <4>2. ASSUME NEW i \in DOMAIN snippets' PROVE i \in 1..Len(snippets) \/ i = Len(snippets) + 1
        BY <3>1, <4>1
      <4> QED
        BY <1>0, <3>1, <4>1, <4>2
    <3>3. CASE current.lines = <<>>
      BY <1>0, <2>1, <3>3
    <3> QED
      BY <3>2, <3>3
  <2> QED
    BY <1>0, <2>1, <2>2, SeenKept
<1>4. CASE SortSnippets
  <2>1. UNCHANGED <<text, words>> /\ current' = current
    BY <1>4, SortFacts
  <2>2. PICK f \in [DOMAIN snippets -> DOMAIN snippets] :
           DOMAIN snippets' = DOMAIN snippets /\ \A i \in DOMAIN snippets : snippets'[i] = snippets[f[i]]
    BY <1>4, SortFacts
  <2>3. \A i \in DOMAIN snippets' : HitsSeen(snippets'[i])
    BY <1>0, <2>2
  <2> QED
    BY <1>0, <2>1, <2>3, SeenKept
<1>5. CASE UNCHANGED readerVars
  <2>1. UNCHANGED <<text, words, current, snippets>>
    BY <1>5 DEF readerVars
  <2> QED
    BY <1>0, <2>1, SeenKept
<1> QED
  BY <1>1, <1>2, <1>3, <1>4, <1>5 DEF ReaderNext

LEMMA SeenAlways == ReaderSpec => []SeenInv
<1>1. ReaderInit => SeenInv
  BY NothingSeen DEF ReaderInit, SeenInv
<1> QED
  BY <1>1, OrderCorrect, SeenNext, PTL DEF ReaderSpec

\* So a word of the list that stands in the text, and that no other tears, has a count.
LEMMA MarkedHasCount ==
    ASSUME OrderInv, CoverInv, SeenInv, readerPc = "done", NEW i \in DOMAIN words,
           \A j \in DOMAIN words : words[j] \notin Parts[words[i]],
           NEW n \in DOMAIN text, Occurs(words[i], n)
    PROVE  Total(words[i]) > 0
<1> DEFINE w == words[i]
<1>1. /\ words \in Seq(Vocabulary) /\ DOMAIN words = 1..Len(words) /\ Len(words) \in Nat
      /\ w \in Vocabulary /\ snippets \in Seq(Snippet) /\ Len(snippets) \in Nat
      /\ DOMAIN snippets = 1..Len(snippets)
  BY DEF OrderInv, ReaderTypeOK
<1>2. Occurs(w, n)
  OBVIOUS
<1>3. Hit(i, n)
  <2>1. \A j \in 1..i - 1 : j \in DOMAIN words
    BY <1>1
  <2> QED
    BY <1>2, <2>1 DEF Hit
<1>4. ContextAround
  BY DEF CoverInv, Around, Isolated, ContextAround
<1>5. InSnippet(n)
  <2>1. n \in Nat /\ ContextLines \in Nat /\ Matched(n)
    BY <1>2, ContextLinesAssumption DEF OrderInv, ReaderTypeOK, Matched
  <2>2. n \in n - ContextLines..n + 1
    BY <2>1
  <2> QED
    BY <1>4, <2>1, <2>2 DEF ContextAround
<1>6. PICK j \in DOMAIN snippets : n \in LinesOf(snippets[j])
  BY <1>5 DEF InSnippet
<1>7. PICK k \in DOMAIN snippets[j].lines : snippets[j].lines[k].line = n
  BY <1>6 DEF LinesOf
<1>8. snippets[j].counts[w] > 0
  BY <1>3, <1>7 DEF SeenInv, HitsSeen
<1> DEFINE s == [m \in DOMAIN snippets |-> snippets[m].counts[w]]
<1>9. s \in [1..Len(snippets) -> Nat] /\ s[j] = snippets[j].counts[w] /\ j \in 1..Len(snippets)
  <2>1. ASSUME NEW m \in 1..Len(snippets) PROVE snippets[m].counts[w] \in Nat
    <3>1. snippets[m] \in Snippet
      BY <1>1
    <3> QED
      BY <1>1, <3>1 DEF Snippet
  <2> QED
    BY <1>1, <2>1
<1>10. Total(w) = Sum(s)
  BY DEF Total
<1>11. Sum(s) \in Nat /\ s[j] <= Sum(s)
  <2> HIDE DEF s
  <2> QED
    BY <1>1, <1>9, SumOfNaturals
<1>12. s[j] \in Nat /\ s[j] > 0
  BY <1>8, <1>9
<1> QED
  BY <1>10, <1>11, <1>12

----------------------------------------------------------------------------
(***************************************************************************)
(* The preview of the file is a run of the reader on the text and the      *)
(* words that the search gives.                                            *)
(***************************************************************************)
LEMMA PreviewOpens ==
    ASSUME SearchInv, MakePreview
    PROVE  /\ ~LineQuery.error /\ ~ContentQuery(LineQuery).error
           /\ \E ws \in WordsToHighlight(ContentQuery(LineQuery)) :
                 ws \in Seq(Vocabulary) /\ OpenFile(disk, ws)
<1>1. /\ expression \in Seq(Lexemes)
      /\ TextFile.path \in LineEditSearch.files
  BY DEF SearchInv, MakePreview
<1>2. ~LineQuery.error /\ ~ContentQuery(LineQuery).error
  BY <1>1, FoundNoError
<1>3. PICK q : q = ContentQuery(LineQuery)
  OBVIOUS
<1>4. PICK ws \in WordsToHighlight(q) : OpenFile(disk, ws)
  BY <1>3 DEF MakePreview
<1>5. ws \in Seq(Vocabulary)
  <2>1. ~q.error
    BY <1>2, <1>3
  <2> QED
    BY <1>1, <1>2, <1>3, <1>4, <2>1, SearchHasLine
<1> QED
  BY <1>2, <1>3, <1>4, <1>5

\* Where the words and the text of the preview come from.
SourceInv ==
    /\ disk \in Seq(SUBSET Vocabulary)
    /\ readerPc # "idle" =>
          /\ text = disk
          /\ ~LineQuery.error /\ ~ContentQuery(LineQuery).error
          /\ words \in WordsToHighlight(ContentQuery(LineQuery))

LEMMA SourceNext ==
    ASSUME SearchInv, SourceInv, [Next]_vars
    PROVE  SourceInv' /\ [ReaderNext]_readerVars
<1>1. UNCHANGED <<expression, disk>>
  BY DEF Next, vars, SearchByCommand, SearchByLine, MakePreview, searchVars
<1>2. LineQuery' = LineQuery /\ ContentQuery(LineQuery)' = ContentQuery(LineQuery)
      /\ WordsToHighlight(ContentQuery(LineQuery))' = WordsToHighlight(ContentQuery(LineQuery))
  BY <1>1 DEF LineQuery, PathsQuery, ContentQuery
<1>3. CASE MakePreview
  <2>1. PICK ws \in WordsToHighlight(ContentQuery(LineQuery)) :
           ws \in Seq(Vocabulary) /\ OpenFile(disk, ws)
    BY <1>3, PreviewOpens
  <2>2. text' = disk /\ words' = ws
    BY <2>1 DEF OpenFile
  <2>3. ~LineQuery.error /\ ~ContentQuery(LineQuery).error
    BY <1>3, PreviewOpens
  <2>4. ReaderNext
    BY <2>1 DEF SourceInv, ReaderNext
  <2> QED
    BY <1>1, <1>2, <2>1, <2>2, <2>3, <2>4 DEF SourceInv
<1>4. CASE ReadLine \/ EndOfText \/ SortSnippets
  <2>1. readerPc # "idle" /\ UNCHANGED <<text, words>>
    BY <1>4 DEF ReadLine, EndOfText, SortSnippets
  <2> QED
    BY <1>1, <1>2, <1>4, <2>1 DEF SourceInv, ReaderNext
<1>5. CASE UNCHANGED readerVars
  <2>1. UNCHANGED <<text, words, readerPc>>
    BY <1>5 DEF readerVars
  <2> QED
    BY <1>1, <1>2, <1>5, <2>1 DEF SourceInv
<1> QED
  BY <1>3, <1>4, <1>5 DEF Next, vars

LEMMA SourceAlways == Spec => []SourceInv /\ ReaderSpec
<1>1. Init => SourceInv /\ ReaderInit
  BY OnDiskAssumption DEF Init, ReaderInit, SourceInv
<1>2. SearchInv /\ SourceInv /\ [Next]_vars => SourceInv' /\ [ReaderNext]_readerVars
  BY SourceNext
<1> QED
  BY <1>1, <1>2, SearchInvAlways, PTL DEF Spec, ReaderSpec

\* A text file that a search of the content finds whose every c: must hold, and that has not
\* changed since it was indexed, shows every word that was searched for, at least once, in
\* the count of the header (mainwindow.cpp:779-828, 937-953, previewgeneratorplaintext.cpp:
\* 100-183); but for words that another tears, and words that end with *, whose star the search
\* strips and the preview keeps.
THEOREM FoundMeansMarkedTheorem == Spec => []FoundMeansMarked
<1>1. ASSUME SearchInv, SourceInv, OrderInv, CoverInv, SeenInv PROVE FoundMeansMarked
  <2> SUFFICES ASSUME readerPc = "done", TextFile.path \in RunQuery(ContentQuery(LineQuery)).files,
                      Usable(ContentQuery(LineQuery).tokens),
                      \A page \in TextFile.pages : IndexedAs(page), NEW w \in WordsMeant \ DOMAIN Stripped,
                      \A i \in DOMAIN words : words[i] \notin Parts[w]
               PROVE  Total(w) > 0
    BY DEF FoundMeansMarked
  <2>1. /\ expression \in Seq(Lexemes) /\ text = disk
        /\ ~LineQuery.error /\ ~ContentQuery(LineQuery).error
        /\ words \in WordsToHighlight(ContentQuery(LineQuery))
    BY <1>1 DEF SearchInv, SourceInv
  <2>2. PICK q : q = ContentQuery(LineQuery)
    OBVIOUS
  <2>3. ~q.error /\ words \in WordsToHighlight(q) /\ TextFile.path \in RunQuery(q).files
    BY <2>1, <2>2
  <2>4. /\ \E k \in 1..Len(words) : words[k] = w
        /\ \E n \in DOMAIN disk : \E v \in disk[n] : w = v \/ w \in Parts[v]
    BY <2>1, <2>2, <2>3, SearchHasLine
  <2>5. DOMAIN words = 1..Len(words)
    BY <1>1 DEF OrderInv, ReaderTypeOK
  <2>6. PICK k \in DOMAIN words : words[k] = w
    BY <2>4, <2>5
  <2>7. PICK n \in DOMAIN text : Occurs(words[k], n)
    BY <2>1, <2>4, <2>6 DEF Occurs
  <2>8. \A j \in DOMAIN words : words[j] \notin Parts[words[k]]
    BY <2>6
  <2>9. Total(words[k]) > 0
    BY <1>1, <2>7, <2>8, MarkedHasCount
  <2> QED
    BY <2>6, <2>9
<1> QED
  BY <1>1, SearchInvAlways, SourceAlways, OrderCorrect, CoverCorrect, SeenAlways, PTL

\* What holds of the reader holds of the previews that are made of a file that is found: its
\* lines are in order, a match has its context, and whole words are counted exactly
\* (previewgeneratorplaintext.cpp:88-254, for the words of mainwindow.cpp:935-952).
THEOREM PreviewsMadeTheorem == Spec => [](LinesInOrder /\ ContextAround /\ EveryMatchCounted)
BY SourceAlways, LinesInOrderCorrect, ContextAroundCorrect, EveryMatchCountedCorrect, PTL
=============================================================================
