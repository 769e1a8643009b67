----------------------------- MODULE LooqsQuery -----------------------------
(***************************************************************************)
(* LooqsQuery::build: from what the user typed to tokens.  An expression   *)
(* is the sequence of the matches of its regular expression; a TokenType,  *)
(* whose bits the program tests, is the set of its bits.                   *)
(***************************************************************************)
EXTENDS Integers, Sequences, FiniteSets

Word == {8}
Negation == {16}
Bool == {32}
And == {32, 1}
Or == {32, 2}
Open == {64, 1}
Close == {64, 2}
FilterPath == {256}
PathContains == {256, 2}
PathSize == {256, 2, 1}
PathEnds == {256, 4}
PathStarts == {256, 4, 1}
TagAssigned == {256, 4, 2}
OutlineContains == {256, 4, 2, 1}
FilterContent == {512}
ContentContains == {512, 1}
ContentPage == {512, 2}

\* The lone words, or the value of a filter; a word keeps the parenthesis that follows
\* it without a blank.  The value of sort: is a set of conditions, a condition its parts
\* between blanks, <<"mtime", "asc">>; one that follows a comma and a blank has an empty
\* part first.
Lexeme(kind, value) == [kind |-> kind, value |-> value, closing |-> FALSE]
WithParenthesis(l) == [l EXCEPT !.closing = TRUE]

Token(type, value) == [type |-> type, value |-> value]
Mark(type) == Token(type, {})

FilterType ==
    [p |-> PathContains, pb |-> PathStarts, pe |-> PathEnds, size |-> PathSize,
     c |-> ContentContains, page |-> ContentPage, t |-> TagAssigned, toc |-> OutlineContains]
MarkType == [and |-> And, or |-> Or, not |-> Negation, open |-> Open, close |-> Close]

\* checkParanthesis: as many are opened as closed, in whatever order.
CheckParanthesis(expression) ==
    Cardinality({i \in DOMAIN expression : expression[i].kind = "open"}) =
    Cardinality({i \in DOMAIN expression :
                    expression[i].kind = "close" \/ expression[i].closing})

\* A LooqsQuery under construction.
NoQuery == [tokens |-> <<>>, mask |-> {}, words |-> {}, sort |-> {}, error |-> FALSE]
Failed(q) == [q EXCEPT !.error = TRUE]

AddToken(q, t) == [q EXCEPT !.tokens = Append(@, t), !.mask = @ \cup t.type]

LastType(q) == IF q.tokens = <<>> THEN {} ELSE q.tokens[Len(q.tokens)].type

\* createSortConditions: a field, and asc or desc.  What is asked is by which fields; the
\* order of the results is left out.
Fields == {"path", "mtime", "size", "content.text", "page"}
IsCondition(c) ==
    /\ Len(c) \in 1..2
    /\ c[1] \in Fields
    /\ Len(c) = 2 => c[2] \in {"asc", "desc"}
CreateSortConditions(value) == {c[1] : c \in value}

\* One match of the regular expression.
ReadMatch(q, l, wordType, merge) ==
    IF q.error THEN q
    ELSE CASE l.kind \in {"and", "or"} ->
               IF Bool \subseteq LastType(q) \/ LastType(q) = Negation THEN Failed(q)
               ELSE AddToken(q, Mark(MarkType[l.kind]))
         [] l.kind = "not" ->
               IF LastType(q) = Negation THEN Failed(q) ELSE AddToken(q, Mark(Negation))
         [] l.kind \in {"open", "close"} -> AddToken(q, Mark(MarkType[l.kind]))
         [] l.kind = "word" ->
               IF merge THEN [q EXCEPT !.words = @ \cup l.value]
               ELSE AddToken(q, Token(wordType, l.value))
         [] l.kind = "sort" ->
               IF q.sort # {} \/ \E c \in l.value : ~IsCondition(c) THEN Failed(q)
               ELSE [q EXCEPT !.sort = CreateSortConditions(l.value)]
         [] l.kind \in DOMAIN FilterType -> AddToken(q, Token(FilterType[l.kind], l.value))
         [] OTHER -> Failed(q)

ReadMatches(expression, wordType, merge) ==
    LET upTo[n \in 0..Len(expression)] ==
            IF n = 0 THEN NoQuery ELSE ReadMatch(upTo[n - 1], expression[n], wordType, merge)
    IN  upTo[Len(expression)]

MergeWords(q, wordType) ==
    IF q.words = {} THEN q ELSE AddToken(q, Token(wordType, q.words))

\* Slip: a negation is taken for the operand it stands before.
NeedsAndAlways(t, prev) ==
    /\ t.type = Open \/ t.type \cap (FilterContent \cup FilterPath \cup Negation \cup Word) # {}
    /\ ~(Bool \subseteq prev)
    /\ ~(Open \subseteq prev)

\* Where the default boolean AND goes.
NeedsAnd(t, prev) ==
    /\ t.type = Open \/ t.type \cap (FilterContent \cup FilterPath \cup Negation \cup Word) # {}
    /\ ~(Bool \subseteq prev)
    /\ ~(Negation \subseteq prev)
    /\ ~(Open \subseteq prev)

\* The token n after those before it, with the AND it needs.
PrevType(tokens, n) == IF n = 1 THEN And ELSE tokens[n - 1].type
WithAnd(before, tokens, n) ==
    before \o IF NeedsAnd(tokens[n], PrevType(tokens, n)) THEN <<Mark(And), tokens[n]>>
              ELSE <<tokens[n]>>
AddAnds(tokens) ==
    LET upTo[n \in 0..Len(tokens)] ==
            IF n = 0 THEN <<>> ELSE WithAnd(upTo[n - 1], tokens, n)
    IN  upTo[Len(tokens)]

HasContentSearch(q) == FilterContent \subseteq q.mask
HasOutlineSearch(q) == OutlineContains \subseteq q.mask
HasPathSearch(q) == FilterPath \subseteq q.mask

Build(expression, wordType, merge) ==
    IF expression = <<>> THEN NoQuery
    ELSE IF ~CheckParanthesis(expression) THEN Failed(NoQuery)
    ELSE LET all == MergeWords(ReadMatches(expression, wordType, merge), wordType)
             q == [all EXCEPT !.tokens = AddAnds(@)]
         IN  IF q.error \/ (~HasContentSearch(q) /\ "content.text" \in q.sort) THEN Failed(q) ELSE q
=============================================================================
