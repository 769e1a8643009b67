------------------------------- MODULE Search -------------------------------
(***************************************************************************)
(* SqliteSearch, which makes one SQL statement of a query, and its two     *)
(* users: looqs search, and the search line of the GUI, which runs one or  *)
(* two queries. SearchPage has the specification.                          *)
(***************************************************************************)
EXTENDS LooqsQuery

CONSTANTS
    Files,            \* the index: what each filter finds of each file
    Lexemes,          \* the matches of the regular expression that are typed
    Stripped,         \* a word that ends with * -> the word before it
    Eager             \* the tokens for which SQLite evaluates a MATCH it could do without

ASSUME FilesAssumption == \A f, g \in Files : f.path = g.path => f = g
ASSUME LexemesAssumption ==
    \A l \in Lexemes :
        /\ l.kind \in {"word", "sort"} \cup DOMAIN MarkType \cup DOMAIN FilterType
        /\ l.kind = "word" => l.value # {}
        /\ l.closing \in BOOLEAN

VARIABLES
    expression,       \* what is typed
    answer            \* what the last search of it gave

searchVars == <<expression, answer>>

\* How SQL, and the reader of an expression, take a sequence of tokens. A group is all of
\* it, called 0, or what a parenthesis opens, called by its place.
Depth(ts, i) ==
    Cardinality({k \in 1..i - 1 : ts[k].type = Open}) -
    Cardinality({k \in 1..i - 1 : ts[k].type = Close})
Groups(ts) == {0} \cup {i \in DOMAIN ts : ts[i].type = Open}
Encloses(ts, g, i) == g < i /\ \A k \in g + 1..i : Depth(ts, k) >= Depth(ts, g + 1)
Within(ts, g) == {i \in DOMAIN ts : Encloses(ts, g, i) /\ Depth(ts, i) = Depth(ts, g + 1)}

IsOperator(t) == t.type \in {And, Or}
IsOperand(t) == t.type \cap {8, 256, 512} # {}
StartsFactor(t) == t.type \in {Negation, Open} \/ IsOperand(t)
EndsFactor(t) == t.type = Close \/ IsOperand(t)
IsNegated(ts, i) == i > 1 /\ ts[i - 1].type = Negation

\* Ors part a group into terms; a term follows the beginning of its group, or an OR.
Ors(ts, g) == {i \in Within(ts, g) : ts[i].type = Or}
Factors(ts, g) == {i \in Within(ts, g) : StartsFactor(ts[i]) /\ ~IsNegated(ts, i)}
Term(ts, g, o) == {i \in Factors(ts, g) : o < i /\ \A k \in Ors(ts, g) : k \notin o + 1..i}

\* The grammar: SQL's, or with juxtaposed factors, as the user may write them.
Follows(t, prev, juxtaposed) ==
    IF EndsFactor(prev)
    THEN IsOperator(t) \/ t.type = Close \/ (juxtaposed /\ StartsFactor(t))
    ELSE StartsFactor(t)
Grammatical(ts, juxtaposed) ==
    /\ ts # <<>>
    /\ StartsFactor(ts[1])
    /\ EndsFactor(ts[Len(ts)])
    /\ \A i \in 2..Len(ts) : Follows(ts[i], ts[i - 1], juxtaposed)
    /\ \A i \in DOMAIN ts : Depth(ts, i + 1) >= 0
    /\ Depth(ts, Len(ts) + 1) = 0

\* The words to MATCH, which finds a word and what begins with it in one table, and any part
\* of a word in the other: of a page the index has the words that stand in it, and the words
\* within these.
EscapeFtsArgument(ws) == {IF w \in DOMAIN Stripped THEN Stripped[w] ELSE w : w \in ws}

\* A row of the joined tables: a file with an entry of its outline and a page of its
\* content, where these are joined.
Holds(t, r) ==
    CASE t.type = PathContains -> t.value \subseteq r.file.names
      [] t.type = PathStarts -> t.value \subseteq r.file.starts
      [] t.type = PathEnds -> t.value \subseteq r.file.ends
      [] t.type = TagAssigned -> t.value \subseteq r.file.tags
      [] t.type = OutlineContains -> t.value \subseteq r.entry
      [] t.type = ContentContains -> EscapeFtsArgument(t.value) \subseteq r.page.words
      [] t.type = ContentPage -> t.value = {r.page.number}

\* The rows of R that the tokens select, group by group and factor by factor.
Selected(ts, R) ==
    LET at[i \in 0..Len(ts)] ==
            IF i \in Groups(ts)
            THEN {r \in R : \E o \in {i} \cup Ors(ts, i) : \A k \in Term(ts, i, o) : r \in at[k]}
            ELSE IF ts[i].type = Negation THEN R \ at[i + 1]
            ELSE {r \in R : Holds(ts[i], r)}
    IN  at[0]

\* MATCH is usable where it must hold of every row; anywhere else it is an error as soon as
\* SQLite evaluates it.
MustHold(ts, i) ==
    /\ ~IsNegated(ts, i)
    /\ \A g \in Groups(ts) : Encloses(ts, g, i) => Ors(ts, g) = {} /\ ~IsNegated(ts, g)
Usable(ts) == \A i \in DOMAIN ts : ts[i].type = ContentContains => MustHold(ts, i)

\* The most, or the fewest, rows that may be selected when no such MATCH is evaluated. It
\* must be, where these are not the same.
Bound(ts, R, most) ==
    LET at[i \in 0..Len(ts), more \in BOOLEAN] ==
            IF i \in Groups(ts)
            THEN {r \in R : \E o \in {i} \cup Ors(ts, i) : \A k \in Term(ts, i, o) : r \in at[k, more]}
            ELSE IF ts[i].type = Negation THEN R \ at[i + 1, ~more]
            ELSE IF ts[i].type = ContentContains /\ ~MustHold(ts, i) THEN IF more THEN R ELSE {}
            ELSE {r \in R : Holds(ts[i], r)}
    IN  at[0, most]
Evaluated(ts, R) == ts \in Eager \/ Bound(ts, R, TRUE) # Bound(ts, R, FALSE)
----------------------------------------------------------------------------
NoPage == [number |-> "0", words |-> {}]

\* The tables that makeSqlQuery joins.
JoinsContent(q) == HasContentSearch(q)
JoinsOutline(q) == ~HasContentSearch(q) /\ HasOutlineSearch(q)

Rows(q) ==
    UNION {[file : {f},
            entry : IF JoinsOutline(q) THEN f.outline ELSE {{}},
            page : IF JoinsContent(q) THEN f.pages ELSE {NoPage}] : f \in Files}

\* createSql knows the type, and the column is in a joined table.
Known(q, t) ==
    /\ t.type \notin {Word, PathSize}
    /\ t.type = OutlineContains => JoinsOutline(q)
    /\ FilterContent \subseteq t.type => JoinsContent(q)

\* createSortSql names columns of tables: of content none is joined where only paths or
\* outlines are searched, and around the union of a search of the content there is no
\* table at all.
Sortable(q) == q.sort \subseteq (IF JoinsContent(q) THEN {} ELSE {"path", "mtime", "size"})

\* SqliteSearch::search; an exception is an error of the query.
Error == [error |-> TRUE, files |-> {}]
Found(files) == [error |-> FALSE, files |-> files]

RunQuery(q) ==
    IF \/ q.error
       \/ q.tokens = <<>>
       \/ \E i \in DOMAIN q.tokens : ~Known(q, q.tokens[i])
       \/ ~Grammatical(q.tokens, FALSE)
       \/ ~Usable(q.tokens) /\ Evaluated(q.tokens, Rows(q))
       \/ ~Sortable(q)
    THEN Error
    ELSE Found({r.file.path : r \in Selected(q.tokens, Rows(q))})

\* CommandSearch::handle, and with --reverse.
CommandSearch == RunQuery(Build(expression, PathContains, FALSE))
AddSortCondition(q, field) == [q EXCEPT !.sort = @ \cup {field}]
ReverseSearch == RunQuery(AddSortCondition(Build(expression, PathContains, FALSE), "mtime"))

\* createFinalTokens
FinalTokens(tokens, type) ==
    [i \in DOMAIN tokens |->
        IF tokens[i].type = Word THEN Token(type, tokens[i].value) ELSE tokens[i]]

\* Slip: the tokens are replaced and the mask is not.
KeepMask(q, type) == [q EXCEPT !.tokens = FinalTokens(@, type)]

\* setTokens, which adds to the mask.
WordsAs(q, type) == [q EXCEPT !.tokens = FinalTokens(@, type), !.mask = @ \cup type]

\* Slip: the results of the second search replace the first.
OnlySecond(a, b) == b

\* results.append of each search; the first exception ends both.
Both(a, b) ==
    IF a.error \/ b.error THEN Error ELSE Found(a.files \cup b.files)

\* The two readings of the search line, and which searches it asks for.
LineQuery == Build(expression, Word, TRUE)
PathsQuery == Build(expression, PathContains, FALSE)
HasLoneWords(q) == Word \cap q.mask # {}
AddsContentSearch(q) == HasLoneWords(q) \/ HasContentSearch(q)
AddsPathSearch(q) == ~AddsContentSearch(q) \/ (~HasPathSearch(q) /\ ~HasContentSearch(q))

\* contentSearchQuery, which the previews use as well.
ContentQuery(q) ==
    CASE ~AddsContentSearch(q) -> [q EXCEPT !.tokens = <<>>]
      [] HasLoneWords(q) /\ ~HasPathSearch(q) /\ HasContentSearch(q) -> PathsQuery
      [] HasLoneWords(q) /\ (HasPathSearch(q) \/ ~HasContentSearch(q)) ->
            WordsAs(q, ContentContains)
      [] OTHER -> q

\* lineEditReturnPressed
LineEditSearch ==
    LET q == LineQuery
        paths == IF HasLoneWords(q) THEN PathsQuery ELSE q
    IN  IF q.error THEN Error
        ELSE IF ~AddsContentSearch(q) THEN RunQuery(paths)
        ELSE IF ~AddsPathSearch(q) THEN RunQuery(ContentQuery(q))
        ELSE Both(RunQuery(paths), RunQuery(ContentQuery(q)))
----------------------------------------------------------------------------
NotAsked == [by |-> "nobody", result |-> Error]

\* looqs search with its terms; without one it is an error before.
SearchByCommand ==
    /\ answer = NotAsked
    /\ expression # <<>>
    /\ \/ answer' = [by |-> "command", result |-> CommandSearch]
       \/ answer' = [by |-> "reverse", result |-> ReverseSearch]
    /\ UNCHANGED expression

SearchByLine ==
    /\ answer = NotAsked
    /\ answer' = [by |-> "line", result |-> LineEditSearch]
    /\ UNCHANGED expression
----------------------------------------------------------------------------
\* What the expression says, read as it stands: words are filters of this type.
Kinds == {expression[i].kind : i \in DOMAIN expression}
TokenOf(l, wordType) ==
    CASE l.kind = "word" -> Token(wordType, l.value)
      [] l.kind \in DOMAIN MarkType -> Mark(MarkType[l.kind])
      [] l.kind \in DOMAIN FilterType -> Token(FilterType[l.kind], l.value)
Reading(e, wordType, leftOut) ==
    LET upTo[n \in 0..Len(e)] ==
            IF n = 0 THEN <<>>
            ELSE IF e[n].kind \in leftOut THEN upTo[n - 1]
            ELSE Append(upTo[n - 1], TokenOf(e[n], wordType))
    IN  upTo[Len(e)]

\* A file with what the words and filters look into, and nothing else.
PathKinds == {"p", "pb", "pe", "t", "toc"}
ContentKinds == {"c", "page"}
RowsFor(words) ==
    UNION {[file : {f},
            entry : IF "toc" \in Kinds THEN f.outline ELSE {{}},
            page : IF words \/ Kinds \cap ContentKinds # {} THEN f.pages ELSE {NoPage}] :
                f \in Files}
PathsOf(R) == {r.file.path : r \in R}

\* Where a table that no filter looks into is joined, files without it are lost.
Outlined == {f.path : f \in {g \in Files : g.outline # {}}}
Lossy(q, files) ==
    IF JoinsOutline(q) /\ "toc" \notin Kinds THEN files \cap Outlined ELSE files

\* What may be asked: it reads as an expression, without a double negation, and every
\* parenthesis is one of its own.
Sound(ts) ==
    /\ Grammatical(ts, TRUE)
    /\ \A i \in 2..Len(ts) : ~(ts[i].type = Negation /\ ts[i - 1].type = Negation)
    /\ \A i \in DOMAIN expression : ~expression[i].closing
    /\ "size" \notin Kinds

\* At most one sort, as documented, and by what the tables that are joined have: a sort
\* goes with a search of paths only.
Sorts == {i \in DOMAIN expression : expression[i].kind = "sort"}
SortsFiles ==
    /\ \A i, k \in Sorts : i = k
    /\ \A i \in Sorts : \A c \in expression[i].value :
         IsCondition(c) /\ c[1] \in {"path", "mtime", "size"}
    /\ Sorts # {} \/ answer.by = "reverse" => Kinds \cap ContentKinds = {}

\* In the search line words next to operators may leave two operators in a row when they
\* are put together.
IsBetween(i) ==
    /\ i > 1 => expression[i - 1].kind \notin {"not", "and", "or"}
    /\ i < Len(expression) => expression[i + 1].kind \notin {"and", "or"}
WordsAreApart == \A i \in DOMAIN expression : expression[i].kind = "word" => IsBetween(i)
ReadAsFilters ==
    \/ answer.by \in {"command", "reverse"}
    \/ /\ answer.by = "line"
       /\ "word" \in Kinds => "c" \in Kinds /\ Kinds \cap PathKinds = {} /\ WordsAreApart

\* These files, and no others, are found: a MATCH below OR or NOT may cost the answer, but
\* never makes it another one.
Gives(result, ts, files) ==
    result = Found(files) \/ (~Usable(ts) /\ result = Error)

\* A search finds the files of which the filters hold as the expression combines them,
\* with AND between those that follow one another, save those that a needless join of
\* the outline loses (looqsquery.cpp:333-351, sqlitesearch.cpp:207-224). It fails only where
\* c: stands below OR or is negated: of these USAGE.md:170 excludes the negation only, so for
\* c: below OR this is less than what is documented.
FiltersFindWhatIsMeant ==
    LET ts == Reading(expression, PathContains, {"sort"}) IN
    ReadAsFilters /\ Sound(ts) /\ SortsFiles /\ ~("toc" \in Kinds /\ Kinds \cap ContentKinds # {}) =>
        Gives(answer.result, ts, Lossy(Build(expression, PathContains, FALSE),
                                       PathsOf(Selected(ts, RowsFor(FALSE)))))

\* Lone words may stand anywhere among filters of the path: together they are one search
\* of the content, within what the filters find (mainwindow.cpp:784-791), with the same
\* exception for a c: among these.
WordsOf(e) == UNION {l.value : l \in {e[i] : i \in {k \in DOMAIN e : e[k].kind = "word"}}}
WordsAreContent ==
    LET filters == Reading(expression, PathContains, {"sort", "word"}) IN
    /\ answer.by = "line"
    /\ "word" \in Kinds
    /\ Kinds \cap PathKinds # {}
    /\ Kinds \cap {"toc", "sort"} = {}
    /\ Sound(filters)
    /\ Ors(filters, 0) = {}
    => Gives(answer.result, filters,
             PathsOf({r \in Selected(filters, RowsFor(TRUE)) :
                        EscapeFtsArgument(WordsOf(expression)) \subseteq r.page.words}))

\* Words alone are looked for in paths and in content (mainwindow.cpp:799-806).
WordsAreBoth ==
    /\ answer.by = "line"
    /\ Kinds = {"word"}
    /\ \A i \in DOMAIN expression : ~expression[i].closing
    =>
        answer.result = Found({f.path : f \in {g \in Files :
            \/ WordsOf(expression) \subseteq g.names
            \/ \E page \in g.pages : EscapeFtsArgument(WordsOf(expression)) \subseteq page.words}})

\* "p:(notes) (pe:(odt) OR pe:(docx)): Finds files such as notes.docx, notes.odt"
\* (USAGE.md:179): what filters of the path find does not depend on anything else.
EveryMatchIsFound ==
    LET ts == Reading(expression, PathContains, {"sort"}) IN
    answer.by = "command" /\ Sound(ts) /\ Kinds \cap (ContentKinds \cup {"toc", "sort"}) = {} =>
        answer.result = Found(PathsOf(Selected(ts, RowsFor(FALSE))))
=============================================================================
