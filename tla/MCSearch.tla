------------------------------ MODULE MCSearch ------------------------------
(***************************************************************************)
(* Short expressions of anything, and longer ones of a few lexemes, with   *)
(* one text; a few expressions with every short text.                      *)
(***************************************************************************)
EXTENDS SearchPage, SequencesExt

L(kind) == Lexeme(kind, {})
Foo == Lexeme("word", {"foo"})
Bar == Lexeme("word", {"bar"})
PFoo == Lexeme("p", {"foo"})
EndsBar == Lexeme("pe", {"bar"})
Tagged == Lexeme("t", {"foo"})
CFoo == Lexeme("c", {"foo"})
CStar == Lexeme("c", {"foo*"})

ByTime == Lexeme("sort", {<<"mtime", "desc">>, <<"path">>})
ByText == Lexeme("sort", {<<"content.text">>})
BySpaced == Lexeme("sort", {<<"mtime", "desc">>, <<"", "page", "asc">>})

Anything ==
    {Foo, Bar, WithParenthesis(Foo), PFoo, EndsBar, Tagged, Lexeme("pb", {"foo"}),
     Lexeme("toc", {"foo"}), CFoo, CStar, Lexeme("page", {"1"}),
     Lexeme("size", {"1"}), ByTime, ByText, BySpaced, L("and"), L("or"), L("not"),
     L("open"), L("close")}
Few == {PFoo, EndsBar, L("or"), L("not"), L("open"), L("close")}
Words == {Foo, Bar, PFoo, CFoo, L("open"), L("close")}
Mixed == {Foo, CFoo, L("and"), L("not")}
Either == {CFoo, PFoo, EndsBar, L("or"), L("not")}

Typed ==
    BoundedSeq(Anything, 3) \cup BoundedSeq(Few, 6) \cup BoundedSeq(Words, 5)
      \cup BoundedSeq(Mixed, 5) \cup BoundedSeq(Either, 5)

\* p:(notes) (pe:(odt) OR pe:(docx)), with other words; files without an outline are common.
EndsBaz == Lexeme("pe", {"baz"})
Documented == {<<PFoo, L("open"), EndsBar, L("or"), EndsBaz, L("close")>>}

\* A MATCH that comes first is evaluated, and decides nothing where the rest holds anyway.
LeftToRight == {ts \in Seq([type : SUBSET (0..512), value : SUBSET {"foo", "foo*", "bar"}]) :
                    ts # <<>> /\ ts[1].type = ContentContains}

\* Texts of seven lines. A text with every word of the index is among them.
FooBar == Lexeme("word", {"foobar"})
Span == Lexeme("word", {"span"})
AllLexemes ==
    Anything \cup {FooBar, Span, EndsBaz, Lexeme("c", {"foobar"}),
                   Lexeme("c", {"foo", "span"}), Lexeme("c", {"foo*", "span"})}
Lines == {{}, {"foo", "span"}, {"foobar", "bar"}}
Texts == [1..7 -> Lines]
Marking ==
    {<<Foo>>, <<FooBar, Foo>>, <<Foo, Lexeme("c", {"foobar"}), PFoo>>,
     <<CFoo, Lexeme("c", {"foo", "span"})>>, <<Bar, PFoo>>,
     <<Lexeme("c", {"foo*", "span"})>>}

TypedAndRead ==
    {[expressions |-> Typed, texts |-> {<<{"foo", "span"}, {"bar", "foobar"}>>}],
     [expressions |-> Marking, texts |-> Texts]}
DocumentedOnly == {[expressions |-> Documented, texts |-> {<<>>}]}

AllWords == {"foo", "bar", "foobar", "span", "foo*"}
PartsOfWords ==
    [w \in AllWords |->
        CASE w = "foobar" -> {"foo", "bar"} [] w = "foo*" -> {"foo"} [] OTHER -> {}]
StarredFoo == [w \in {"foo*"} |-> "foo"]
SpanTag == {"span"}

Page(n, ws) == [number |-> n, words |-> ws]
ThreeFiles ==
    {[path |-> "1", names |-> {"foo", "bar"}, starts |-> {"foo"}, ends |-> {"bar"}, tags |-> {},
      outline |-> {{"foo"}}, pages |-> {Page("1", {"foo"}), Page("2", {"bar"})}],
     [path |-> "2", names |-> {"foo", "bar"}, starts |-> {}, ends |-> {"bar"}, tags |-> {"foo"},
      outline |-> {}, pages |-> {Page("1", {"foo", "bar", "foobar", "span"})}],
     [path |-> "3", names |-> {"bar"}, starts |-> {}, ends |-> {}, tags |-> {"foo"},
      outline |-> {}, pages |-> {}]}
TheText == CHOOSE f \in ThreeFiles : f.path = "2"
=============================================================================
