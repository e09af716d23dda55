--------------------------- MODULE MCConfiguration ---------------------------
(***************************************************************************)
(* Every short text, and longer ones with groups in groups.                *)
(***************************************************************************)
EXTENDS Configuration, TLC

Headers(paths) == {Header(path) : path \in paths}
Pairs(texts) == {Pair(key, text) : key \in Keys, text \in texts}
Others(texts) == {Other(text) : text \in texts}

Lines == Headers({<<"a">>, <<"a", "b">>, <<"b", "a">>})
         \cup Pairs({"word", " word", "\" word\"", "\"word\"", "\"word", Fence})
         \cup Others({Empty, Comment, Fence, " word"})

Text(lines) == [bom |-> FALSE, lines |-> lines]

ShortTexts(n) == UNION {{Text(lines) : lines \in [1 .. m -> Lines]} : m \in 0 .. n}

Nested == Text(<<Header(<<"a", "b">>), Header(<<"a", "a">>), Header(<<"a">>), Header(<<"b", "a">>)>>)

Annotated ==
    Text(<<Pair("key", "\" word\""), Other(Empty), Header(<<"a">>), Other(Comment), Header(<<"a", "b">>),
           Pair("key", Fence), Other("\"word"), Other(Empty), Other(Fence), Header(<<"a">>), Other(Empty)>>)

FromWindows ==
    [bom |-> TRUE,
     lines |-> <<Pair("key", Fence), Other(" word"), [Other(Empty) EXCEPT !.crlf = TRUE], Other(Fence)>>]

Called(texts, n) == [text: texts, calls: {n}]

TextsTried ==
    Called(ShortTexts(3), 1) \cup Called(ShortTexts(2), 2) \cup Called({Nested, Annotated, FromWindows}, 3)

\* A group without a name in another group; a value without a key.
NamelessGroup == Called({Text(<<Header(<<"a", NoName>>)>>)}, 2)
NamelessValue == Called({Text(<<Pair(NoKey, "word")>>)}, 1)

Nameless == NamelessGroup \cup NamelessValue

SomeTexts == {Text(<<Pair("key", "word")>>), NoFile}

SetValues == {<<" word">>, <<"word", Empty>>}

\* Values with quotes or lines that mean something to the parser.
QuotedValues == {<<"\"word">>, <<"\"word\"">>, <<Empty, Fence>>}

FlagsTried == {{}, {"PreserveBom", "ForceUnixEol"}, {"SkipComments"}, {"ReadOnly"}, {"Truncate"}}

Symmetry == Permutations(Configurations)
=============================================================================
