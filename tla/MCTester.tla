------------------------------ MODULE MCTester ------------------------------
(***************************************************************************)
(* Four families of programs.  Tests: what test functions do, with two of  *)
(* them and two repeats; what the command line asks for, with functions    *)
(* that do nothing; and every short text for --only and --skip.  And other *)
(* programs, with every short command line of the elements that their      *)
(* parsers tell apart.                                                     *)
(***************************************************************************)
EXTENDS TestProgram

NoScenarios == {}

Defaults == [benchmarkKnown |-> TRUE, skipTests |-> FALSE, skipBenchmarks |-> FALSE,
             skip |-> <<>>, only |-> <<>>, repeatAll |-> 1, repeatEvery |-> 1, shuffle |-> FALSE,
             abortOnFail |-> FALSE, noXfail |-> FALSE, noCatch |-> FALSE, saveDiagnostic |-> FALSE]

TestCase(benchmark, repeatCount, macros) ==
    [benchmark |-> benchmark, repeatCount |-> repeatCount, fixture |-> TRUE, calls |-> macros]

Bodies ==
    [suite: {<<TestCase(TRUE, 1, 4), TestCase(FALSE, 1, 2)>>},
     options: {Defaults, [Defaults EXCEPT !.abortOnFail = TRUE],
               [Defaults EXCEPT !.noXfail = TRUE, !.saveDiagnostic = TRUE],
               [Defaults EXCEPT !.noCatch = TRUE]}]
    \cup [suite: {<<TestCase(TRUE, 2, 2)>>, <<TestCase(FALSE, 1, 1), TestCase(FALSE, 0, 1)>>}, options: {Defaults}]

Three == <<TestCase(FALSE, 1, 0), TestCase(TRUE, 2, 0),
           [TestCase(FALSE, 1, 0) EXCEPT !.fixture = FALSE]>>

Selections ==
    [suite: {Three},
     options: {[Defaults EXCEPT !.skipTests = t, !.skipBenchmarks = b, !.repeatAll = n, !.repeatEvery = m,
                                !.benchmarkKnown = k] :
                    t, b, k \in BOOLEAN, n \in {0, 1, 3}, m \in 0 .. 2}
              \cup {[Defaults EXCEPT !.skipTests = t, !.repeatAll = 2, !.shuffle = TRUE] : t \in BOOLEAN}]

Some == {0, 1, 3, Delimiter, Dash}

Texts == UNION {[1 .. n -> Some] : n \in 0 .. 4}

Readings ==
    [suite: {Three},
     options: {[Defaults EXCEPT !.only = text] : text \in Texts \cup {<<1, Unrecognized>>}}
              \cup {[Defaults EXCEPT !.only = <<3, Delimiter, 1>>, !.skip = text] :
                        text \in UNION {[1 .. n -> Some] : n \in 1 .. 2}}]

\* "1-13,3": the second number is too large.
TooLarge ==
    [suite: {Three}, options: {[Defaults EXCEPT !.only = text] :
        text \in [1 .. 5 -> {1, 3, Delimiter, Dash}] \cup {<<1, Dash, 1, 3, Delimiter, 3>>}}]

-----------------------------------------------------------------------------
\* Command lines of tests: what is not the default, in one of two spellings.

Text(codes) == FoldLeft(LAMBDA text, c : text \o Characters[c + 1], "", codes)

When(condition, elements) == IF condition THEN elements ELSE <<>>

Plain(o) ==
    When(o.skipTests, <<"--skip-tests">>) \o When(o.skipBenchmarks, <<"--skip-benchmarks">>)
    \o <<"--repeat-all", Characters[o.repeatAll + 1], "--repeat-every", Characters[o.repeatEvery + 1]>>
    \o When(~o.benchmarkKnown, <<"--benchmark", "sundial">>)
    \o When(o.shuffle, <<"--shuffle">>) \o When(o.abortOnFail, <<"-X">>) \o When(o.noXfail, <<"--no-xfail">>)
    \o When(o.noCatch, <<"--no-catch">>) \o When(o.saveDiagnostic, <<"-S", "--">>)
    \o <<"--only", Text(o.only)>> \o When(o.skip # <<>>, <<"--skip", Text(o.skip)>>)

Terse(o) ==
    <<"-v" \o (IF o.abortOnFail THEN "X" ELSE "") \o (IF o.saveDiagnostic THEN "Sout" ELSE "cauto"),
      "--lib-size", "--only=1", "--only=" \o Text(o.only), "--skip=" \o Text(o.skip)>>

Environment(o) ==
    [v \in {"CORRADE_TEST_NO_XFAIL"} \cup (IF o.noCatch THEN {"CORRADE_TEST_NO_CATCH"} ELSE {}) |->
        IF v = "CORRADE_TEST_NO_CATCH" \/ o.noXfail THEN "on" ELSE "off"]

Program(suite_, parsers, lines, environment, ignored) ==
    [suite |-> suite_, parsers |-> parsers, environment |-> environment, ignored |-> ignored, moved |-> {},
     calls |-> [n \in 1 .. (Len(lines) * Len(parsers)) |->
                    [parser |-> ((n - 1) % Len(parsers)) + 1, argv |-> lines[(n - 1) \div Len(parsers) + 1]]]]

Nothing == [v \in {} |-> ""]

Plainly(scenarios) == {Program(s.suite, <<TesterParser({})>>, <<Plain(s.options)>>, Nothing, {}) : s \in scenarios}

Tersely(scenarios) ==
    {Program(s.suite, <<TesterParser({"lib-"})>>, <<Terse(s.options)>>, Environment(s.options), {}) : s \in scenarios}

Refused == {Program(Three, <<TesterParser({})>>, <<line>>, Nothing, {}) :
                line \in {<<"--help">>, <<"-X", "out">>, <<"-Xh", "--nope">>, <<"--only">>}}

Tests == Plainly(Bodies \cup Selections) \cup Tersely(Bodies \cup Readings) \cup Refused

-----------------------------------------------------------------------------
\* Other programs.

Help(prefix) == BooleanOption(IF prefix = "" THEN "h" ELSE "", prefix \o "help", "")
Entry(type, shortKey, key) ==
    [type |-> type, shortKey |-> shortKey, key |-> key, default |-> "", environment |-> ""]

Library(keys, ignoreUnknown_) ==
    [prefix |-> "p-", entries |-> <<Help("p-")>> \o [k \in DOMAIN keys |-> Option("", keys[k], "80", "P_SIZE")],
     skippedPrefixes |-> {}, ignoreUnknown |-> ignoreUnknown_, finalOptional |-> 0]

\* An application of a library with a prefix.
Mixed ==
    [prefix |-> "", skippedPrefixes |-> {"p-"}, ignoreUnknown |-> FALSE, finalOptional |-> 4,
     entries |-> <<Help(""), BooleanOption("x", "extra", "EXTRA"), Option("O", "out", "a.out", "OUT"),
                   Entry("Argument", "", "file"), Entry("ArrayOption", "A", "all")>>]

\* An application with words for an array between those of two other arguments.
Listing ==
    [prefix |-> "", skippedPrefixes |-> {}, ignoreUnknown |-> FALSE, finalOptional |-> 0,
     entries |-> <<Help(""), Entry("Argument", "", "first"), Entry("ArrayArgument", "", "more"),
                   Entry("NamedArgument", "n", "name"), Entry("Argument", "", "last")>>]

Lines(elements, n) == UNION {[1 .. k -> elements] : k \in 0 .. n}

MixedElements ==
    {"-x", "-xO", "-xOv", "-xq", "-q", "-A", "--all=", "--out", "--out=-x", "--extra=1", "--file", "--nope",
     "--p-size", "--p-size=1", "--p-help", "--p-nope", "--", "-", "--!"}

Taken == {"UnknownArgument", "InvalidArgument", "SuperfluousArgument", "MissingValue", "MissingArgument"}

Environments == {Nothing, [v \in {"EXTRA", "OUT", "P_SIZE"} |-> IF v = "EXTRA" THEN "ON" ELSE "env"]}

Applications ==
    {Program(<<>>, <<Mixed, Library(<<"p-size">>, FALSE), Library(<<"p-tint">>, TRUE)>>, <<line>>, Nothing, {}) :
        line \in Lines(MixedElements, 3)}
    \cup {Program(<<>>, <<Mixed, Library(<<"p-size">>, FALSE)>>, <<line>>, environment, ignored) :
            line \in Lines(MixedElements, 2), environment \in Environments, ignored \in {{}, Taken}}
    \cup {Program(<<>>, <<Listing>>, <<line>>, Nothing, ignored) :
            line \in Lines({"-n", "-nv", "-hn", "a", "b", "--"}, 4), ignored \in {{}, Taken, {"MissingArgument"}}}

\* A callback that takes every error, with errors that leave an offset behind:
\* what follows fails an assertion or is read from behind its end.
Everything == {"InvalidShortArgument", "UnknownShortArgument", "InvalidBooleanOption",
               "PositionalArgumentAsNamed"} \cup Taken

IgnoringParser ==
    [prefix |-> "", skippedPrefixes |-> {}, ignoreUnknown |-> FALSE, finalOptional |-> 0,
     entries |-> <<Help(""), Entry("Argument", "", "input"), Entry("Option", "", "output"),
                   Entry("Option", "O", "out"), Entry("BooleanOption", "x", "hello")>>]

Ignoring ==
    {Program(<<>>, <<IgnoringParser>>, <<line>>, Nothing, Everything) :
        line \in Lines({"-?", "-xx?", "-x", "-O", "--input", "--output=xx", "--hello=", "--out", "v"}, 3)}

MovedTo(parser_) ==
    {[Program(<<>>, <<parser_>>, <<line>>, Nothing, {}) EXCEPT !.moved = {1}] : line \in Lines({"-x", "--out=v", "v"}, 2)}

AllPrograms == Tests \cup Applications \cup Ignoring \cup MovedTo(Mixed) \cup MovedTo(IgnoringParser)

-----------------------------------------------------------------------------
\* Programs that show where the code departs from its documentation.

TooLargeTests == Tersely(TooLarge)

\* The command line of parseErrorCallbackIgnoreAll(), and short ones.
IgnoringAll ==
    Ignoring \cup
    {Program(<<>>, <<IgnoringParser>>, <<line>>, Nothing, Everything) :
        line \in {<<"-?", "--!!", "-v", "--halp", "-help", "--hello", "--hello=", "--input", "--output">>}}

\* A parser that was moved before it is used.
Moved == MovedTo(Mixed) \cup MovedTo(IgnoringParser)

IgnoringOrMoved == IgnoringAll \cup Moved

\* A value that looks like an option of the library, or like the separator.
ValuesLikeOptions ==
    {Program(<<>>, <<Mixed, Library(<<"p-size">>, FALSE)>>, <<line>>, Nothing, {}) :
        line \in Lines({"--out", "--", "--p-size", "1"}, 4)}

\* Two command lines for one parser.
CalledAgain ==
    {Program(<<>>, <<Mixed>>, <<line, again>>, Nothing, {}) : line, again \in Lines({"-h", "--nope"}, 2)}

ArgumentsDocumented == IgnoringOrMoved \cup ValuesLikeOptions \cup CalledAgain
=============================================================================
