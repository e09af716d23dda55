---------------------------- MODULE TestProgram ----------------------------
(***************************************************************************)
(* A program and its command line.  The exec() of a test executable has    *)
(* Arguments parse it, with parse(), which exits on help or an error, and  *)
(* takes its options from what was read; any other program is over when    *)
(* its parsers are done.                                                   *)
(***************************************************************************)
EXTENDS Tester, Arguments

\* The programs have a suite, <<>> for those that are no tests.
ASSUME SuitesAssumption ==
    \A p \in Programs : p.suite \in Seq([benchmark: BOOLEAN, repeatCount: Nat, fixture: BOOLEAN, calls: Nat])

programVars == <<vars, parseVars>>

\* Before the options are read nothing is accepted.
NoScenario == [suite |-> <<>>, options |-> [benchmarkKnown |-> FALSE, skip |-> <<>>, only |-> <<>>]]

\* What exec() declares: the key, a short one, a default, a variable.
Option(shortKey, key, default, variable) ==
    [type |-> "Option", shortKey |-> shortKey, key |-> key, default |-> default, environment |-> variable]
BooleanOption(shortKey, key, variable) ==
    [type |-> "BooleanOption", shortKey |-> shortKey, key |-> key, default |-> "", environment |-> variable]

TesterEntries == <<
    BooleanOption("h", "help", ""),
    Option("c", "color", "auto", "CORRADE_TEST_COLOR"),
    Option("", "skip", "", ""),
    BooleanOption("", "skip-tests", "CORRADE_TEST_SKIP_TESTS"),
    BooleanOption("", "skip-benchmarks", "CORRADE_TEST_SKIP_BENCHMARKS"),
    Option("", "only", "", ""),
    BooleanOption("", "shuffle", "CORRADE_TEST_SHUFFLE"),
    Option("", "repeat-every", "1", "CORRADE_TEST_REPEAT_EVERY"),
    Option("", "repeat-all", "1", "CORRADE_TEST_REPEAT_ALL"),
    BooleanOption("X", "abort-on-fail", "CORRADE_TEST_ABORT_ON_FAIL"),
    BooleanOption("", "no-xfail", "CORRADE_TEST_NO_XFAIL"),
    BooleanOption("", "no-catch", "CORRADE_TEST_NO_CATCH"),
    Option("S", "save-diagnostic", "", "CORRADE_TEST_SAVE_DIAGNOSTIC"),
    BooleanOption("v", "verbose", "CORRADE_TEST_VERBOSE"),
    Option("", "benchmark", "wall-time", "CORRADE_TEST_BENCHMARK"),
    Option("", "benchmark-discard", "1", "CORRADE_TEST_BENCHMARK_DISCARD"),
    Option("", "benchmark-yellow", "0.05", "CORRADE_TEST_BENCHMARK_YELLOW"),
    Option("", "benchmark-red", "0.25", "CORRADE_TEST_BENCHMARK_RED")>>

TesterParser(skippedPrefixes) ==
    [prefix |-> "", entries |-> TesterEntries, skippedPrefixes |-> skippedPrefixes,
     ignoreUnknown |-> FALSE, finalOptional |-> 0]

-----------------------------------------------------------------------------

IsTest == program.suite # <<>>

ValueOf(key) == outcomes[1].values[FindKey(program.parsers[1], key)]

\* The numbers and texts of the options, in the characters of NumberSequence.
Characters == <<"0", "1", "2", "3", "4", "5", "6", "7", "8", "9", ",", "-", "?">>
Code(c) == (CHOOSE k \in DOMAIN Characters : Characters[k] = c) - 1
Codes(text) == [k \in 1 .. Len(text) |-> Code(Char(text, k))]
Number(text) == FoldLeft(LAMBDA n, digit : n * 10 + digit, 0, Codes(text))

OptionsRead ==
    [benchmarkKnown |-> ValueOf("benchmark") \in {"wall-time", "cpu-time", "cpu-cycles"},
     skipTests |-> ValueOf("skip-tests"),
     skipBenchmarks |-> ValueOf("skip-benchmarks"),
     skip |-> Codes(ValueOf("skip")),
     only |-> Codes(ValueOf("only")),
     repeatAll |-> Number(ValueOf("repeat-all")),
     repeatEvery |-> Number(ValueOf("repeat-every")),
     shuffle |-> ValueOf("shuffle"),
     abortOnFail |-> ValueOf("abort-on-fail"),
     noXfail |-> ValueOf("no-xfail"),
     noCatch |-> ValueOf("no-catch"),
     saveDiagnostic |-> ValueOf("save-diagnostic") # ""]

AtExec == IsTest /\ Len(outcomes) = 1 /\ phase = "configure" /\ scenario = NoScenario

\* parse(): help goes before an error.
ParseExits ==
    /\ AtExec
    /\ ValueOf("help") \/ ~outcomes[1].success
    /\ Exit(IF ValueOf("help") THEN 0 ELSE 1)
    /\ UNCHANGED parseVars

ReadOptions ==
    /\ AtExec
    /\ outcomes[1].success /\ ~ValueOf("help")
    /\ scenario' = [suite |-> program.suite, options |-> OptionsRead]
    /\ UNCHANGED <<exitCode, log, overlapped, fixtures, queue, measurements, body, phase, case, counts, parseVars>>

RunTests ==
    /\ scenario # NoScenario
    /\ Next
    /\ UNCHANGED parseVars

ProgramInit == StartsWith(NoScenario) /\ ParseInit

ProgramNext ==
    \/ ParseNext /\ UNCHANGED vars
    \/ ParseExits
    \/ ReadOptions
    \/ RunTests

ProgramSpec == ProgramInit /\ [][ProgramNext]_programVars

-----------------------------------------------------------------------------

\* The characters of the texts are those that NumberSequence tells apart.
OptionsTyped ==
    scenario # NoScenario =>
        /\ {options.skip, options.only} \subseteq Seq(0 .. Unrecognized)
        /\ {options.repeatAll, options.repeatEvery} \subseteq Nat

(***************************************************************************)
(* What a test executable or another program reads from its command lines  *)
(* is what they say (ReadsAsDocumented; Arguments::tryParse(), and exec()  *)
(* of Tester, which runs by the options it read, its numbers and texts     *)
(* among them).                                                            *)
(***************************************************************************)
LinesRead == (scenario = NoScenario => ReadsAsDocumented) /\ OptionsTyped
=============================================================================
