------------------------------- MODULE Tester -------------------------------
(***************************************************************************)
(* TestSuite::Tester: exec() selects the test cases, runs each between its *)
(* setup and teardown as often as it is to be repeated, judges it by what  *)
(* its checks, skips and exceptions did, and returns the exit code.  The   *)
(* checks share state with exec(): the expected failure, the iteration     *)
(* printers, the line of the last check, the benchmark result.             *)
(***************************************************************************)
EXTENDS NumberSequence, TLC

CONSTANTS
    Scenarios,  \* [suite, options] records: what is registered and asked for
    MaxScopes   \* bound on expected failures, iterations and benchmarks open at a time

\* suite: a sequence of [benchmark, repeatCount, fixture, calls]; calls bounds
\* the macros its function uses in one run.
\* options: the command line.  skip and only are texts of NumberSequence.

VARIABLES
    scenario,
    phase,              \* where exec() is
    queue,              \* usedTestCases yet to run
    case,               \* the run of a test case: [id, repeat, aborted, skipped]
    checked,            \* testCaseLine is not zero
    scopes,             \* objects of the test function that end with their block
    expectedFailure,    \* index of a scope or 0
    iterationPrinter,   \* index of a scope or 0
    benchmarkResult,    \* history in place of a time: the repeat it was measured in, 0 if none
    measurements,       \* benchmark results of the case, one per repeat
    counts,             \* [error, noCheck, check, diagnostic]
    exitCode,
    calls,              \* macros used in this run of the function
    log,                \* history: the runs of test cases that are over
    surprised,          \* history: a check went against what its scopes expect, or an exception
    checks,             \* history: for each repeat of the case, whether it made a check
    fixtures,           \* history: calls of setup not followed by one of teardown
    overlapped          \* history: an expected failure was stated inside another

harness == <<scenario, exitCode, log, overlapped, fixtures, queue, measurements>>
body == <<checked, scopes, expectedFailure, iterationPrinter, benchmarkResult, calls, surprised, checks>>
vars == <<harness, body, phase, case, counts>>

suite == scenario.suite
options == scenario.options

Phases == {"configure", "next", "setup", "test", "teardown", "result", "done", "terminated"}

Scope == [kind: {"expectedFailure", "iteration", "benchmark"}, enabled: BOOLEAN, parent: Nat]

TypeOK ==
    /\ phase \in Phases
    /\ queue \in Seq(DOMAIN suite)
    /\ case \in [id: DOMAIN suite \cup {0}, repeat: Nat, aborted: BOOLEAN, skipped: BOOLEAN]
    /\ checked \in BOOLEAN
    /\ scopes \in Seq(Scope)
    /\ {expectedFailure, iterationPrinter} \subseteq 0 .. MaxScopes
    /\ measurements \in Seq(Nat)
    /\ counts \in [error: Nat, noCheck: Nat, check: Nat, diagnostic: Nat]

Case == suite[case.id]

RepeatCount(id) == suite[id].repeatCount * options.repeatEvery

-----------------------------------------------------------------------------
\* Before the first test case.

IsSkipped(id) ==
    \/ options.skipTests /\ ~suite[id].benchmark
    \/ options.skipBenchmarks /\ suite[id].benchmark
    \/ id \in Range(ParseNumberSequence(options.skip, 1, Len(suite) + 1).out)

\* Those of a sequence that are in a set.
Keep(q, ids) == FoldLeft(LAMBDA kept, id : IF id \in ids THEN Append(kept, id) ELSE kept, <<>>, q)

\* The test cases of --only in its order, else all, without those to skip.
Selected ==
    Keep(IF options.only # <<>> THEN ParseNumberSequence(options.only, 1, Len(suite) + 1).out
         ELSE [id \in DOMAIN suite |-> id],
         {id \in DOMAIN suite : ~IsSkipped(id)})

\* Mutant: each round appends all there is so far.
Repeated_Mutant == FoldLeft(LAMBDA q, k : q \o q, Selected, [k \in 1 .. options.repeatAll - 1 |-> k])

Repeated == FoldLeft(LAMBDA q, k : q \o Selected, <<>>, [k \in 1 .. options.repeatAll |-> k])

Shuffled(q) == {[k \in DOMAIN q |-> q[p[k]]] : p \in Bijection(DOMAIN q, DOMAIN q)}

Exit(code) ==
    /\ phase' = "done"
    /\ exitCode' = code
    /\ UNCHANGED <<scenario, log, overlapped, fixtures, queue, measurements, body, case, counts>>

Readable == \A text \in {options.skip, options.only} :
                ~ParseNumberSequence(text, 1, Len(suite) + 1).refused

Repeats == options.repeatAll > 0 /\ options.repeatEvery > 0

\* The command line asks for what there is not: an unknown benchmark type, then
\* an unreadable sequence, then no repeat at all.
RefuseOptions ==
    /\ phase = "configure"
    /\ \/ ~options.benchmarkKnown /\ Exit(1)
       \/ options.benchmarkKnown /\ ~Readable /\ Exit(2)
       \/ options.benchmarkKnown /\ Readable /\ ~Repeats /\ Exit(1)

Accepted == options.benchmarkKnown /\ Readable /\ Repeats

\* Not an error when only tests or only benchmarks are skipped.
NothingToTest ==
    /\ phase = "configure"
    /\ Accepted
    /\ Repeated = <<>>
    /\ Exit(IF options.skipTests # options.skipBenchmarks THEN 0 ELSE 2)

Prepare ==
    /\ phase = "configure"
    /\ Accepted
    /\ Repeated # <<>>
    /\ queue' \in IF options.shuffle THEN Shuffled(Repeated) ELSE {Repeated}
    /\ phase' = "next"
    /\ UNCHANGED <<scenario, exitCode, log, overlapped, fixtures, measurements, body, case, counts>>

-----------------------------------------------------------------------------
\* Around a test function.

\* It may be told to run no times.
StartCase ==
    /\ phase = "next"
    /\ queue # <<>>
    /\ queue' = Tail(queue)
    /\ case' = [id |-> Head(queue), repeat |-> 0, aborted |-> FALSE, skipped |-> FALSE]
    /\ measurements' = <<>>
    /\ checks' = <<>>
    /\ surprised' = FALSE
    /\ phase' = IF RepeatCount(Head(queue)) > 0 THEN "setup" ELSE "result"
    /\ UNCHANGED <<scenario, exitCode, log, overlapped, fixtures, checked, scopes, expectedFailure,
                   iterationPrinter, benchmarkResult, calls, counts>>

Reset ==
    /\ checked' = FALSE
    /\ benchmarkResult' = 0

\* One more repeat: the setup function, then the state a test function starts with.
Setup ==
    /\ phase = "setup"
    /\ fixtures' = fixtures + IF Case.fixture THEN 1 ELSE 0
    /\ Reset
    /\ calls' = 0
    /\ checks' = Append(checks, FALSE)
    /\ phase' = "test"
    /\ UNCHANGED <<scenario, exitCode, log, overlapped, queue, measurements, scopes, expectedFailure,
                   iterationPrinter, surprised, case, counts>>

\* ~ExpectedFailure(), disabled or not, takes back whatever failure is expected, ~IterationPrinter()
\* the innermost iteration, ~BenchmarkRunner() ends the measurement.
IsOpen(kind) == \E k \in DOMAIN scopes : scopes[k].kind = kind

\* Mutant: nobody takes back an expected failure whose block an exception ends.
Unwind_Mutant ==
    /\ scopes' = <<>>
    /\ iterationPrinter' = 0
    /\ benchmarkResult' = IF IsOpen("benchmark") THEN case.repeat + 1 ELSE benchmarkResult
    /\ UNCHANGED expectedFailure

\* All scopes of the function end, the innermost first.
Unwind ==
    /\ scopes' = <<>>
    /\ iterationPrinter' = 0
    /\ benchmarkResult' = IF IsOpen("benchmark") THEN case.repeat + 1 ELSE benchmarkResult
    /\ expectedFailure' = IF IsOpen("expectedFailure") THEN 0 ELSE expectedFailure

\* The function is left: it "returned", "failed" a check, "skipped" or "threw".
Leave(how) ==
    /\ Unwind
    /\ phase' = "teardown"
    /\ case' = [case EXCEPT !.aborted = how # "returned", !.skipped = how = "skipped"]

CountError(how) == IF how \in {"failed", "threw"} THEN 1 ELSE 0

\* After each repeat, also a failed or skipped one.
TearDown ==
    /\ phase = "teardown"
    /\ fixtures' = fixtures - IF Case.fixture THEN 1 ELSE 0
    /\ measurements' = IF Case.benchmark THEN Append(measurements, benchmarkResult) ELSE measurements
    /\ case' = [case EXCEPT !.repeat = @ + 1]
    /\ phase' = IF case'.repeat < RepeatCount(case.id) /\ ~case.aborted THEN "setup" ELSE "result"
    /\ UNCHANGED <<scenario, exitCode, log, overlapped, queue, body, counts>>

\* What the run of a case was, by its own account.
Verdict == [id |-> case.id,
            verdict |-> CASE surprised -> "failed" [] ~surprised /\ case.skipped -> "skipped" [] OTHER -> "passed",
            checks |-> checks]

\* The last repeat tells whether there was any check, be it one of the case before.
HasNoCheck == ~case.aborted /\ ~checked

Judge ==
    /\ phase = "result"
    /\ log' = Append(log, Verdict)
    /\ counts' = [counts EXCEPT !.noCheck = @ + IF HasNoCheck THEN 1 ELSE 0]
    /\ queue' = IF case.aborted /\ ~case.skipped /\ options.abortOnFail THEN <<>> ELSE queue
    /\ phase' = "next"
    /\ UNCHANGED <<scenario, exitCode, overlapped, fixtures, measurements, body, case>>

\* Mutant: a case without checks is no error.
ExitStatus_Mutant == IF counts.error # 0 THEN 1 ELSE 0

ExitStatus == IF counts.error # 0 \/ counts.noCheck # 0 THEN 1 ELSE 0

WrapUp ==
    /\ phase = "next"
    /\ queue = <<>>
    /\ Exit(ExitStatus)

-----------------------------------------------------------------------------
\* Inside a test function.

Runs ==
    /\ phase = "test"
    /\ calls < Case.calls

\* history: what the blocks around a check say of it.
Expected == \E k \in DOMAIN scopes : scopes[k].kind = "expectedFailure" /\ scopes[k].enabled

\* Mutant: only a failed check is an error.
Contradicts_Mutant(failed) == failed /\ expectedFailure = 0

\* The result is not the expected one: FAIL or XPASS.
Contradicts(failed) == (expectedFailure # 0) # failed

\* A check with its line: it is reported, and ends the function unless all is well.
Conclude(failed, checkCount, diagnosticCount) ==
    LET how == IF Contradicts(failed) THEN "failed" ELSE "returned" IN
    /\ Runs
    /\ checked' = TRUE
    /\ checks' = [checks EXCEPT ![Len(checks)] = TRUE]
    /\ surprised' = (surprised \/ Expected # failed)
    /\ counts' = [counts EXCEPT !.check = @ + checkCount,
                                !.diagnostic = @ + diagnosticCount,
                                !.error = @ + CountError(how)]
    /\ calls' = calls + 1
    /\ IF Contradicts(failed) THEN Leave("failed")
       ELSE UNCHANGED <<phase, case, scopes, iterationPrinter, benchmarkResult, expectedFailure>>
    /\ UNCHANGED harness

\* CORRADE_VERIFY()
Verify(failed) == Conclude(failed, 1, 0)

\* CORRADE_FAIL() and CORRADE_FAIL_IF(), which count no check.
FailIf(failed) == Conclude(failed, 0, 0)

\* CORRADE_COMPARE() and its kin; diagnostic: the comparator has something to save.
CompareWith(failed, diagnostic) ==
    LET saves == /\ diagnostic
                 /\ ~(expectedFailure # 0 /\ failed)
                 /\ options.saveDiagnostic \/ Contradicts(failed)
    IN Conclude(failed, 1, IF saves THEN 1 ELSE 0)

\* CORRADE_SKIP()
Skip ==
    /\ Runs
    /\ Leave("skipped")
    /\ UNCHANGED <<harness, checked, calls, surprised, checks, counts>>

Open(kind, enabled, parent) ==
    /\ Runs
    /\ Len(scopes) < MaxScopes
    /\ scopes' = Append(scopes, [kind |-> kind, enabled |-> enabled, parent |-> parent])
    /\ calls' = calls + 1

\* CORRADE_EXPECT_FAIL() and CORRADE_EXPECT_FAIL_IF()
ExpectFail(condition) ==
    LET enabled == condition /\ ~options.noXfail IN
    /\ Open("expectedFailure", enabled, 0)
    /\ expectedFailure' = IF enabled THEN Len(scopes) + 1 ELSE expectedFailure
    /\ overlapped' = (overlapped \/ Expected)
    /\ UNCHANGED <<scenario, exitCode, log, fixtures, queue, measurements, phase, case, counts, checked,
                   iterationPrinter, benchmarkResult, surprised, checks>>

\* CORRADE_ITERATION()
Iteration ==
    /\ Open("iteration", TRUE, iterationPrinter)
    /\ iterationPrinter' = Len(scopes) + 1
    /\ UNCHANGED <<harness, phase, case, counts, checked, expectedFailure, benchmarkResult, surprised, checks>>

\* CORRADE_BENCHMARK(), not to be used in a test.
Benchmark ==
    /\ Open("benchmark", TRUE, 0)
    /\ Case.benchmark
    /\ checked' = TRUE
    /\ checks' = [checks EXCEPT ![Len(checks)] = TRUE]
    /\ UNCHANGED <<harness, phase, case, counts, expectedFailure, iterationPrinter, benchmarkResult, surprised>>

\* The innermost block ends.
EndScope ==
    /\ phase = "test"
    /\ scopes # <<>>
    /\ LET scope == scopes[Len(scopes)] IN
        /\ scopes' = SubSeq(scopes, 1, Len(scopes) - 1)
        /\ expectedFailure' = IF scope.kind = "expectedFailure" THEN 0 ELSE expectedFailure
        /\ iterationPrinter' = IF scope.kind = "iteration" THEN scope.parent ELSE iterationPrinter
        /\ benchmarkResult' = IF scope.kind = "benchmark" THEN case.repeat + 1 ELSE benchmarkResult
    /\ UNCHANGED <<harness, phase, case, counts, checked, calls, surprised, checks>>

\* The function throws a std::exception, which is caught unless --no-catch.
Throw ==
    /\ Runs
    /\ ~options.noCatch
    /\ Leave("threw")
    /\ surprised' = TRUE
    /\ counts' = [counts EXCEPT !.error = @ + CountError("threw")]
    /\ UNCHANGED <<harness, checked, calls, checks>>

Terminate ==
    /\ Runs
    /\ options.noCatch
    /\ phase' = "terminated"
    /\ UNCHANGED <<harness, body, case, counts>>

Return ==
    /\ phase = "test"
    /\ Leave("returned")
    /\ UNCHANGED <<harness, checked, calls, surprised, checks, counts>>

-----------------------------------------------------------------------------

StartsWith(s) ==
    /\ scenario = s
    /\ phase = "configure"
    /\ queue = <<>>
    /\ case = [id |-> 0, repeat |-> 0, aborted |-> FALSE, skipped |-> FALSE]
    /\ checked = FALSE
    /\ scopes = <<>>
    /\ expectedFailure = 0
    /\ iterationPrinter = 0
    /\ benchmarkResult = 0
    /\ measurements = <<>>
    /\ counts = [error |-> 0, noCheck |-> 0, check |-> 0, diagnostic |-> 0]
    /\ exitCode = 0
    /\ calls = 0
    /\ log = <<>>
    /\ surprised = FALSE
    /\ checks = <<>>
    /\ fixtures = 0
    /\ overlapped = FALSE

Init == \E s \in Scenarios : StartsWith(s)

Macro ==
    \/ \E failed \in BOOLEAN : Verify(failed) \/ FailIf(failed)
    \/ \E failed, diagnostic \in BOOLEAN : CompareWith(failed, diagnostic)
    \/ Skip
    \/ \E condition \in BOOLEAN : ExpectFail(condition)
    \/ Iteration
    \/ Benchmark

Next ==
    \/ RefuseOptions
    \/ NothingToTest
    \/ Prepare
    \/ StartCase
    \/ Setup
    \/ Macro
    \/ EndScope
    \/ Throw
    \/ Terminate
    \/ Return
    \/ TearDown
    \/ Judge
    \/ WrapUp

Spec == Init /\ [][Next]_vars

-----------------------------------------------------------------------------

\* What --skip and --only leave, by what their texts stand for.
Wanted ==
    LET stay == {id \in DOMAIN suite :
                    /\ suite[id].benchmark => ~options.skipBenchmarks
                    /\ ~suite[id].benchmark => ~options.skipTests
                    /\ id \notin Range(Denotes(options.skip, 1, Len(suite) + 1))}
    IN Keep(IF options.only = <<>> THEN [id \in DOMAIN suite |-> id]
            ELSE Denotes(options.only, 1, Len(suite) + 1), stay)

RunInOrder(ids) ==
    /\ \A k \in DOMAIN ids : ids[k] = Wanted[((k - 1) % Len(Wanted)) + 1]
    /\ \/ options.abortOnFail /\ \E k \in DOMAIN log : log[k].verdict = "failed"
       \/ Len(ids) = Len(Wanted) * options.repeatAll

RunShuffled(ids) ==
    LET Times(id, q) == Cardinality({k \in DOMAIN q : q[k] = id}) IN
    \A id \in DOMAIN suite :
        \/ Times(id, ids) = Times(id, Wanted) * options.repeatAll
        \/ /\ options.abortOnFail
           /\ Times(id, ids) < Times(id, Wanted) * options.repeatAll

(***************************************************************************)
(* exec() runs the test cases asked for and no other, duplicates and order *)
(* kept unless shuffled, each as often as it says unless it fails or skips *)
(* before; --abort-on-fail stops at the first failure and only there.      *)
(***************************************************************************)
RunsAsAsked ==
    phase = "done" /\ WellFormed(options.only) /\ WellFormed(options.skip) /\ ~overlapped =>
        /\ LET ids == [k \in DOMAIN log |-> log[k].id] IN
               IF ~Accepted \/ Wanted = <<>> THEN ids = <<>>
            ELSE IF options.shuffle THEN RunShuffled(ids) ELSE RunInOrder(ids)
        /\ \A k \in DOMAIN log :
            /\ log[k].verdict = "failed" /\ options.abortOnFail => k = Len(log)
            /\ log[k].verdict = "passed" =>
                Len(log[k].checks) = suite[log[k].id].repeatCount * options.repeatEvery

\* The same for sequences whose ranges stay within 32 bits (parseNumberSequence()).
RunsAsSelected == RangesFit(options.only) /\ RangesFit(options.skip) => RunsAsAsked

(***************************************************************************)
(* Every setup is followed by its teardown before another one, also after  *)
(* a failure, a skip or an exception; no expected failure, no iteration    *)
(* and no measurement of one repeat is left to the next (the assertion at  *)
(* the end of the repeat loop, the IterationPrinter one); and an expected  *)
(* failure in force is that of a block that has not ended.                 *)
(***************************************************************************)
RepeatsIsolated ==
    /\ phase \in {"configure", "next", "setup", "result", "done"} => fixtures = 0
    /\ phase \in {"test", "teardown"} => fixtures = IF Case.fixture THEN 1 ELSE 0
    /\ phase # "test" /\ phase # "terminated" =>
        expectedFailure = 0 /\ iterationPrinter = 0 /\ scopes = <<>>
    /\ \A k \in DOMAIN measurements : measurements[k] \in {0, k}
    /\ expectedFailure # 0 =>
        /\ expectedFailure <= Len(scopes)
        /\ scopes[expectedFailure].kind = "expectedFailure"
        /\ scopes[expectedFailure].enabled
    /\ iterationPrinter = Max({0} \cup {k \in DOMAIN scopes : scopes[k].kind = "iteration"})

RunsThat(verdict) == {k \in DOMAIN log : log[k].verdict = verdict}

\* The passed runs where no repeat made a check; those where some repeat made
\* none.  Without a repeat there is nothing that tells.
Unchecked == {k \in RunsThat("passed") : log[k].checks # <<>> /\ \A i \in DOMAIN log[k].checks : ~log[k].checks[i]}
PartlyUnchecked == {k \in RunsThat("passed") : log[k].checks # <<>> => \E i \in DOMAIN log[k].checks : ~log[k].checks[i]}

(***************************************************************************)
(* As long as no expected failure is stated inside another, a run counts   *)
(* as an error exactly when one of its checks went against what the blocks *)
(* around it say, or an exception left it; and as a run without checks     *)
(* only if some repeat, and always if every repeat of one at least, made   *)
(* none.                                                                   *)
(***************************************************************************)
CountsExact ==
    phase = "next" /\ ~overlapped =>
        /\ counts.error = Cardinality(RunsThat("failed"))
        /\ Cardinality(Unchecked) <= counts.noCheck
        /\ counts.noCheck <= Cardinality(PartlyUnchecked)

(***************************************************************************)
(* The program succeeds only if nothing failed and every passed run made a *)
(* check, and always if nothing failed and each has repeats that all made  *)
(* one.                                                                    *)
(***************************************************************************)
ExitCodeExact ==
    phase = "done" /\ log # <<>> /\ ~overlapped =>
        /\ exitCode = 0 => RunsThat("failed") = {} /\ Unchecked = {}
        /\ RunsThat("failed") = {} /\ PartlyUnchecked = {} => exitCode = 0
=============================================================================
