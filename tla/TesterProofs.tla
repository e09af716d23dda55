----------------------------- MODULE TesterProofs -----------------------------
(***************************************************************************)
(* Proofs of Tester and of the program around it: whatever the functions   *)
(* of a test do, and for any suite, options and number of blocks open at a *)
(* time, no repeat inherits anything from the one before, counts and exit  *)
(* code tell what happened, and the test cases asked for are the ones that *)
(* run.  The last needs what parseNumberSequence() gives for a text, which *)
(* is proved first.                                                        *)
(***************************************************************************)
EXTENDS TestProgram, SequenceTheorems, FiniteSetTheorems, TLAPS

-----------------------------------------------------------------------------
(***************************************************************************)
(* Repeats.                                                                *)
(***************************************************************************)

Shape ==
    /\ phase \in Phases
    /\ scopes \in Seq(Scope)
    /\ case = [id |-> case.id, repeat |-> case.repeat, aborted |-> case.aborted, skipped |-> case.skipped]
    /\ case.repeat \in Nat
    /\ measurements \in Seq(Nat)

\* Of the first n blocks of s, the innermost iteration is w, or there is none.
IsInnermost(s, w, n) ==
    /\ w \in 0 .. n
    /\ w # 0 => s[w].kind = "iteration"
    /\ \A j \in 1 .. n : s[j].kind = "iteration" => j <= w

BlocksSound ==
    /\ IsInnermost(scopes, iterationPrinter, Len(scopes))
    /\ \A k \in 1 .. Len(scopes) :
            scopes[k].kind = "iteration" => IsInnermost(scopes, scopes[k].parent, k - 1)
    /\ expectedFailure # 0 =>
            /\ expectedFailure \in 1 .. Len(scopes)
            /\ scopes[expectedFailure].kind = "expectedFailure"
            /\ scopes[expectedFailure].enabled

NothingLeft ==
    phase \notin {"test", "terminated"} => scopes = <<>> /\ expectedFailure = 0 /\ iterationPrinter = 0

FixturesSound ==
    /\ phase \in {"configure", "next", "setup", "result", "done"} => fixtures = 0
    /\ phase \in {"test", "teardown"} => fixtures = IF Case.fixture THEN 1 ELSE 0

\* A benchmark has one measurement for each repeat that is over, and the one of
\* this repeat is of this repeat.
MeasurementsSound ==
    /\ \A k \in DOMAIN measurements : measurements[k] \in {0, k}
    /\ phase \in {"setup", "test", "teardown"} /\ Case.benchmark => Len(measurements) = case.repeat
    /\ phase \in {"test", "teardown"} => benchmarkResult \in {0, case.repeat + 1}

Isolation == Shape /\ BlocksSound /\ NothingLeft /\ FixturesSound /\ MeasurementsSound

LEMMA NoBlocks ==
    ASSUME scopes = <<>>, expectedFailure = 0, iterationPrinter = 0
    PROVE  BlocksSound
BY DEF BlocksSound, IsInnermost

\* The blocks that are open, the innermost first, end with the function.
LEMMA LeaveStep ==
    ASSUME Isolation, phase = "test", UNCHANGED harness, NEW how, Leave(how)
    PROVE  Isolation'
<1>1. /\ scopes' = <<>> /\ iterationPrinter' = 0
      /\ benchmarkResult' \in {benchmarkResult, case.repeat + 1}
      /\ expectedFailure' = IF IsOpen("expectedFailure") THEN 0 ELSE expectedFailure
      /\ phase' = "teardown"
      /\ UNCHANGED <<scenario, fixtures, measurements>>
  BY DEF Leave, Unwind, harness
<1>2. expectedFailure' = 0
  BY <1>1 DEF Isolation, Shape, BlocksSound, IsOpen
<1>3. Shape' /\ case'.id = case.id /\ case'.repeat = case.repeat
  <2>1. PICK a, s : a = (how # "returned") /\ s = (how = "skipped")
    OBVIOUS
  <2>2. case' = [case EXCEPT !.aborted = a, !.skipped = s]
    BY <2>1 DEF Leave
  <2>3. case' = [id |-> case.id, repeat |-> case.repeat, aborted |-> a, skipped |-> s]
    BY <2>2 DEF Isolation, Shape
  <2> QED BY <1>1, <2>3 DEF Isolation, Shape, Phases
<1>4. BlocksSound' /\ NothingLeft'
  BY <1>1, <1>2 DEF BlocksSound, IsInnermost, NothingLeft
<1>5. FixturesSound' /\ MeasurementsSound'
  BY <1>1, <1>3 DEF Isolation, FixturesSound, MeasurementsSound, Case, suite
<1> QED BY <1>3, <1>4, <1>5 DEF Isolation

\* What leaves exec()'s variables, blocks and measurements alone.
LEMMA BlocksAlone ==
    ASSUME Isolation, UNCHANGED <<scopes, iterationPrinter, expectedFailure, benchmarkResult, phase, case, scenario, fixtures, measurements>>
    PROVE  Isolation'
BY DEF Isolation, Shape, BlocksSound, IsInnermost, NothingLeft, FixturesSound, MeasurementsSound, Case, suite

\* One more block is open.
LEMMA OpenStep ==
    ASSUME Isolation, NEW kind \in {"expectedFailure", "iteration", "benchmark"}, NEW enabled \in BOOLEAN,
           NEW parent \in Nat, Open(kind, enabled, parent), kind = "iteration" => parent = iterationPrinter,
           UNCHANGED <<harness, phase, case, benchmarkResult>>
           \/ UNCHANGED <<scenario, fixtures, measurements, phase, case, benchmarkResult>>,
           \/ kind # "expectedFailure" /\ UNCHANGED expectedFailure
           \/ kind = "expectedFailure" /\ expectedFailure' = IF enabled THEN Len(scopes) + 1 ELSE expectedFailure,
           iterationPrinter' = IF kind = "iteration" THEN Len(scopes) + 1 ELSE iterationPrinter
    PROVE  Isolation'
<1> DEFINE s == [kind |-> kind, enabled |-> enabled, parent |-> parent]
<1>1. s \in Scope /\ s.kind = kind /\ s.enabled = enabled /\ s.parent = parent
  BY DEF Scope
<1> HIDE DEF s
<1>2. phase = "test" /\ scopes' = Append(scopes, s) /\ scopes \in Seq(Scope)
  BY DEF Open, Runs, Isolation, Shape, s
<1>3. /\ scopes' \in Seq(Scope) /\ Len(scopes') = Len(scopes) + 1 /\ Len(scopes) \in Nat
      /\ \A k \in 1 .. Len(scopes) : scopes'[k] = scopes[k]
      /\ scopes'[Len(scopes) + 1] = s
  BY <1>1, <1>2, AppendProperties, LenProperties
<1>4. UNCHANGED <<scenario, fixtures, measurements, phase, case, benchmarkResult>>
  BY DEF harness
<1>5. Shape' /\ NothingLeft' /\ FixturesSound' /\ MeasurementsSound'
  BY <1>2, <1>3, <1>4 DEF Isolation, Shape, NothingLeft, FixturesSound, MeasurementsSound, Case, suite
<1>6. ASSUME NEW w, NEW n \in 0 .. Len(scopes), IsInnermost(scopes, w, n) PROVE IsInnermost(scopes', w, n)
  BY <1>3, <1>6 DEF IsInnermost
<1>7. IsInnermost(scopes', iterationPrinter', Len(scopes'))
  <2>1. IsInnermost(scopes, iterationPrinter, Len(scopes))
    BY DEF Isolation, BlocksSound
  <2>2. CASE kind = "iteration"
    BY <1>1, <1>3, <2>2 DEF IsInnermost
  <2>3. CASE kind # "iteration"
    BY <1>1, <1>3, <2>1, <2>3 DEF IsInnermost
  <2> QED BY <2>2, <2>3
<1>8. ASSUME NEW k \in 1 .. Len(scopes'), scopes'[k].kind = "iteration"
      PROVE  IsInnermost(scopes', scopes'[k].parent, k - 1)
  <2>1. CASE k = Len(scopes) + 1
    <3>1. IsInnermost(scopes, iterationPrinter, Len(scopes)) /\ k - 1 = Len(scopes) /\ scopes'[k].parent = iterationPrinter
      BY <1>1, <1>3, <1>8, <2>1 DEF Isolation, BlocksSound
    <3> QED BY <1>3, <1>6, <3>1
  <2>2. CASE k # Len(scopes) + 1
    <3>1. k \in 1 .. Len(scopes) /\ k - 1 \in 0 .. Len(scopes)
      BY <1>3, <2>2
    <3>2. IsInnermost(scopes, scopes[k].parent, k - 1)
      BY <1>3, <1>8, <3>1 DEF Isolation, BlocksSound
    <3> QED BY <1>3, <1>6, <3>1, <3>2
  <2> QED BY <2>1, <2>2
<1>9. expectedFailure' # 0 =>
            /\ expectedFailure' \in 1 .. Len(scopes')
            /\ scopes'[expectedFailure'].kind = "expectedFailure"
            /\ scopes'[expectedFailure'].enabled
  <2>1. CASE expectedFailure' = expectedFailure
    <3>1. PICK e : e = expectedFailure
      OBVIOUS
    <3>2. e # 0 => e \in 1 .. Len(scopes) /\ scopes[e].kind = "expectedFailure" /\ scopes[e].enabled
      BY <3>1 DEF Isolation, BlocksSound
    <3> QED BY <1>3, <2>1, <3>1, <3>2
  <2>2. CASE expectedFailure' # expectedFailure
    <3>1. kind = "expectedFailure" /\ enabled /\ expectedFailure' = Len(scopes) + 1
      BY <2>2
    <3>2. Len(scopes) + 1 \in 1 .. Len(scopes')
      BY <1>3
    <3> QED BY <1>1, <1>3, <3>1, <3>2
  <2> QED BY <2>1, <2>2
<1> QED BY <1>5, <1>7, <1>8, <1>9 DEF Isolation, BlocksSound

LEMMA BlockLess ==
    ASSUME NEW s \in Seq(Scope), s # <<>>
    PROVE  /\ Len(s) \in Nat \ {0}
           /\ SubSeq(s, 1, Len(s) - 1) \in Seq(Scope)
           /\ Len(SubSeq(s, 1, Len(s) - 1)) = Len(s) - 1
           /\ \A k \in 1 .. Len(s) - 1 : SubSeq(s, 1, Len(s) - 1)[k] = s[k]
<1>1. Len(s) \in Nat \ {0}
  BY EmptySeq
<1>2. \A w \in 1 .. Len(s) - 1 : s[w] \in Scope
  BY <1>1, ElementOfSeq
<1>3. Len(s) - 1 \in Int /\ 1 \in Int /\ (Len(s) - 1) - 1 + 1 = Len(s) - 1
  BY <1>1
<1>4. /\ SubSeq(s, 1, Len(s) - 1) \in Seq(Scope)
      /\ Len(SubSeq(s, 1, Len(s) - 1)) = IF 1 <= Len(s) - 1 THEN Len(s) - 1 ELSE 0
      /\ \A w \in 1 .. Len(s) - 1 : SubSeq(s, 1, Len(s) - 1)[w] = s[1 + w - 1]
  BY <1>2, <1>3, SubSeqProperties
<1>5. \A w \in 1 .. Len(s) - 1 : 1 + w - 1 = w
  OBVIOUS
<1>6. Len(s) - 1 = IF 1 <= Len(s) - 1 THEN Len(s) - 1 ELSE 0
  BY <1>1
<1> QED BY <1>1, <1>4, <1>5, <1>6

\* ~ExpectedFailure(), ~IterationPrinter() and ~BenchmarkRunner()
LEMMA EndScopeStep ==
    ASSUME Isolation, EndScope
    PROVE  Isolation'
<1>1. /\ phase = "test" /\ scopes # <<>>
      /\ scopes' = SubSeq(scopes, 1, Len(scopes) - 1)
      /\ expectedFailure' = IF scopes[Len(scopes)].kind = "expectedFailure" THEN 0 ELSE expectedFailure
      /\ iterationPrinter' = IF scopes[Len(scopes)].kind = "iteration" THEN scopes[Len(scopes)].parent ELSE iterationPrinter
      /\ benchmarkResult' \in {benchmarkResult, case.repeat + 1}
      /\ UNCHANGED <<scenario, fixtures, measurements, phase, case>>
  BY DEF EndScope, harness
<1>2. scopes \in Seq(Scope) /\ Len(scopes) \in Nat \ {0}
  BY <1>1, BlockLess DEF Isolation, Shape
<1>3. /\ scopes' \in Seq(Scope) /\ Len(scopes') = Len(scopes) - 1
      /\ \A k \in 1 .. Len(scopes) - 1 : scopes'[k] = scopes[k]
  BY <1>1, <1>2, BlockLess
<1>4. Shape' /\ NothingLeft' /\ FixturesSound' /\ MeasurementsSound'
  BY <1>1, <1>3 DEF Isolation, Shape, NothingLeft, FixturesSound, MeasurementsSound, Case, suite
<1>5. ASSUME NEW w, NEW n \in 0 .. Len(scopes) - 1, IsInnermost(scopes, w, n) PROVE IsInnermost(scopes', w, n)
  BY <1>2, <1>3, <1>5 DEF IsInnermost
<1>6. IsInnermost(scopes, iterationPrinter', Len(scopes) - 1)
  <2>1. IsInnermost(scopes, iterationPrinter, Len(scopes)) /\ Len(scopes) \in 1 .. Len(scopes)
    BY <1>2 DEF Isolation, BlocksSound
  <2>2. CASE scopes[Len(scopes)].kind = "iteration"
    BY <1>1, <2>1, <2>2 DEF Isolation, BlocksSound
  <2>3. CASE scopes[Len(scopes)].kind # "iteration"
    BY <1>1, <1>2, <2>1, <2>3 DEF IsInnermost
  <2> QED BY <2>2, <2>3
<1>7. IsInnermost(scopes', iterationPrinter', Len(scopes'))
  BY <1>2, <1>3, <1>5, <1>6
<1>8. ASSUME NEW k \in 1 .. Len(scopes'), scopes'[k].kind = "iteration"
      PROVE  IsInnermost(scopes', scopes'[k].parent, k - 1)
  <2>1. k \in 1 .. Len(scopes) /\ k \in 1 .. Len(scopes) - 1 /\ k - 1 \in 0 .. Len(scopes) - 1 /\ scopes'[k] = scopes[k]
    BY <1>2, <1>3
  <2>2. IsInnermost(scopes, scopes[k].parent, k - 1)
    BY <1>8, <2>1 DEF Isolation, BlocksSound
  <2> QED BY <1>5, <2>1, <2>2
<1>9. expectedFailure' # 0 =>
            /\ expectedFailure' \in 1 .. Len(scopes')
            /\ scopes'[expectedFailure'].kind = "expectedFailure"
            /\ scopes'[expectedFailure'].enabled
  <2>1. PICK e : e = expectedFailure
    OBVIOUS
  <2>2. e # 0 => e \in 1 .. Len(scopes) /\ scopes[e].kind = "expectedFailure" /\ scopes[e].enabled
    BY <2>1 DEF Isolation, BlocksSound
  <2>3. ASSUME expectedFailure' # 0 PROVE e # 0 /\ expectedFailure' = e /\ e \in 1 .. Len(scopes) - 1
    BY <1>1, <1>2, <2>1, <2>2, <2>3
  <2> QED BY <1>3, <2>2, <2>3
<1> QED BY <1>4, <1>7, <1>8, <1>9 DEF Isolation, BlocksSound

LEMMA SetupStep ==
    ASSUME Isolation, Setup
    PROVE  Isolation'
<1>1. /\ phase = "setup" /\ phase' = "test" /\ benchmarkResult' = 0
      /\ fixtures' = fixtures + IF Case.fixture THEN 1 ELSE 0
      /\ UNCHANGED <<scenario, case, measurements, scopes, expectedFailure, iterationPrinter>>
  BY DEF Setup, Reset
<1>2. fixtures = 0 /\ Case' = Case
  BY <1>1 DEF Isolation, FixturesSound, Case, suite
<1>3. Shape' /\ BlocksSound' /\ NothingLeft'
  BY <1>1 DEF Isolation, Shape, Phases, BlocksSound, IsInnermost, NothingLeft
<1>4. FixturesSound' /\ MeasurementsSound'
  BY <1>1, <1>2 DEF Isolation, FixturesSound, MeasurementsSound
<1> QED BY <1>3, <1>4 DEF Isolation

LEMMA TearDownStep ==
    ASSUME Isolation, TearDown
    PROVE  Isolation'
<1>1. /\ phase = "teardown" /\ phase' \in {"setup", "result"}
      /\ fixtures' = fixtures - IF Case.fixture THEN 1 ELSE 0
      /\ measurements' = IF Case.benchmark THEN Append(measurements, benchmarkResult) ELSE measurements
      /\ case' = [case EXCEPT !.repeat = @ + 1]
      /\ UNCHANGED <<scenario, scopes, expectedFailure, iterationPrinter, benchmarkResult>>
  BY DEF TearDown, body
<1>2. fixtures' = 0
  BY <1>1 DEF Isolation, FixturesSound
<1>3. case' = [id |-> case.id, repeat |-> case.repeat + 1, aborted |-> case.aborted, skipped |-> case.skipped]
  BY <1>1 DEF Isolation, Shape
<1>4. Case' = Case /\ case'.repeat = case.repeat + 1 /\ case.repeat \in Nat
  BY <1>1, <1>3 DEF Case, suite, Isolation, Shape
<1>5. /\ measurements' \in Seq(Nat)
      /\ \A k \in DOMAIN measurements' : measurements'[k] \in {0, k}
      /\ Case.benchmark => Len(measurements') = case.repeat + 1
  <2>1. CASE Case.benchmark
    <3>1. measurements \in Seq(Nat) /\ Len(measurements) = case.repeat /\ benchmarkResult \in {0, case.repeat + 1}
      BY <1>1, <2>1 DEF Isolation, Shape, MeasurementsSound
    <3>2. benchmarkResult \in Nat /\ measurements' = Append(measurements, benchmarkResult)
      BY <1>1, <1>4, <2>1, <3>1
    <3>3. /\ measurements' \in Seq(Nat) /\ Len(measurements') = case.repeat + 1
          /\ \A k \in 1 .. case.repeat : measurements'[k] = measurements[k]
          /\ measurements'[case.repeat + 1] = benchmarkResult
      BY <3>1, <3>2, AppendProperties
    <3>4. \A k \in 1 .. case.repeat : measurements[k] \in {0, k}
      BY <3>1, LenProperties DEF Isolation, MeasurementsSound
    <3>5. DOMAIN measurements' = 1 .. case.repeat + 1
      BY <3>3, LenProperties
    <3>6. ASSUME NEW k \in 1 .. case.repeat + 1 PROVE measurements'[k] \in {0, k}
      <4>1. CASE k \in 1 .. case.repeat
        BY <3>3, <3>4, <4>1
      <4>2. CASE k = case.repeat + 1
        BY <3>1, <3>3, <4>2
      <4>3. case.repeat \in Nat
        BY <3>1, LenProperties
      <4> QED BY <4>1, <4>2, <4>3
    <3> QED BY <3>3, <3>5, <3>6
  <2>2. CASE ~Case.benchmark
    BY <1>1, <2>2 DEF Isolation, Shape, MeasurementsSound
  <2> QED BY <2>1, <2>2
<1>6. Shape'
  BY <1>1, <1>3, <1>4, <1>5 DEF Isolation, Shape, Phases
<1>7. BlocksSound' /\ NothingLeft'
  BY <1>1 DEF Isolation, BlocksSound, IsInnermost, NothingLeft
<1>8. FixturesSound'
  BY <1>1, <1>2 DEF FixturesSound
<1>9. MeasurementsSound'
  BY <1>1, <1>4, <1>5 DEF MeasurementsSound
<1> QED BY <1>6, <1>7, <1>8, <1>9 DEF Isolation

LEMMA StartCaseStep ==
    ASSUME Isolation, StartCase
    PROVE  Isolation'
<1>1. /\ phase = "next" /\ phase' \in {"setup", "result"} /\ measurements' = <<>>
      /\ case' = [id |-> Head(queue), repeat |-> 0, aborted |-> FALSE, skipped |-> FALSE]
      /\ UNCHANGED <<fixtures, scopes, expectedFailure, iterationPrinter>>
  BY DEF StartCase
<1>2. case'.repeat = 0 /\ <<>> \in Seq(Nat) /\ Len(<<>>) = 0 /\ DOMAIN <<>> = {}
  BY <1>1, EmptySeq
<1>3. Shape'
  BY <1>1, <1>2 DEF Isolation, Shape, Phases
<1>4. BlocksSound' /\ NothingLeft' /\ FixturesSound'
  BY <1>1 DEF Isolation, BlocksSound, IsInnermost, NothingLeft, FixturesSound
<1>5. MeasurementsSound'
  BY <1>1, <1>2 DEF MeasurementsSound
<1> QED BY <1>3, <1>4, <1>5 DEF Isolation

\* What moves exec() on between the test cases, or ends it.
LEMMA BetweenStep ==
    ASSUME Isolation, phase \in {"configure", "next", "result"}, phase' \in {"configure", "next", "done"},
           UNCHANGED <<scopes, iterationPrinter, expectedFailure, case, fixtures, measurements>>
    PROVE  Isolation'
<1>1. Shape' /\ BlocksSound' /\ NothingLeft'
  BY DEF Isolation, Shape, Phases, BlocksSound, IsInnermost, NothingLeft
<1>2. FixturesSound' /\ MeasurementsSound'
  BY DEF Isolation, FixturesSound, MeasurementsSound
<1> QED BY <1>1, <1>2 DEF Isolation

LEMMA ConcludeStep ==
    ASSUME Isolation, NEW failed, NEW checkCount, NEW diagnosticCount, Conclude(failed, checkCount, diagnosticCount)
    PROVE  Isolation'
<1>1. phase = "test" /\ UNCHANGED harness
  BY DEF Conclude, Runs
<1>2. CASE Contradicts(failed)
  <2>1. Leave("failed")
    BY <1>2 DEF Conclude
  <2> QED BY <1>1, <2>1, LeaveStep
<1>3. CASE ~Contradicts(failed)
  <2>1. UNCHANGED <<phase, case, scopes, iterationPrinter, benchmarkResult, expectedFailure>>
    BY <1>3 DEF Conclude
  <2>2. UNCHANGED <<scenario, fixtures, measurements>>
    BY <1>1 DEF harness
  <2> QED BY <2>1, <2>2, BlocksAlone
<1> QED BY <1>2, <1>3

LEMMA MacroStep ==
    ASSUME Isolation, Macro
    PROVE  Isolation'
<1>1. CASE \E failed \in BOOLEAN : Verify(failed) \/ FailIf(failed)
  BY <1>1, ConcludeStep DEF Verify, FailIf
<1>2. CASE \E failed, diagnostic \in BOOLEAN : CompareWith(failed, diagnostic)
  <2>1. PICK failed, diagnostic : CompareWith(failed, diagnostic)
    BY <1>2
  <2>2. \E n : Conclude(failed, 1, n)
    BY <2>1 DEF CompareWith
  <2> QED BY <2>2, ConcludeStep
<1>3. CASE Skip
  <2>1. phase = "test" /\ UNCHANGED harness /\ Leave("skipped")
    BY <1>3 DEF Skip, Runs
  <2> QED BY <2>1, LeaveStep
<1>4. CASE \E condition \in BOOLEAN : ExpectFail(condition)
  <2>1. PICK condition \in BOOLEAN : ExpectFail(condition)
    BY <1>4
  <2>2. PICK enabled \in BOOLEAN : enabled = (condition /\ ~options.noXfail)
    OBVIOUS
  <2>3. /\ Open("expectedFailure", enabled, 0)
        /\ expectedFailure' = IF enabled THEN Len(scopes) + 1 ELSE expectedFailure
        /\ UNCHANGED <<scenario, fixtures, measurements, phase, case, benchmarkResult, iterationPrinter>>
    BY <2>1, <2>2 DEF ExpectFail
  <2> QED BY <2>3, OpenStep
<1>5. CASE Iteration
  <2>1. /\ Open("iteration", TRUE, iterationPrinter) /\ iterationPrinter' = Len(scopes) + 1
        /\ UNCHANGED <<harness, phase, case, benchmarkResult, expectedFailure>>
    BY <1>5 DEF Iteration
  <2>2. iterationPrinter \in Nat
    BY LenProperties DEF Isolation, Shape, BlocksSound, IsInnermost
  <2> QED BY <2>1, <2>2, OpenStep
<1>6. CASE Benchmark
  <2>1. /\ Open("benchmark", TRUE, 0)
        /\ UNCHANGED <<harness, phase, case, benchmarkResult, expectedFailure, iterationPrinter>>
    BY <1>6 DEF Benchmark
  <2> QED BY <2>1, OpenStep
<1> QED BY <1>1, <1>2, <1>3, <1>4, <1>5, <1>6 DEF Macro

LEMMA NextKeepsIsolation ==
    ASSUME Isolation, Next
    PROVE  Isolation'
<1>1. CASE RefuseOptions \/ NothingToTest \/ Prepare \/ Judge \/ WrapUp
  <2>1. /\ phase \in {"configure", "next", "result"} /\ phase' \in {"configure", "next", "done"}
        /\ UNCHANGED <<scopes, iterationPrinter, expectedFailure, case, fixtures, measurements>>
    BY <1>1 DEF RefuseOptions, NothingToTest, Prepare, Judge, WrapUp, Exit, body
  <2> QED BY <2>1, BetweenStep
<1>2. CASE Throw \/ Return
  <2>1. phase = "test" /\ UNCHANGED harness /\ \E how : Leave(how)
    BY <1>2 DEF Throw, Return, Runs
  <2> QED BY <2>1, LeaveStep
<1>3. CASE Terminate
  <2>1. phase = "test" /\ phase' = "terminated"
        /\ UNCHANGED <<scopes, iterationPrinter, expectedFailure, benchmarkResult, case, fixtures, measurements>>
    BY <1>3 DEF Terminate, Runs, body, harness
  <2>2. Shape' /\ BlocksSound' /\ NothingLeft'
    BY <2>1 DEF Isolation, Shape, Phases, BlocksSound, IsInnermost, NothingLeft
  <2>3. FixturesSound' /\ MeasurementsSound'
    BY <2>1 DEF Isolation, FixturesSound, MeasurementsSound
  <2> QED BY <2>2, <2>3 DEF Isolation
<1> QED BY <1>1, <1>2, <1>3, StartCaseStep, SetupStep, MacroStep, EndScopeStep, TearDownStep DEF Next

LEMMA StartsIsolated ==
    ASSUME ProgramInit
    PROVE  Isolation
<1>1. /\ phase = "configure" /\ scopes = <<>> /\ expectedFailure = 0 /\ iterationPrinter = 0
      /\ case = [id |-> 0, repeat |-> 0, aborted |-> FALSE, skipped |-> FALSE]
      /\ measurements = <<>> /\ fixtures = 0
  BY DEF ProgramInit, StartsWith
<1>2. Shape
  BY <1>1, EmptySeq DEF Shape, Phases
<1> QED BY <1>1, <1>2, NoBlocks DEF Isolation, NothingLeft, FixturesSound, MeasurementsSound

LEMMA ProgramKeepsIsolation ==
    ASSUME Isolation, [ProgramNext]_programVars
    PROVE  Isolation'
<1>1. CASE UNCHANGED vars
  BY <1>1, BlocksAlone DEF vars, harness, body
<1>2. CASE ParseExits \/ ReadOptions
  <2>1. /\ phase = "configure" /\ phase' \in {"configure", "done"}
        /\ UNCHANGED <<scopes, iterationPrinter, expectedFailure, case, fixtures, measurements>>
    BY <1>2 DEF ParseExits, ReadOptions, AtExec, Exit, body
  <2> QED BY <2>1, BetweenStep
<1>3. CASE RunTests
  BY <1>3, NextKeepsIsolation DEF RunTests
<1> QED BY <1>1, <1>2, <1>3 DEF ProgramNext, programVars

LEMMA IsolationMeans ==
    ASSUME Isolation
    PROVE  RepeatsIsolated
<1>1. \A k \in DOMAIN measurements : measurements[k] \in {0, k}
  BY DEF Isolation, MeasurementsSound
<1>2. phase # "test" /\ phase # "terminated" => expectedFailure = 0 /\ iterationPrinter = 0 /\ scopes = <<>>
  BY DEF Isolation, NothingLeft
<1>3. expectedFailure # 0 =>
        /\ expectedFailure <= Len(scopes)
        /\ scopes[expectedFailure].kind = "expectedFailure"
        /\ scopes[expectedFailure].enabled
  BY DEF Isolation, BlocksSound
<1>4. iterationPrinter = Max({0} \cup {k \in DOMAIN scopes : scopes[k].kind = "iteration"})
  <2> DEFINE S == {0} \cup {k \in DOMAIN scopes : scopes[k].kind = "iteration"}
  <2>1. DOMAIN scopes = 1 .. Len(scopes) /\ Len(scopes) \in Nat /\ IsInnermost(scopes, iterationPrinter, Len(scopes))
    BY LenProperties DEF Isolation, Shape, BlocksSound
  <2>2. S \subseteq Nat /\ iterationPrinter \in S /\ \A k \in S : iterationPrinter >= k
    BY <2>1 DEF IsInnermost
  <2>3. \A w \in S : (\A k \in S : w >= k) => w = iterationPrinter
    BY <2>2
  <2>4. Max(S) = iterationPrinter
    <3> HIDE DEF S
    <3> QED BY <2>2, <2>3 DEF Max
  <2> QED BY <2>4
<1> QED BY <1>1, <1>2, <1>3, <1>4 DEF RepeatsIsolated, Isolation, FixturesSound

(***************************************************************************)
(* Every setup is followed by its teardown, and no block and no            *)
(* measurement of a repeat is left to the next, whatever the options are   *)
(* and however the functions end (exec(), ~ExpectedFailure(),              *)
(* ~IterationPrinter()).                                                   *)
(***************************************************************************)
THEOREM RepeatsAlwaysIsolated == ProgramSpec => []RepeatsIsolated
<1>1. ProgramInit => Isolation
  BY StartsIsolated
<1>2. Isolation /\ [ProgramNext]_programVars => Isolation'
  BY ProgramKeepsIsolation
<1>3. Isolation => RepeatsIsolated
  BY IsolationMeans
<1> QED BY <1>1, <1>2, <1>3, PTL DEF ProgramSpec
-----------------------------------------------------------------------------
(***************************************************************************)
(* Counts.                                                                 *)
(***************************************************************************)

Recorded ==
    /\ \E S : log \in Seq(S)
    /\ checks \in Seq(BOOLEAN)
    /\ counts = [error |-> counts.error, noCheck |-> counts.noCheck,
                 check |-> counts.check, diagnostic |-> counts.diagnostic]
    /\ counts.error \in Nat /\ counts.noCheck \in Nat

\* The last repeat is the one that checked is about.
ChecksCurrent ==
    /\ phase \in {"test", "teardown"} => checks # <<>>
    /\ phase \in {"test", "teardown", "result"} /\ checks # <<>> => (checked <=> checks[Len(checks)])

\* The one block that expects a failure is the one exec() knows of.
OneExpected ==
    \A k \in 1 .. Len(scopes) : scopes[k].kind = "expectedFailure" /\ scopes[k].enabled =>
        /\ expectedFailure = k
        /\ \A j \in k + 1 .. Len(scopes) : scopes[j].kind # "expectedFailure"

\* A run is aborted and not skipped exactly when something went against it.
Blamed ==
    /\ phase \in {"setup", "test"} => ~surprised /\ ~case.aborted /\ ~case.skipped
    /\ phase \in {"teardown", "result"} =>
            /\ surprised <=> case.aborted /\ ~case.skipped
            /\ case.skipped => case.aborted

\* The run that is not in the log yet.
Pending == IF phase \in {"teardown", "result"} /\ surprised THEN 1 ELSE 0

Tallied ==
    /\ counts.error = Cardinality(RunsThat("failed")) + Pending
    /\ Cardinality(Unchecked) <= counts.noCheck
    /\ counts.noCheck <= Cardinality(PartlyUnchecked)

Accounts == Isolation /\ Recorded /\ ChecksCurrent /\ (~overlapped => OneExpected /\ Blamed /\ Tallied)

LEMMA AppendToAny ==
    ASSUME NEW s, \E S : s \in Seq(S), NEW e
    PROVE  /\ \E S : Append(s, e) \in Seq(S)
           /\ Len(s) \in Nat /\ Len(Append(s, e)) = Len(s) + 1
           /\ DOMAIN s = 1 .. Len(s) /\ DOMAIN Append(s, e) = 1 .. Len(s) + 1
           /\ \A w \in 1 .. Len(s) : Append(s, e)[w] = s[w]
           /\ Append(s, e)[Len(s) + 1] = e
<1>1. PICK S : s \in Seq(S)
  OBVIOUS
<1> DEFINE T == S \cup {e}
<1>2. s \in Seq(T) /\ e \in T
  <2>1. Len(s) \in Nat /\ \A w \in 1 .. Len(s) : s[w] \in S
    BY <1>1, ElementOfSeq, LenProperties
  <2> QED BY <1>1, SeqDef
<1> HIDE DEF T
<1>3. /\ Append(s, e) \in Seq(T) /\ Len(Append(s, e)) = Len(s) + 1
      /\ \A w \in 1 .. Len(s) : Append(s, e)[w] = s[w]
      /\ Append(s, e)[Len(s) + 1] = e
  BY <1>2, AppendProperties
<1> QED BY <1>2, <1>3, LenProperties

\* One more member, or none.
LEMMA CountOneMore ==
    ASSUME NEW n \in Nat, NEW S, S \subseteq 1 .. n
    PROVE  /\ Cardinality(S) \in Nat
           /\ Cardinality(S \cup {n + 1}) = Cardinality(S) + 1
           /\ \A T \in {S, S \cup {n + 1}} : Cardinality(T) \in Cardinality(S) .. Cardinality(S) + 1
<1>1. IsFiniteSet(1 .. n)
  BY FS_Interval
<1>2. IsFiniteSet(S)
  BY <1>1, FS_Subset
<1>3. n + 1 \notin S
  OBVIOUS
<1>4. Cardinality(S) \in Nat /\ Cardinality(S \cup {n + 1}) = Cardinality(S) + 1
  BY <1>2, <1>3, FS_CardinalityType, FS_AddElement
<1>5. \A T \in {S, S \cup {n + 1}} : Cardinality(T) \in {Cardinality(S), Cardinality(S) + 1}
  BY <1>4
<1> QED BY <1>4, <1>5

LEMMA CountNone ==
    ASSUME NEW n \in Nat, NEW S, S \subseteq 1 .. n
    PROVE  Cardinality(S) \in Nat /\ (Cardinality(S) = 0 <=> S = {})
<1>1. IsFiniteSet(1 .. n)
  BY FS_Interval
<1>2. IsFiniteSet(S)
  BY <1>1, FS_Subset
<1> QED BY <1>2, FS_CardinalityType, FS_EmptySet

\* What Leave() makes of a run.
LEMMA LeftBehind ==
    ASSUME Isolation, NEW how, Leave(how)
    PROVE  /\ phase' = "teardown" /\ scopes' = <<>>
           /\ case'.aborted <=> how # "returned"
           /\ case'.skipped <=> how = "skipped"
<1>1. PICK a, s : a = (how # "returned") /\ s = (how = "skipped")
  OBVIOUS
<1>2. case' = [case EXCEPT !.aborted = a, !.skipped = s]
  BY <1>1 DEF Leave
<1>3. case' = [id |-> case.id, repeat |-> case.repeat, aborted |-> a, skipped |-> s]
  BY <1>2 DEF Isolation, Shape
<1>4. phase' = "teardown" /\ scopes' = <<>>
  BY DEF Leave, Unwind
<1>5. (case'.aborted <=> how # "returned") /\ (case'.skipped <=> how = "skipped")
  BY <1>1, <1>3
<1> QED BY <1>4, <1>5

LEMMA LogAlone ==
    ASSUME UNCHANGED log
    PROVE  UNCHANGED <<RunsThat("failed"), Unchecked, PartlyUnchecked>>
BY DEF RunsThat, Unchecked, PartlyUnchecked

\* exec() knows of an expected failure exactly when one is in force.
LEMMA KnowsExpected ==
    ASSUME Isolation, OneExpected
    PROVE  Expected <=> expectedFailure # 0
<1>1. DOMAIN scopes = 1 .. Len(scopes)
  BY LenProperties DEF Isolation, Shape
<1>2. ASSUME expectedFailure # 0 PROVE Expected
  BY <1>1, <1>2 DEF Isolation, BlocksSound, Expected
<1>3. ASSUME Expected PROVE expectedFailure # 0
  BY <1>1, <1>3 DEF OneExpected, Expected
<1> QED BY <1>2, <1>3

LEMMA FailedRunsCounted ==
    ASSUME Recorded
    PROVE  Cardinality(RunsThat("failed")) \in Nat
<1>1. DOMAIN log = 1 .. Len(log) /\ Len(log) \in Nat
  BY AppendToAny DEF Recorded
<1> QED BY <1>1, CountOneMore DEF RunsThat

\* A step inside a test function that leaves the log alone and ends no run.
LEMMA InsideStep ==
    ASSUME Accounts, Isolation', phase = "test", UNCHANGED <<log, phase, case>>,
           counts' = [error |-> counts.error, noCheck |-> counts.noCheck, check |-> counts'.check,
                      diagnostic |-> counts'.diagnostic],
           checks' \in Seq(BOOLEAN), checks' # <<>> /\ (checked' <=> checks'[Len(checks')]),
           ~overlapped' => ~overlapped /\ OneExpected' /\ ~surprised'
    PROVE  Accounts'
<1>1. Recorded' /\ ChecksCurrent'
  BY DEF Accounts, Recorded, ChecksCurrent
<1>2. ASSUME ~overlapped' PROVE OneExpected' /\ Blamed' /\ Tallied'
  <2>1. OneExpected /\ Blamed /\ Tallied /\ ~surprised' /\ ~surprised
    BY <1>2 DEF Accounts, Blamed
  <2>2. Blamed'
    BY <2>1 DEF Blamed
  <2>3. Tallied'
    BY <2>1, LogAlone DEF Tallied, Pending
  <2> QED BY <1>2, <2>2, <2>3
<1> QED BY <1>1, <1>2 DEF Accounts

\* A step that ends the run of a function.
LEMMA OutOfFunctionStep ==
    ASSUME Accounts, Isolation', phase = "test", UNCHANGED harness, NEW how, Leave(how),
           checks' \in Seq(BOOLEAN), checks' # <<>> /\ (checked' <=> checks'[Len(checks')]),
           ~overlapped => (surprised' <=> how # "returned" /\ how # "skipped"),
           NEW errors \in Nat, counts' = [error |-> errors, noCheck |-> counts.noCheck, check |-> counts'.check,
                                          diagnostic |-> counts'.diagnostic],
           ~overlapped => errors = counts.error + IF surprised' THEN 1 ELSE 0
    PROVE  Accounts'
<1>1. /\ phase' = "teardown" /\ scopes' = <<>>
      /\ case'.aborted <=> how # "returned"
      /\ case'.skipped <=> how = "skipped"
  BY LeftBehind DEF Accounts
<1>2. counts'.error = errors /\ counts'.noCheck = counts.noCheck /\ UNCHANGED <<log, overlapped>>
  BY DEF harness
<1>3. Recorded' /\ ChecksCurrent'
  BY <1>2 DEF Accounts, Recorded, ChecksCurrent
<1>4. ASSUME ~overlapped' PROVE OneExpected' /\ Blamed' /\ Tallied'
  <2>1. Tallied /\ ~overlapped
    BY <1>2, <1>4 DEF Accounts
  <2>2. OneExpected' /\ Blamed'
    BY <1>1, <2>1 DEF OneExpected, Blamed
  <2>3. Pending = 0 /\ Pending' = IF surprised' THEN 1 ELSE 0
    BY <1>1 DEF Pending
  <2>4. UNCHANGED <<RunsThat("failed"), Unchecked, PartlyUnchecked>>
    BY <1>2, LogAlone
  <2>5. errors = counts.error + Pending' /\ counts.error \in Nat
    BY <2>1, <2>3 DEF Accounts, Recorded
  <2>6. counts.error = Cardinality(RunsThat("failed"))
    BY <2>1, <2>3, FailedRunsCounted DEF Tallied, Accounts
  <2>7. Tallied'
    BY <1>2, <2>1, <2>4, <2>5, <2>6 DEF Tallied
  <2> QED BY <2>2, <2>7
<1> QED BY <1>3, <1>4 DEF Accounts

\* A check or a benchmark is made.
LEMMA MarkLast ==
    ASSUME checks \in Seq(BOOLEAN), checks # <<>>, checked' = TRUE,
           checks' = [checks EXCEPT ![Len(checks)] = TRUE]
    PROVE  checks' \in Seq(BOOLEAN) /\ checks' # <<>> /\ (checked' <=> checks'[Len(checks')])
<1>1. Len(checks) \in 1 .. Len(checks)
  BY EmptySeq, LenProperties
<1>2. checks' \in Seq(BOOLEAN) /\ Len(checks') = Len(checks) /\ checks'[Len(checks)] = TRUE
  BY <1>1, ExceptSeq
<1> QED BY <1>1, <1>2, EmptySeq

LEMMA ConcludeAccounts ==
    ASSUME Accounts, NEW failed \in BOOLEAN, NEW checkCount, NEW diagnosticCount, Conclude(failed, checkCount, diagnosticCount)
    PROVE  Accounts'
<1>1. /\ phase = "test" /\ checked' = TRUE
      /\ checks' = [checks EXCEPT ![Len(checks)] = TRUE]
      /\ surprised' = (surprised \/ Expected # failed)
      /\ UNCHANGED harness
  BY DEF Conclude, Runs
<1>2. Isolation'
  BY ConcludeStep DEF Accounts
<1>3. checks' \in Seq(BOOLEAN) /\ checks' # <<>> /\ (checked' <=> checks'[Len(checks')])
  <2>1. checks \in Seq(BOOLEAN) /\ checks # <<>>
    BY <1>1 DEF Accounts, Recorded, ChecksCurrent
  <2> QED BY <1>1, <2>1, MarkLast
<1>4. ~overlapped => (surprised' <=> Contradicts(failed))
  <2>1. ASSUME ~overlapped PROVE ~surprised /\ (Expected <=> expectedFailure # 0)
    BY <1>1, <2>1, KnowsExpected DEF Accounts, Blamed
  <2>2. CASE failed = TRUE
    <3>1. (Contradicts(failed) <=> expectedFailure = 0) /\ ((Expected # failed) <=> ~Expected)
      BY <2>2 DEF Contradicts
    <3> QED BY <1>1, <2>1, <3>1
  <2>3. CASE failed = FALSE
    <3>1. Contradicts(failed) <=> expectedFailure # 0
      BY <2>3 DEF Contradicts
    <3>2. Expected \in BOOLEAN
      BY DEF Expected
    <3>3. (Expected # failed) <=> Expected
      BY <2>3, <3>2
    <3> QED BY <1>1, <2>1, <3>1, <3>3
  <2> QED BY <2>2, <2>3
<1>5. CASE Contradicts(failed)
  <2>1. Leave("failed")
    BY <1>5 DEF Conclude
  <2>2. counts' = [counts EXCEPT !.check = @ + checkCount, !.diagnostic = @ + diagnosticCount, !.error = @ + 1]
    BY <1>5 DEF Conclude, CountError
  <2>3. counts' = [error |-> counts.error + 1, noCheck |-> counts.noCheck,
                   check |-> counts'.check, diagnostic |-> counts'.diagnostic]
    BY <2>2 DEF Accounts, Recorded
  <2>4. counts.error + 1 \in Nat
    BY DEF Accounts, Recorded
  <2> QED BY <1>1, <1>2, <1>3, <1>4, <1>5, <2>1, <2>3, <2>4, OutOfFunctionStep
<1>6. CASE ~Contradicts(failed)
  <2>1. UNCHANGED <<phase, case, scopes, expectedFailure>>
    BY <1>6 DEF Conclude
  <2>2. counts' = [counts EXCEPT !.check = @ + checkCount, !.diagnostic = @ + diagnosticCount, !.error = @ + 0]
    BY <1>6 DEF Conclude, CountError
  <2>3. counts' = [error |-> counts.error, noCheck |-> counts.noCheck,
                   check |-> counts'.check, diagnostic |-> counts'.diagnostic]
    <3>1. counts' = [error |-> counts.error + 0, noCheck |-> counts.noCheck,
                     check |-> counts'.check, diagnostic |-> counts'.diagnostic]
      BY <2>2 DEF Accounts, Recorded
    <3>2. counts.error + 0 = counts.error
      BY DEF Accounts, Recorded
    <3> QED BY <3>1, <3>2
  <2>4. OneExpected => OneExpected'
    BY <2>1 DEF OneExpected
  <2>5. UNCHANGED <<log, overlapped>>
    BY <1>1 DEF harness
  <2>6. ~overlapped' => ~overlapped /\ OneExpected' /\ ~surprised'
    BY <1>4, <1>6, <2>4, <2>5 DEF Accounts
  <2> QED BY <1>1, <1>2, <1>3, <2>1, <2>3, <2>5, <2>6, InsideStep
<1> QED BY <1>5, <1>6

LEMMA FunctionEnds ==
    ASSUME Accounts, Isolation', phase = "test", UNCHANGED <<harness, checked, checks>>,
           NEW how \in {"returned", "skipped"}, Leave(how), UNCHANGED <<surprised, counts>>
    PROVE  Accounts'
<1>1. checks \in Seq(BOOLEAN) /\ checks # <<>> /\ (checked <=> checks[Len(checks)])
  BY DEF Accounts, Recorded, ChecksCurrent
<1>2. ~overlapped => ~surprised'
  BY DEF Accounts, Blamed
<1>3. /\ counts' = [error |-> counts.error, noCheck |-> counts.noCheck, check |-> counts'.check,
                    diagnostic |-> counts'.diagnostic]
      /\ counts.error \in Nat
  BY DEF Accounts, Recorded
<1>4. ~overlapped => counts.error = counts.error + IF surprised' THEN 1 ELSE 0
  BY <1>2, <1>3
<1>5. checks' \in Seq(BOOLEAN) /\ checks' # <<>> /\ (checked' <=> checks'[Len(checks')])
  BY <1>1
<1>6. ~overlapped => (surprised' <=> how # "returned" /\ how # "skipped")
  BY <1>2
<1> QED BY <1>3, <1>4, <1>5, <1>6, OutOfFunctionStep

LEMMA ThrowAccounts ==
    ASSUME Accounts, Isolation', Throw
    PROVE  Accounts'
<1>1. /\ phase = "test" /\ Leave("threw") /\ surprised' = TRUE
      /\ UNCHANGED <<harness, checked, checks>>
  BY DEF Throw, Runs
<1>2. checks \in Seq(BOOLEAN) /\ checks # <<>> /\ (checked <=> checks[Len(checks)])
  BY <1>1 DEF Accounts, Recorded, ChecksCurrent
<1>3. counts' = [counts EXCEPT !.error = @ + 1]
  BY DEF Throw, CountError
<1>4. /\ counts' = [error |-> counts.error + 1, noCheck |-> counts.noCheck, check |-> counts'.check,
                    diagnostic |-> counts'.diagnostic]
      /\ counts.error + 1 \in Nat
  BY <1>3 DEF Accounts, Recorded
<1>5. checks' \in Seq(BOOLEAN) /\ checks' # <<>> /\ (checked' <=> checks'[Len(checks')])
  BY <1>1, <1>2
<1> QED BY <1>1, <1>4, <1>5, OutOfFunctionStep

\* One more block is open.
LEMMA OpenAccounts ==
    ASSUME Accounts, Isolation', NEW kind, NEW enabled \in BOOLEAN, NEW parent, Open(kind, enabled, parent),
           UNCHANGED <<log, phase, case, counts, surprised>>,
           checks' \in Seq(BOOLEAN), checks' # <<>>, checked' <=> checks'[Len(checks')],
           \/ kind # "expectedFailure" /\ UNCHANGED <<expectedFailure, overlapped>>
           \/ /\ kind = "expectedFailure"
              /\ expectedFailure' = IF enabled THEN Len(scopes) + 1 ELSE expectedFailure
              /\ overlapped' = (overlapped \/ Expected)
    PROVE  Accounts'
<1> DEFINE s == [kind |-> kind, enabled |-> enabled, parent |-> parent]
<1>1. phase = "test" /\ scopes' = Append(scopes, s) /\ s.kind = kind /\ s.enabled = enabled
  BY DEF Open, Runs
<1> HIDE DEF s
<1>2. /\ Len(scopes) \in Nat /\ Len(scopes') = Len(scopes) + 1
      /\ \A k \in 1 .. Len(scopes) : scopes'[k] = scopes[k]
      /\ scopes'[Len(scopes) + 1] = s
  BY <1>1, AppendToAny DEF Accounts, Isolation, Shape
<1>3. ~overlapped' => ~overlapped /\ (kind = "expectedFailure" => ~Expected)
  OBVIOUS
<1>4. ASSUME ~overlapped' PROVE ~overlapped /\ OneExpected' /\ ~surprised'
  <2>1. ~overlapped /\ OneExpected /\ ~surprised
    BY <1>1, <1>3, <1>4 DEF Accounts, Blamed
  <2>2. CASE kind # "expectedFailure"
    BY <1>1, <1>2, <2>1, <2>2 DEF OneExpected
  <2>3. CASE kind = "expectedFailure"
    <3>1. expectedFailure' = IF enabled THEN Len(scopes) + 1 ELSE expectedFailure
      BY <2>3
    <3>2. \A k \in 1 .. Len(scopes) : ~(scopes[k].kind = "expectedFailure" /\ scopes[k].enabled)
      BY <1>3, <1>4, <2>3, LenProperties DEF Expected, Accounts, Isolation, Shape
    <3>3. OneExpected'
      BY <1>1, <1>2, <3>1, <3>2 DEF OneExpected
    <3> QED BY <2>1, <3>3
  <2> QED BY <2>2, <2>3
<1>5. counts' = [error |-> counts.error, noCheck |-> counts.noCheck, check |-> counts'.check,
                 diagnostic |-> counts'.diagnostic]
  BY DEF Accounts, Recorded
<1> QED BY <1>1, <1>4, <1>5, InsideStep

LEMMA EndScopeAccounts ==
    ASSUME Accounts, Isolation', EndScope
    PROVE  Accounts'
<1>1. /\ phase = "test" /\ scopes # <<>>
      /\ scopes' = SubSeq(scopes, 1, Len(scopes) - 1)
      /\ expectedFailure' = IF scopes[Len(scopes)].kind = "expectedFailure" THEN 0 ELSE expectedFailure
      /\ UNCHANGED <<log, overlapped, phase, case, counts, checked, surprised, checks>>
  BY DEF EndScope, harness
<1>2. /\ Len(scopes) \in Nat \ {0} /\ Len(scopes') = Len(scopes) - 1
      /\ \A k \in 1 .. Len(scopes) - 1 : scopes'[k] = scopes[k]
  BY <1>1, BlockLess DEF Accounts, Isolation, Shape
<1>3. ASSUME OneExpected PROVE OneExpected'
  <2>1. \A k \in 1 .. Len(scopes) - 1 : scopes[k].kind = "expectedFailure" /\ scopes[k].enabled =>
            /\ expectedFailure = k /\ scopes[Len(scopes)].kind # "expectedFailure"
            /\ \A j \in k + 1 .. Len(scopes) - 1 : scopes[j].kind # "expectedFailure"
    BY <1>2, <1>3 DEF OneExpected
  <2> QED BY <1>1, <1>2, <2>1 DEF OneExpected
<1>4. checks \in Seq(BOOLEAN) /\ checks # <<>> /\ (checked <=> checks[Len(checks)])
  BY <1>1 DEF Accounts, Recorded, ChecksCurrent
<1>5. checks' \in Seq(BOOLEAN) /\ checks' # <<>> /\ (checked' <=> checks'[Len(checks')])
  BY <1>1, <1>4
<1>6. ~overlapped' => ~overlapped /\ OneExpected' /\ ~surprised'
  BY <1>1, <1>3 DEF Accounts, Blamed
<1>7. counts' = [error |-> counts.error, noCheck |-> counts.noCheck, check |-> counts'.check,
                 diagnostic |-> counts'.diagnostic]
  BY <1>1 DEF Accounts, Recorded
<1> QED BY <1>1, <1>5, <1>6, <1>7, InsideStep

LEMMA MacroAccounts ==
    ASSUME Accounts, Isolation', Macro
    PROVE  Accounts'
<1>1. CASE \E failed \in BOOLEAN : Verify(failed) \/ FailIf(failed)
  BY <1>1, ConcludeAccounts DEF Verify, FailIf
<1>2. CASE \E failed, diagnostic \in BOOLEAN : CompareWith(failed, diagnostic)
  <2>1. PICK failed \in BOOLEAN, diagnostic \in BOOLEAN : CompareWith(failed, diagnostic)
    BY <1>2
  <2>2. \E n : Conclude(failed, 1, n)
    BY <2>1 DEF CompareWith
  <2> QED BY <2>2, ConcludeAccounts
<1>3. CASE Skip
  <2>1. phase = "test" /\ Leave("skipped") /\ UNCHANGED <<harness, checked, checks, surprised, counts>>
    BY <1>3 DEF Skip, Runs
  <2> QED BY <2>1, FunctionEnds
<1>4. ASSUME phase = "test"
      PROVE  checks \in Seq(BOOLEAN) /\ checks # <<>> /\ (checked <=> checks[Len(checks)])
  BY <1>4 DEF Accounts, Recorded, ChecksCurrent
<1>5. CASE \E condition \in BOOLEAN : ExpectFail(condition)
  <2>1. PICK condition \in BOOLEAN : ExpectFail(condition)
    BY <1>5
  <2>2. PICK enabled \in BOOLEAN : enabled = (condition /\ ~options.noXfail)
    OBVIOUS
  <2>3. /\ Open("expectedFailure", enabled, 0)
        /\ expectedFailure' = IF enabled THEN Len(scopes) + 1 ELSE expectedFailure
        /\ overlapped' = (overlapped \/ Expected)
        /\ UNCHANGED <<log, phase, case, counts, surprised, checked, checks>>
    BY <2>1, <2>2 DEF ExpectFail
  <2>4. checks' \in Seq(BOOLEAN) /\ checks' # <<>> /\ (checked' <=> checks'[Len(checks')])
    BY <1>4, <2>3 DEF Open, Runs
  <2> QED BY <2>3, <2>4, OpenAccounts
<1>6. CASE Iteration
  <2>1. /\ Open("iteration", TRUE, iterationPrinter)
        /\ UNCHANGED <<log, phase, case, counts, surprised, checked, checks, expectedFailure, overlapped>>
    BY <1>6 DEF Iteration, harness
  <2>2. checks' \in Seq(BOOLEAN) /\ checks' # <<>> /\ (checked' <=> checks'[Len(checks')])
    BY <1>4, <2>1 DEF Open, Runs
  <2> QED BY <2>1, <2>2, OpenAccounts
<1>7. CASE Benchmark
  <2>1. /\ Open("benchmark", TRUE, 0)
        /\ checked' = TRUE /\ checks' = [checks EXCEPT ![Len(checks)] = TRUE]
        /\ UNCHANGED <<log, phase, case, counts, surprised, expectedFailure, overlapped>>
    BY <1>7 DEF Benchmark, harness
  <2>2. checks \in Seq(BOOLEAN) /\ checks # <<>>
    BY <1>4, <2>1 DEF Open, Runs
  <2>3. checks' \in Seq(BOOLEAN) /\ checks' # <<>> /\ (checked' <=> checks'[Len(checks')])
    BY <2>1, <2>2, MarkLast
  <2> QED BY <2>1, <2>3, OpenAccounts
<1> QED BY <1>1, <1>2, <1>3, <1>5, <1>6, <1>7 DEF Macro

LEMMA SetupAccounts ==
    ASSUME Accounts, Isolation', Setup
    PROVE  Accounts'
<1>1. /\ phase = "setup" /\ phase' = "test" /\ checked' = FALSE /\ checks' = Append(checks, FALSE)
      /\ scopes = <<>> /\ UNCHANGED <<log, overlapped, scopes, surprised, case, counts>>
  BY DEF Setup, Reset, Accounts, Isolation, NothingLeft
<1>2. /\ checks' \in Seq(BOOLEAN) /\ Len(checks') = Len(checks) + 1 /\ Len(checks) \in Nat
      /\ checks'[Len(checks) + 1] = FALSE
  BY <1>1, AppendProperties DEF Accounts, Recorded
<1>3. checks' # <<>> /\ (checked' <=> checks'[Len(checks')])
  <2>1. Len(checks') # 0 /\ checks'[Len(checks')] = FALSE
    BY <1>2
  <2> QED BY <1>1, <1>2, <2>1, EmptySeq
<1>4. Recorded' /\ ChecksCurrent'
  BY <1>1, <1>2, <1>3 DEF Accounts, Recorded, ChecksCurrent
<1>5. ASSUME ~overlapped' PROVE OneExpected' /\ Blamed' /\ Tallied'
  <2>1. Blamed /\ Tallied
    BY <1>1, <1>5 DEF Accounts
  <2>2. OneExpected' /\ Blamed'
    BY <1>1, <2>1 DEF OneExpected, Blamed
  <2>3. Tallied'
    BY <1>1, <2>1, LogAlone DEF Tallied, Pending
  <2> QED BY <2>2, <2>3
<1> QED BY <1>4, <1>5 DEF Accounts

LEMMA TearDownAccounts ==
    ASSUME Accounts, Isolation', TearDown
    PROVE  Accounts'
<1>1. /\ phase = "teardown" /\ phase' \in {"setup", "result"} /\ (phase' = "setup" => ~case.aborted)
      /\ case' = [case EXCEPT !.repeat = @ + 1]
      /\ scopes = <<>> /\ UNCHANGED <<log, overlapped, scopes, surprised, checked, checks, counts>>
  BY DEF TearDown, body, Accounts, Isolation, NothingLeft
<1>2. case'.aborted = case.aborted /\ case'.skipped = case.skipped
  <2>1. case' = [id |-> case.id, repeat |-> case.repeat + 1, aborted |-> case.aborted, skipped |-> case.skipped]
    BY <1>1 DEF Accounts, Isolation, Shape
  <2> QED BY <2>1
<1>3. Recorded' /\ ChecksCurrent'
  BY <1>1 DEF Accounts, Recorded, ChecksCurrent
<1>4. ASSUME ~overlapped' PROVE OneExpected' /\ Blamed' /\ Tallied'
  <2>1. Blamed /\ Tallied
    BY <1>1, <1>4 DEF Accounts
  <2>2. OneExpected' /\ Blamed'
    BY <1>1, <1>2, <2>1 DEF OneExpected, Blamed
  <2>3. Pending' = Pending
    BY <1>1, <2>1 DEF Pending, Blamed
  <2>4. Tallied'
    BY <1>1, <2>1, <2>3, LogAlone DEF Tallied
  <2> QED BY <2>2, <2>4
<1> QED BY <1>3, <1>4 DEF Accounts

LEMMA StartCaseAccounts ==
    ASSUME Accounts, Isolation', StartCase
    PROVE  Accounts'
<1>1. /\ phase = "next" /\ phase' \in {"setup", "result"} /\ surprised' = FALSE /\ checks' = <<>> /\ scopes' = <<>>
      /\ case' = [id |-> Head(queue), repeat |-> 0, aborted |-> FALSE, skipped |-> FALSE]
      /\ UNCHANGED <<log, overlapped, counts>>
  BY DEF StartCase, Accounts, Isolation, NothingLeft
<1>2. Recorded' /\ ChecksCurrent'
  BY <1>1, EmptySeq DEF Accounts, Recorded, ChecksCurrent
<1>3. ASSUME ~overlapped' PROVE OneExpected' /\ Blamed' /\ Tallied'
  <2>1. OneExpected' /\ Blamed'
    BY <1>1 DEF OneExpected, Blamed
  <2>2. Tallied'
    BY <1>1, <1>3, LogAlone DEF Accounts, Tallied, Pending
  <2> QED BY <2>1, <2>2
<1> QED BY <1>2, <1>3 DEF Accounts

\* What moves exec() on before the first test case or after the last.
LEMMA AroundStep ==
    ASSUME Accounts, Isolation', phase \notin {"setup", "test", "teardown", "result"},
           phase' \notin {"setup", "test", "teardown", "result"},
           UNCHANGED <<log, overlapped, body, case, counts>>
    PROVE  Accounts'
<1>1. Recorded' /\ ChecksCurrent'
  BY DEF Accounts, Recorded, ChecksCurrent, body
<1>2. ASSUME ~overlapped' PROVE OneExpected' /\ Blamed' /\ Tallied'
  <2>1. OneExpected /\ Tallied
    BY <1>2 DEF Accounts
  <2>2. OneExpected' /\ Blamed'
    BY <2>1 DEF OneExpected, Blamed, body
  <2>3. Tallied'
    BY <2>1, LogAlone DEF Tallied, Pending
  <2> QED BY <2>2, <2>3
<1> QED BY <1>1, <1>2 DEF Accounts

WithoutChecks(run) == run.checks # <<>> /\ \A w \in DOMAIN run.checks : ~run.checks[w]
PartlyWithoutChecks(run) == run.checks # <<>> => \E w \in DOMAIN run.checks : ~run.checks[w]

\* One more run is told in the log.
LEMMA LogGrows ==
    ASSUME Recorded, NEW run, log' = Append(log, run)
    PROVE  /\ \E S : log' \in Seq(S)
           /\ \A v : RunsThat(v)' = RunsThat(v) \cup IF run.verdict = v THEN {Len(log) + 1} ELSE {}
           /\ Unchecked' = Unchecked \cup IF run.verdict = "passed" /\ WithoutChecks(run)
                                          THEN {Len(log) + 1} ELSE {}
           /\ PartlyUnchecked' = PartlyUnchecked \cup
                    IF run.verdict = "passed" /\ PartlyWithoutChecks(run)
                    THEN {Len(log) + 1} ELSE {}
<1>1. /\ \E S : log' \in Seq(S)
      /\ Len(log) \in Nat /\ DOMAIN log = 1 .. Len(log) /\ DOMAIN log' = 1 .. Len(log) + 1
      /\ \A k \in 1 .. Len(log) : log'[k] = log[k]
      /\ log'[Len(log) + 1] = run
  <2>1. \E S : log \in Seq(S)
    BY DEF Recorded
  <2>2. \E S : Append(log, run) \in Seq(S)
    BY <2>1, AppendToAny, Zenon
  <2>3. Len(log) \in Nat /\ DOMAIN log = 1 .. Len(log)
    BY <2>1, AppendToAny, Zenon
  <2>4. DOMAIN Append(log, run) = 1 .. Len(log) + 1
    BY <2>1, AppendToAny, Zenon
  <2>5. \A k \in 1 .. Len(log) : Append(log, run)[k] = log[k]
    <3>1. PICK S : log \in Seq(S)
      BY <2>1
    <3> QED BY <2>3, <3>1, SMT
  <2>6. Append(log, run)[Len(log) + 1] = run
    BY <2>1, AppendToAny, Zenon
  <2> QED BY <2>2, <2>3, <2>4, <2>5, <2>6
<1>2. \A v : RunsThat(v)' = RunsThat(v) \cup IF run.verdict = v THEN {Len(log) + 1} ELSE {}
  BY <1>1 DEF RunsThat
<1>3. RunsThat("passed") \subseteq 1 .. Len(log)
  BY <1>1 DEF RunsThat
<1>4. RunsThat("passed")' = RunsThat("passed") \cup IF run.verdict = "passed" THEN {Len(log) + 1} ELSE {}
  BY <1>2
<1>5. Unchecked' = Unchecked \cup IF run.verdict = "passed" /\ WithoutChecks(run)
                                  THEN {Len(log) + 1} ELSE {}
  BY <1>1, <1>3, <1>4 DEF Unchecked, WithoutChecks
<1>6. PartlyUnchecked' = PartlyUnchecked \cup
                    IF run.verdict = "passed" /\ PartlyWithoutChecks(run)
                    THEN {Len(log) + 1} ELSE {}
  BY <1>1, <1>3, <1>4 DEF PartlyUnchecked, PartlyWithoutChecks
<1> QED BY <1>1, <1>2, <1>5, <1>6

LEMMA JudgeAccounts ==
    ASSUME Accounts, Isolation', Judge
    PROVE  Accounts'
<1> DEFINE run == Verdict
           more == IF HasNoCheck THEN 1 ELSE 0
<1>1. /\ phase = "result" /\ phase' = "next" /\ log' = Append(log, run)
      /\ counts' = [counts EXCEPT !.noCheck = @ + more]
      /\ scopes = <<>> /\ scopes' = <<>> /\ UNCHANGED <<overlapped, checks>>
  BY DEF Judge, body, Accounts, Isolation, NothingLeft
<1>2. counts' = [error |-> counts.error, noCheck |-> counts.noCheck + more, check |-> counts.check,
                 diagnostic |-> counts.diagnostic]
  BY <1>1 DEF Accounts, Recorded
<1>3. more \in {0, 1}
  OBVIOUS
<1>4. /\ counts'.error = counts.error /\ counts'.noCheck = counts.noCheck + more
      /\ counts.error \in Nat /\ counts.noCheck \in Nat /\ counts.noCheck + more \in Nat
  BY <1>2, <1>3 DEF Accounts, Recorded
<1>5. /\ \E S : log' \in Seq(S)
      /\ RunsThat("failed")' = RunsThat("failed") \cup IF run.verdict = "failed" THEN {Len(log) + 1} ELSE {}
      /\ Unchecked' = Unchecked \cup IF run.verdict = "passed" /\ WithoutChecks(run)
                                     THEN {Len(log) + 1} ELSE {}
      /\ PartlyUnchecked' = PartlyUnchecked \cup
                    IF run.verdict = "passed" /\ PartlyWithoutChecks(run)
                    THEN {Len(log) + 1} ELSE {}
  BY <1>1, LogGrows DEF Accounts
<1>6. Recorded' /\ ChecksCurrent'
  BY <1>1, <1>2, <1>4, <1>5 DEF Accounts, Recorded, ChecksCurrent
<1>7. ASSUME ~overlapped' PROVE OneExpected' /\ Blamed' /\ Tallied'
  <2>1. Blamed /\ Tallied
    BY <1>1, <1>7 DEF Accounts
  <2>2. OneExpected' /\ Blamed'
    BY <1>1 DEF OneExpected, Blamed
  <2>3. /\ run.verdict = CASE surprised -> "failed" [] ~surprised /\ case.skipped -> "skipped" [] OTHER -> "passed"
        /\ run.checks = checks
    BY DEF Verdict
  <2>4. (run.verdict = "failed" <=> surprised) /\ (run.verdict = "passed" <=> ~case.aborted)
    BY <1>1, <2>1, <2>3 DEF Blamed
  <2>5. checks # <<>> => (checked <=> checks[Len(checks)]) /\ Len(checks) \in DOMAIN checks
    BY <1>1, EmptySeq, LenProperties DEF Accounts, ChecksCurrent, Recorded
  <2>6. /\ Len(log) \in Nat /\ RunsThat("failed") \subseteq 1 .. Len(log)
        /\ Unchecked \subseteq 1 .. Len(log) /\ PartlyUnchecked \subseteq 1 .. Len(log)
    BY AppendToAny DEF Accounts, Recorded, RunsThat, Unchecked, PartlyUnchecked
  <2>7. \A S \in {RunsThat("failed"), Unchecked, PartlyUnchecked} :
            /\ Cardinality(S) \in Nat /\ Cardinality(S \cup {Len(log) + 1}) = Cardinality(S) + 1
            /\ \A T \in {S, S \cup {Len(log) + 1}} : Cardinality(T) \in Cardinality(S) .. Cardinality(S) + 1
    BY <2>6, CountOneMore
  <2>8. counts'.error = Cardinality(RunsThat("failed")') + Pending'
    <3>1. Pending' = 0 /\ Pending = IF surprised THEN 1 ELSE 0
      BY <1>1 DEF Pending
    <3>2. ASSUME surprised PROVE Cardinality(RunsThat("failed")') = Cardinality(RunsThat("failed")) + 1
      <4>1. RunsThat("failed")' = RunsThat("failed") \cup {Len(log) + 1}
        BY <1>5, <2>4, <3>2
      <4> QED BY <2>7, <4>1
    <3>3. ASSUME ~surprised PROVE RunsThat("failed")' = RunsThat("failed")
      BY <1>5, <2>4, <3>3
    <3>4. counts.error = Cardinality(RunsThat("failed")) + Pending
      BY <2>1 DEF Tallied
    <3> QED BY <1>4, <2>7, <3>1, <3>2, <3>3, <3>4
  <2>9. Cardinality(Unchecked') <= counts'.noCheck
    <3>1. CASE more = 1
      <4>1. Cardinality(Unchecked') \in Cardinality(Unchecked) .. Cardinality(Unchecked) + 1
        <5>1. PICK T : T = Unchecked'
          OBVIOUS
        <5>2. T \in {Unchecked, Unchecked \cup {Len(log) + 1}}
          BY <1>5, <5>1
        <5> QED BY <2>7, <5>1, <5>2
      <4> QED BY <1>4, <2>1, <2>7, <3>1, <4>1 DEF Tallied
    <3>2. CASE more = 0
      <4>1. case.aborted \/ checked
        BY <3>2 DEF HasNoCheck
      <4>2. ~(run.verdict = "passed" /\ WithoutChecks(run))
        BY <2>3, <2>4, <2>5, <4>1 DEF WithoutChecks
      <4>3. Unchecked' = Unchecked
        BY <1>5, <4>2
      <4> QED BY <1>4, <2>1, <3>2, <4>3 DEF Tallied
    <3> QED BY <1>3, <3>1, <3>2
  <2>10. counts'.noCheck <= Cardinality(PartlyUnchecked')
    <3>1. CASE more = 1
      <4>1. ~case.aborted /\ ~checked
        BY <3>1 DEF HasNoCheck
      <4>2. run.verdict = "passed" /\ PartlyWithoutChecks(run)
        BY <2>3, <2>4, <2>5, <4>1 DEF PartlyWithoutChecks
      <4>3. Cardinality(PartlyUnchecked') = Cardinality(PartlyUnchecked) + 1
        BY <1>5, <2>7, <4>2
      <4> QED BY <1>4, <2>1, <2>7, <3>1, <4>3 DEF Tallied
    <3>2. CASE more = 0
      <4>1. Cardinality(PartlyUnchecked') \in Cardinality(PartlyUnchecked) .. Cardinality(PartlyUnchecked) + 1
        <5>1. PICK T : T = PartlyUnchecked'
          OBVIOUS
        <5>2. T \in {PartlyUnchecked, PartlyUnchecked \cup {Len(log) + 1}}
          BY <1>5, <5>1
        <5> QED BY <2>7, <5>1, <5>2
      <4>2. counts'.noCheck = counts.noCheck /\ counts.noCheck <= Cardinality(PartlyUnchecked)
        BY <1>4, <2>1, <3>2 DEF Tallied
      <4> QED BY <1>4, <2>7, <4>1, <4>2
    <3> QED BY <1>3, <3>1, <3>2
  <2>11. Tallied'
    BY <2>8, <2>9, <2>10 DEF Tallied
  <2> QED BY <2>2, <2>11
<1> QED BY <1>6, <1>7 DEF Accounts

LEMMA NextKeepsAccounts ==
    ASSUME Accounts, Next
    PROVE  Accounts'
<1>1. Isolation'
  BY NextKeepsIsolation DEF Accounts
<1>2. CASE RefuseOptions \/ NothingToTest \/ Prepare \/ WrapUp \/ Terminate
  <2>1. CASE Terminate
    <3>1. phase = "test" /\ phase' = "terminated" /\ UNCHANGED <<log, overlapped, body, case, counts>>
      BY <2>1 DEF Terminate, Runs, harness
    <3>2. Recorded' /\ ChecksCurrent'
      BY <3>1 DEF Accounts, Recorded, ChecksCurrent, body
    <3>3. ASSUME ~overlapped' PROVE OneExpected' /\ Blamed' /\ Tallied'
      <4>1. OneExpected' /\ Blamed'
        BY <3>1, <3>3 DEF Accounts, OneExpected, Blamed, body
      <4>2. Tallied'
        BY <3>1, <3>3, LogAlone DEF Accounts, Tallied, Pending
      <4> QED BY <4>1, <4>2
    <3> QED BY <1>1, <3>2, <3>3 DEF Accounts
  <2>2. CASE RefuseOptions \/ NothingToTest \/ Prepare \/ WrapUp
    <3>1. /\ phase \in {"configure", "next"} /\ phase' \in {"next", "done"}
          /\ UNCHANGED <<log, overlapped, body, case, counts>>
      BY <2>2 DEF RefuseOptions, NothingToTest, Prepare, WrapUp, Exit
    <3> QED BY <1>1, <3>1, AroundStep
  <2> QED BY <1>2, <2>1, <2>2
<1>3. CASE Return
  <2>1. phase = "test" /\ Leave("returned") /\ UNCHANGED <<harness, checked, checks, surprised, counts>>
    BY <1>3 DEF Return
  <2> QED BY <1>1, <2>1, FunctionEnds
<1> QED BY <1>1, <1>2, <1>3, StartCaseAccounts, SetupAccounts, MacroAccounts, EndScopeAccounts, ThrowAccounts,
           TearDownAccounts, JudgeAccounts DEF Next

LEMMA StartsWithAccounts ==
    ASSUME ProgramInit
    PROVE  Accounts
<1>1. /\ phase = "configure" /\ scopes = <<>> /\ log = <<>> /\ checks = <<>>
      /\ counts = [error |-> 0, noCheck |-> 0, check |-> 0, diagnostic |-> 0]
  BY DEF ProgramInit, StartsWith
<1>2. Recorded
  BY <1>1, EmptySeq DEF Recorded
<1>3. RunsThat("failed") = {} /\ Unchecked = {} /\ PartlyUnchecked = {}
  BY <1>1 DEF RunsThat, Unchecked, PartlyUnchecked
<1>4. Tallied
  BY <1>1, <1>3, FS_EmptySet DEF Tallied, Pending
<1> QED BY <1>1, <1>2, <1>4, StartsIsolated DEF Accounts, ChecksCurrent, OneExpected, Blamed

LEMMA ProgramKeepsAccounts ==
    ASSUME Accounts, [ProgramNext]_programVars
    PROVE  Accounts'
<1>1. Isolation'
  BY ProgramKeepsIsolation DEF Accounts
<1>2. CASE UNCHANGED vars
  <2>1. UNCHANGED <<log, overlapped, scopes, expectedFailure, surprised, checked, checks, phase, case, counts>>
    BY <1>2 DEF vars, harness, body
  <2>2. Recorded' /\ ChecksCurrent'
    BY <2>1 DEF Accounts, Recorded, ChecksCurrent
  <2>3. ASSUME ~overlapped' PROVE OneExpected' /\ Blamed' /\ Tallied'
    <3>1. OneExpected' /\ Blamed'
      BY <2>1, <2>3 DEF Accounts, OneExpected, Blamed
    <3>2. Tallied'
      BY <2>1, <2>3, LogAlone DEF Accounts, Tallied, Pending
    <3> QED BY <3>1, <3>2
  <2> QED BY <1>1, <2>2, <2>3 DEF Accounts
<1>3. CASE ParseExits \/ ReadOptions
  <2>1. /\ phase = "configure" /\ phase' \in {"configure", "done"}
        /\ UNCHANGED <<log, overlapped, body, case, counts>>
    BY <1>3 DEF ParseExits, ReadOptions, AtExec, Exit
  <2> QED BY <1>1, <2>1, AroundStep
<1>4. CASE RunTests
  BY <1>4, NextKeepsAccounts DEF RunTests
<1> QED BY <1>2, <1>3, <1>4 DEF ProgramNext, programVars

(***************************************************************************)
(* As long as no expected failure is stated inside another, errors are     *)
(* counted for exactly the runs that something went against, and runs      *)
(* without checks for every run that made none and for no run that made    *)
(* one in each repeat (the macros, and the end of the repeat loop of       *)
(* exec()).                                                                *)
(***************************************************************************)
THEOREM CountsAlwaysExact == ProgramSpec => []CountsExact
<1>1. ProgramInit => Accounts
  BY StartsWithAccounts
<1>2. Accounts /\ [ProgramNext]_programVars => Accounts'
  BY ProgramKeepsAccounts
<1>3. Accounts => CountsExact
  <2>1. ASSUME Accounts, phase = "next", ~overlapped
        PROVE  /\ counts.error = Cardinality(RunsThat("failed"))
               /\ Cardinality(Unchecked) <= counts.noCheck
               /\ counts.noCheck <= Cardinality(PartlyUnchecked)
    <3>1. Tallied /\ Pending = 0 /\ Cardinality(RunsThat("failed")) \in Nat
      BY <2>1, FailedRunsCounted DEF Accounts, Pending
    <3> QED BY <3>1 DEF Tallied
  <2> QED BY <2>1 DEF CountsExact
<1> QED BY <1>1, <1>2, <1>3, PTL DEF ProgramSpec

-----------------------------------------------------------------------------
(***************************************************************************)
(* The exit code.                                                          *)
(***************************************************************************)

ExitTold ==
    /\ phase = "configure" => log = <<>>
    /\ phase = "done" /\ log # <<>> => exitCode = ExitStatus

LEMMA ProgramKeepsExit ==
    ASSUME ExitTold, [ProgramNext]_programVars
    PROVE  ExitTold'
<1>1. CASE UNCHANGED vars
  BY <1>1 DEF vars, harness, ExitTold, ExitStatus
<1>2. CASE ParseExits \/ ReadOptions \/ RefuseOptions \/ NothingToTest \/ Prepare
  <2>1. phase = "configure" /\ UNCHANGED log
    BY <1>2 DEF ParseExits, ReadOptions, AtExec, RefuseOptions, NothingToTest, Prepare, Exit
  <2> QED BY <2>1 DEF ExitTold
<1>3. CASE WrapUp
  BY <1>3 DEF WrapUp, Exit, ExitTold, ExitStatus
<1>4. CASE StartCase \/ Setup \/ Macro \/ EndScope \/ Throw \/ Terminate \/ Return \/ TearDown \/ Judge
  <2>1. phase' \notin {"configure", "done"}
    <3>1. CASE Macro
      BY <3>1 DEF Macro, Verify, FailIf, CompareWith, Conclude, Skip, ExpectFail, Iteration, Benchmark, Open, Runs, Leave
    <3>2. CASE StartCase \/ Setup \/ EndScope \/ Throw \/ Terminate \/ Return \/ TearDown \/ Judge
      BY <3>2 DEF StartCase, Setup, EndScope, Throw, Terminate, Return, TearDown, Judge, Runs, Leave
    <3> QED BY <1>4, <3>1, <3>2
  <2> QED BY <2>1 DEF ExitTold
<1> QED BY <1>1, <1>2, <1>3, <1>4 DEF ProgramNext, RunTests, Next, programVars

(***************************************************************************)
(* The program succeeds only if nothing failed and every passed run made a *)
(* check, and always if nothing failed and every repeat made one (what     *)
(* exec() returns).                                                        *)
(***************************************************************************)
THEOREM ExitCodeAlwaysExact == ProgramSpec => []ExitCodeExact
<1>1. ProgramInit => Accounts /\ ExitTold
  BY StartsWithAccounts DEF ProgramInit, StartsWith, ExitTold
<1>2. (Accounts /\ ExitTold) /\ [ProgramNext]_programVars => (Accounts /\ ExitTold)'
  BY ProgramKeepsAccounts, ProgramKeepsExit
<1>3. Accounts /\ ExitTold => ExitCodeExact
  <2>1. ASSUME Accounts, ExitTold, phase = "done", log # <<>>, ~overlapped
        PROVE  /\ exitCode = 0 => RunsThat("failed") = {} /\ Unchecked = {}
               /\ RunsThat("failed") = {} /\ PartlyUnchecked = {} => exitCode = 0
    <3>1. /\ exitCode = IF counts.error # 0 \/ counts.noCheck # 0 THEN 1 ELSE 0
          /\ counts.error \in Nat /\ counts.noCheck \in Nat
      BY <2>1 DEF ExitTold, ExitStatus, Accounts, Recorded
    <3>2. DOMAIN log = 1 .. Len(log) /\ Len(log) \in Nat
      BY <2>1, AppendToAny DEF Accounts, Recorded
    <3>3. \A S \in {RunsThat("failed"), Unchecked, PartlyUnchecked} :
            Cardinality(S) \in Nat /\ (Cardinality(S) = 0 <=> S = {})
      BY <3>2, CountNone DEF RunsThat, Unchecked, PartlyUnchecked
    <3>4. /\ counts.error = Cardinality(RunsThat("failed"))
          /\ Cardinality(Unchecked) <= counts.noCheck
          /\ counts.noCheck <= Cardinality(PartlyUnchecked)
      BY <2>1, <3>3 DEF Accounts, Tallied, Pending
    <3> QED BY <3>1, <3>3, <3>4
  <2> QED BY <2>1 DEF ExitCodeExact
<1> QED BY <1>1, <1>2, <1>3, PTL DEF ProgramSpec

-----------------------------------------------------------------------------
(***************************************************************************)
(* Number sequences: digits give a number, a delimiter or the end of the   *)
(* text ends a piece, and what was read since the end before is what the   *)
(* piece stands for.                                                       *)
(***************************************************************************)

\* What a text is made of.
Chars == 0 .. Unrecognized

\* Folds as FoldFacts has them: c is what the fold does not change.
WorkValue(c, n, d) == n * 10 + d
NoHold(c, acc, k) == TRUE
ValueFold == INSTANCE FoldFacts WITH Op <- WorkValue, Holds <- NoHold

LEMMA ValueIsFold ==
    ASSUME NEW s
    PROVE  Value(s) = ValueFold!Fold(0, 0, s)
BY DEF Value, WorkValue, FoldLeft, MapThenFoldSet, Max,
       ValueFold!Fold, ValueFold!FoldLeft, ValueFold!MapThenFoldSet, ValueFold!Max

LEMMA ValueNumber ==
    ASSUME NEW s \in Seq(Nat)
    PROVE  Value(s) \in Nat
<1>1. PICK n : n = Len(s)
  OBVIOUS
<1>2. n \in Nat /\ DOMAIN s = 1 .. n /\ \A k \in 1 .. n : s[k] \in Nat
  BY <1>1
<1>3. PICK g : ValueFold!Steps(0, g, n, 0, s) /\ ValueFold!Fold(0, 0, s) = g[n]
  BY <1>2, ValueFold!FoldSolved
<1>4. g[0] = 0 /\ \A k \in 1 .. n : g[k] = g[k - 1] * 10 + s[k]
  BY <1>3 DEF ValueFold!Steps, WorkValue
<1> DEFINE S == {k \in 0 .. n : g[k] \in Nat}
<1>5. 0 \in S
  BY <1>2, <1>4
<1>6. \A k \in 1 .. n : k - 1 \in S => k \in S
  BY <1>2, <1>4
<1> HIDE DEF S
<1>7. \A k \in 0 .. n : k \in S
  BY <1>2, <1>5, <1>6, ValueFold!FromZero
<1>8. n \in S
  BY <1>2, <1>7
<1> QED BY <1>3, <1>8, ValueIsFold DEF S

\* The ends of pieces.

LEMMA LargestOf ==
    ASSUME NEW S \in SUBSET Nat, NEW m \in S, \A x \in S : m >= x
    PROVE  Max(S) = m
<1>1. \A x \in S : (\A y \in S : x >= y) <=> x = m
  OBVIOUS
<1> QED BY <1>1 DEF Max

LEMMA LargestExists ==
    ASSUME NEW n \in Nat, NEW S \in SUBSET (0 .. n), 0 \in S
    PROVE  \E m \in S : \A x \in S : m >= x
<1> DEFINE P(k) == \E m \in S : m <= k /\ \A x \in S : x <= k => m >= x
           T == {k \in 0 .. n : P(k)}
<1>1. 0 \in T
  <2>1. 0 \in S /\ 0 <= 0 /\ \A x \in S : x <= 0 => 0 >= x
    OBVIOUS
  <2> QED BY <2>1
<1>2. ASSUME NEW k \in 1 .. n, k - 1 \in T PROVE k \in T
  <2>1. PICK m \in S : m <= k - 1 /\ \A x \in S : x <= k - 1 => m >= x
    BY <1>2
  <2>2. CASE k \in S
    <3>1. k <= k /\ \A x \in S : x <= k => k >= x
      OBVIOUS
    <3> QED BY <2>2, <3>1
  <2>3. CASE k \notin S
    <3>1. m <= k /\ \A x \in S : x <= k => m >= x
      BY <2>1, <2>3
    <3> QED BY <3>1
  <2> QED BY <2>2, <2>3
<1> HIDE DEF T
<1>3. \A k \in 0 .. n : k \in T
  BY <1>1, <1>2, ValueFold!FromZero
<1>4. PICK m \in S : m <= n /\ \A x \in S : x <= n => m >= x
  BY <1>3 DEF T
<1>5. \A x \in S : m >= x
  BY <1>4
<1> QED BY <1>5

LEMMA LastEndIs ==
    ASSUME NEW text \in Seq(Chars), NEW k \in Nat
    PROVE  /\ LastEnd(text, k) \in {0} \cup Ends(text)
           /\ LastEnd(text, k) \in 0 .. k
           /\ \A end \in Ends(text) : end <= k => end <= LastEnd(text, k)
<1>1. PICK S : S = {0} \cup {end \in Ends(text) : end <= k}
  OBVIOUS
<1>2. Ends(text) \subseteq Nat
  BY DEF Ends
<1>3. S \in SUBSET (0 .. k) /\ 0 \in S /\ S \in SUBSET Nat
  BY <1>1, <1>2
<1>4. PICK m \in S : \A x \in S : m >= x
  BY <1>3, LargestExists
<1>5. Max(S) = m
  BY <1>3, <1>4, LargestOf
<1>6. LastEnd(text, k) = m
  BY <1>1, <1>5 DEF LastEnd
<1> QED BY <1>1, <1>2, <1>3, <1>4, <1>6

\* A state of the pass before anything unrecognized.
IsParser(p) ==
    /\ p = [out |-> p.out, hasNumber |-> p.hasNumber, number |-> p.number, overflow |-> p.overflow,
            rangeStart |-> p.rangeStart, refused |-> p.refused]
    /\ p.hasNumber \in BOOLEAN /\ p.overflow \in BOOLEAN /\ p.refused = FALSE

\* The parser at the start of a piece, and after a dash.
FreshParser(out) ==
    [out |-> out, hasNumber |-> FALSE, number |-> 0, overflow |-> FALSE, rangeStart |-> NoRange, refused |-> FALSE]
InRangeFrom(out, start) ==
    [out |-> out, hasNumber |-> FALSE, number |-> 0, overflow |-> FALSE, rangeStart |-> start, refused |-> FALSE]

\* h goes over s.
Reads(h, s, n, min, max) == \A k \in 1 .. n : h[k] = ReadCharacter(h[k - 1], s[k], min, max)

LEMMA Remainder ==
    ASSUME NEW n \in Nat
    PROVE  n % Limit \in 0 .. Limit - 1 /\ (n < Limit => n % Limit = n)
<1>1. Limit \in Nat /\ Limit > 0
  BY LimitAssumption
<1> QED BY <1>1

LEMMA DashRead ==
    ASSUME NEW p, IsParser(p), p.overflow = FALSE, NEW min, NEW max
    PROVE  ReadCharacter(p, Dash, min, max)
            = InRangeFrom(p.out, IF p.hasNumber /\ p.number >= min THEN p.number ELSE min)
<1>1. p.refused = FALSE
  BY DEF IsParser
<1>2. ReadCharacter(p, Dash, min, max) = ReadDash(p, min)
  BY <1>1 DEF ReadCharacter, Dash, Delimiter, Digits
<1>3. PICK x : x = IF p.hasNumber /\ p.number >= min THEN p.number ELSE min
  OBVIOUS
<1>4. ReadDash(p, min) = [p EXCEPT !.rangeStart = x, !.hasNumber = FALSE, !.number = 0]
  BY <1>3 DEF ReadDash
<1>5. ReadDash(p, min) = InRangeFrom(p.out, x)
  BY <1>4 DEF IsParser, InRangeFrom
<1> QED BY <1>2, <1>3, <1>5

\* What a delimiter gives.
Gives(p, min, max) ==
    CASE p.overflow -> <<>>
      [] ~p.overflow /\ p.rangeStart # NoRange -> Numbers(p.rangeStart, IF p.hasNumber /\ p.number < max THEN p.number + 1 ELSE max)
      [] OTHER -> IF p.hasNumber /\ p.number >= min /\ p.number < max THEN <<p.number>> ELSE <<>>

LEMMA DelimiterRead ==
    ASSUME NEW p, IsParser(p), p.overflow => p.rangeStart = NoRange, NEW min, NEW max
    PROVE  ReadCharacter(p, Delimiter, min, max) = FreshParser(p.out \o Gives(p, min, max))
<1>1. p.refused = FALSE
  BY DEF IsParser
<1>2. ReadCharacter(p, Delimiter, min, max) = EndPiece(p, min, max)
  BY <1>1 DEF ReadCharacter, Dash, Delimiter, Digits
<1>3. PICK x, r : x = Gives(p, min, max) /\ r = IF p.overflow THEN p.rangeStart ELSE NoRange
  OBVIOUS
<1>4. r = NoRange
  BY <1>3
<1>5. EndPiece(p, min, max) = [p EXCEPT !.overflow = FALSE, !.out = @ \o x, !.rangeStart = r,
                                        !.hasNumber = FALSE, !.number = 0]
  BY <1>3 DEF EndPiece, Gives, InRange
<1>6. EndPiece(p, min, max) = FreshParser(p.out \o x)
  BY <1>4, <1>5 DEF IsParser, FreshParser
<1> QED BY <1>2, <1>3, <1>6

\* A run of digits, as it is read.
RunRead(p, n, value, out, start) ==
    /\ IsParser(p) /\ p.out = out /\ p.rangeStart = start
    /\ p.number \in 0 .. Limit - 1
    /\ p.hasNumber <=> n > 0
    /\ p.overflow <=> value >= Limit
    /\ value < Limit => p.number = value

LEMMA RunStarts ==
    ASSUME NEW out, NEW start, NEW value, value = 0
    PROVE  RunRead(InRangeFrom(out, start), 0, value, out, start)
<1>1. 0 \in 0 .. Limit - 1 /\ ~(0 > 0) /\ ~(value >= Limit)
  BY LimitAssumption
<1>2. PICK p : p = InRangeFrom(out, start)
  OBVIOUS
<1>3. p = [out |-> out, hasNumber |-> FALSE, number |-> 0, overflow |-> FALSE, rangeStart |-> start, refused |-> FALSE]
  BY <1>2 DEF InRangeFrom
<1>4. /\ p.out = out /\ p.hasNumber = FALSE /\ p.number = 0 /\ p.overflow = FALSE /\ p.rangeStart = start /\ p.refused = FALSE
  BY <1>3
<1>5. IsParser(p)
  BY <1>3, <1>4 DEF IsParser
<1>6. RunRead(p, 0, value, out, start)
  BY <1>1, <1>4, <1>5 DEF RunRead
<1> QED BY <1>2, <1>6

LEMMA RunGrows ==
    ASSUME NEW p, NEW n \in Nat, NEW value \in Nat, NEW out, NEW start, RunRead(p, n, value, out, start),
           NEW c \in Digits, NEW min, NEW max, NEW w, w = value * 10 + c
    PROVE  RunRead(ReadCharacter(p, c, min, max), n + 1, w, out, start)
<1>1. Limit \in Nat /\ Limit > 0 /\ c \in Nat
  BY LimitAssumption DEF Digits
<1>2. /\ IsParser(p) /\ p.out = out /\ p.rangeStart = start /\ p.refused = FALSE
      /\ p.number \in Nat
      /\ p.overflow \in BOOLEAN
      /\ p.overflow <=> value >= Limit
      /\ value < Limit => p.number = value
  BY <1>1 DEF RunRead, IsParser
<1>3. PICK y : y = p.number * 10 + c
  OBVIOUS
<1>4. y \in Nat /\ y % Limit \in 0 .. Limit - 1 /\ (y < Limit => y % Limit = y)
  <2>1. y \in Nat
    BY <1>1, <1>2, <1>3
  <2> QED BY <2>1, Remainder
<1>5. PICK z \in 0 .. Limit - 1 : z = y % Limit /\ (y < Limit => z = y)
  BY <1>4
<1>6. PICK q : q = ReadCharacter(p, c, min, max)
  OBVIOUS
<1>7. q = [p EXCEPT !.hasNumber = TRUE, !.overflow = @ \/ y >= Limit, !.number = z]
  <2>1. ReadCharacter(p, c, min, max) = ReadDigit(p, c)
    BY <1>2 DEF ReadCharacter, Digits, Delimiter, Dash
  <2>2. ReadDigit(p, c) = [p EXCEPT !.hasNumber = TRUE, !.overflow = @ \/ y >= Limit, !.number = z]
    BY <1>3, <1>5 DEF ReadDigit
  <2> QED BY <1>6, <2>1, <2>2
<1>8. /\ q.out = out /\ q.rangeStart = start /\ q.refused = FALSE /\ q.hasNumber = TRUE /\ q.number = z
      /\ q.overflow = (p.overflow \/ y >= Limit) /\ q.overflow \in BOOLEAN
      /\ IsParser(q)
  BY <1>2, <1>7 DEF IsParser
<1>9. w \in Nat /\ (value >= Limit => w >= Limit) /\ (w < Limit => y = w) /\ (~p.overflow => y = w)
  BY <1>1, <1>2, <1>3
<1>10. q.overflow <=> w >= Limit
  <2>1. CASE p.overflow
    BY <1>2, <1>8, <1>9, <2>1
  <2>2. CASE ~p.overflow
    BY <1>8, <1>9, <2>2
  <2> QED BY <2>1, <2>2
<1>11. w < Limit => q.number = w
  BY <1>5, <1>8, <1>9
<1>12. n + 1 > 0
  OBVIOUS
<1>13. RunRead(q, n + 1, w, out, start)
  BY <1>8, <1>10, <1>11, <1>12 DEF RunRead
<1> QED BY <1>6, <1>13

LEMMA DigitsRead ==
    ASSUME NEW n \in Nat, NEW s \in Seq(Digits), Len(s) = n, NEW out, NEW start, NEW min, NEW max, NEW h,
           h[0] = InRangeFrom(out, start), Reads(h, s, n, min, max)
    PROVE  RunRead(h[n], n, Value(s), out, start)
<1>2. DOMAIN s = 1 .. n /\ \A k \in 1 .. n : s[k] \in Digits /\ s[k] \in Nat
  BY DEF Digits
<1>3. PICK v : ValueFold!Steps(0, v, n, 0, s) /\ ValueFold!Fold(0, 0, s) = v[n]
  BY <1>2, ValueFold!FoldSolved
<1>4. v[0] = 0 /\ \A k \in 1 .. n : v[k] = v[k - 1] * 10 + s[k]
  BY <1>3 DEF ValueFold!Steps, WorkValue
<1> DEFINE S == {k \in 0 .. n : v[k] \in Nat /\ RunRead(h[k], k, v[k], out, start)}
<1>5. 0 \in S
  <2>1. v[0] = 0
    BY <1>4
  <2>2. RunRead(h[0], 0, v[0], out, start)
    BY <2>1, RunStarts
  <2>3. v[0] \in Nat
    BY <2>1
  <2>4. 0 \in 0 .. n
    OBVIOUS
  <2> QED BY <2>2, <2>3, <2>4
<1>6. ASSUME NEW k \in 1 .. n, k - 1 \in S PROVE k \in S
  <2>1. k - 1 \in Nat /\ k - 1 + 1 = k /\ s[k] \in Digits /\ s[k] \in Nat
    BY <1>2
  <2>2. v[k - 1] \in Nat /\ RunRead(h[k - 1], k - 1, v[k - 1], out, start)
    BY <1>6
  <2>3. RunRead(ReadCharacter(h[k - 1], s[k], min, max), k - 1 + 1, v[k], out, start)
    BY <1>4, <2>1, <2>2, RunGrows
  <2>4. v[k] = v[k - 1] * 10 + s[k] /\ h[k] = ReadCharacter(h[k - 1], s[k], min, max)
    BY <1>4 DEF Reads
  <2>5. v[k] \in Nat
    BY <2>1, <2>2, <2>4
  <2> QED BY <2>1, <2>3, <2>4, <2>5
<1> HIDE DEF S
<1>7. \A k \in 0 .. n : k \in S
  BY <1>5, <1>6, ValueFold!FromZero
<1>8. n \in S
  BY <1>7
<1>9. Value(s) = v[n]
  BY <1>3, ValueIsFold
<1> QED BY <1>8, <1>9 DEF S

LEMMA SmallerOf ==
    ASSUME NEW a \in Int, NEW b \in Int
    PROVE  Min({a, b}) = IF a <= b THEN a ELSE b
<1>1. PICK m \in {a, b} : m = (IF a <= b THEN a ELSE b)
  OBVIOUS
<1>2. m <= a /\ m <= b
  BY <1>1
<1>3. \A x \in {a, b} : (\A y \in {a, b} : x <= y) <=> x = m
  BY <1>1, <1>2
<1>4. Min({a, b}) = m
  BY <1>1, <1>3 DEF Min
<1> QED BY <1>1, <1>4

LEMMA LargerOf ==
    ASSUME NEW a \in Nat, NEW b \in Nat
    PROVE  Max({a, b}) = IF a >= b THEN a ELSE b
<1>1. PICK m \in {a, b} : m = (IF a >= b THEN a ELSE b)
  OBVIOUS
<1>2. m >= a /\ m >= b
  BY <1>1
<1>3. \A x \in {a, b} : m >= x
  BY <1>2
<1> QED BY <1>1, <1>3, LargestOf

\* The end of the text or a delimiter makes p have what the piece stands for.
Completes(p, out, piece, min, max) ==
    /\ ReadCharacter(p, Delimiter, min, max) = FreshParser(out \o PieceDenotes(piece, min, max))
    /\ PieceDenotes(piece, min, max) \in Seq(Nat)

LEMMA NumberRead ==
    ASSUME NEW n \in Nat, NEW s \in Seq(Digits), Len(s) = n, NEW out, NEW min \in Nat, NEW max \in Nat, NEW h,
           h[0] = FreshParser(out), Reads(h, s, n, min, max), Dashes(s) = {}
    PROVE  Completes(h[n], out, s, min, max)
<1>1. s \in Seq(Nat) /\ (n > 0 <=> s # <<>>)
  <2>1. \A k \in 1 .. Len(s) : s[k] \in Nat
    BY DEF Digits
  <2>2. s \in Seq(Nat)
    BY <2>1
  <2>3. n > 0 <=> s # <<>>
    OBVIOUS
  <2> QED BY <2>2, <2>3
<1>2. PICK v : v = Value(s)
  OBVIOUS
<1>3. v \in Nat
  BY <1>1, <1>2, ValueNumber
<1>4. RunRead(h[n], n, v, out, NoRange)
  BY <1>2, DigitsRead DEF FreshParser, InRangeFrom
<1>5. PICK p : p = h[n]
  OBVIOUS
<1>6. ReadCharacter(p, Delimiter, min, max) = FreshParser(out \o Gives(p, min, max))
  BY <1>4, <1>5, DelimiterRead DEF RunRead
<1>11. /\ p.overflow \in BOOLEAN /\ p.hasNumber \in BOOLEAN /\ p.number \in Nat /\ p.rangeStart = NoRange
       /\ p.hasNumber <=> n > 0
       /\ p.overflow <=> v >= Limit
       /\ v < Limit => p.number = v
  BY <1>4, <1>5 DEF RunRead, IsParser
<1>7. PieceDenotes(s, min, max) = IF s # <<>> /\ v \in min .. (max - 1) /\ v < Limit THEN <<v>> ELSE <<>>
  BY <1>2 DEF PieceDenotes
<1>8. Limit \in Nat
  BY LimitAssumption
<1>9. Gives(p, min, max) = PieceDenotes(s, min, max)
  <2>1. CASE p.overflow
    <3>1. Gives(p, min, max) = <<>>
      BY <2>1 DEF Gives
    <3>2. ~(v < Limit)
      BY <1>3, <1>8, <1>11, <2>1
    <3> QED BY <1>7, <3>1, <3>2
  <2>2. CASE ~p.overflow
    <3>1. v < Limit /\ p.number = v
      BY <1>3, <1>8, <1>11, <2>2
    <3>2. Gives(p, min, max) = IF p.hasNumber /\ p.number >= min /\ p.number < max THEN <<p.number>> ELSE <<>>
      BY <1>11, <2>2 DEF Gives
    <3>3. (p.hasNumber /\ p.number >= min /\ p.number < max) <=> (s # <<>> /\ v \in min .. (max - 1) /\ v < Limit)
      BY <1>1, <1>3, <1>11, <3>1
    <3> QED BY <1>7, <3>1, <3>2, <3>3
  <2> QED BY <1>11, <2>1, <2>2
<1>10. PieceDenotes(s, min, max) \in Seq(Nat)
  <2>1. <<v>> \in Seq(Nat) /\ <<>> \in Seq(Nat)
    BY <1>3
  <2> QED BY <1>7, <2>1
<1> QED BY <1>5, <1>6, <1>9, <1>10 DEF Completes

\* The parts of a range.
IsRange(piece, m, d) ==
    /\ d \in 1 .. m /\ piece[d] = Dash
    /\ Start(piece) \in Seq(Digits) /\ Len(Start(piece)) = d - 1
    /\ \A k \in 1 .. d - 1 : Start(piece)[k] = piece[k]
    /\ Finish(piece) \in Seq(Digits) /\ Len(Finish(piece)) = m - d
    /\ \A k \in 1 .. m - d : Finish(piece)[k] = piece[k + d]

LEMMA RangeParts ==
    ASSUME NEW m \in Nat, NEW piece \in Seq(Digits \cup {Dash}), Len(piece) = m, NEW d, Dashes(piece) = {d}
    PROVE  IsRange(piece, m, d)
<1>1. DOMAIN piece = 1 .. m
  OBVIOUS
<1>2. d \in 1 .. m /\ piece[d] = Dash
  BY <1>1 DEF Dashes
<1>3. \A k \in 1 .. m : k # d => piece[k] \in Digits
  BY <1>1 DEF Dashes
<1>4. Max(Dashes(piece)) = d
  BY <1>2, LargestOf
<1>5. Start(piece) = SubSeq(piece, 1, d - 1) /\ Finish(piece) = SubSeq(piece, d + 1, m)
  BY <1>4 DEF Start, Finish
<1>6. PICK s : s = SubSeq(piece, 1, d - 1)
  OBVIOUS
<1>7. Len(s) = d - 1 /\ DOMAIN s = 1 .. d - 1 /\ \A k \in 1 .. d - 1 : s[k] = piece[k]
  BY <1>2, <1>6
<1>8. s \in Seq(Digits)
  <2>1. s \in Seq(Digits \cup {Dash})
    BY <1>2, <1>6, SubSeqProperties
  <2>2. \A k \in 1 .. Len(s) : s[k] \in Digits
    BY <1>2, <1>3, <1>7
  <2> QED BY <2>1, <2>2
<1>9. PICK t : t = SubSeq(piece, d + 1, m)
  OBVIOUS
<1>10. Len(t) = m - d /\ DOMAIN t = 1 .. m - d /\ \A k \in 1 .. m - d : t[k] = piece[k + d]
  BY <1>2, <1>9
<1>11. t \in Seq(Digits)
  <2>1. t \in Seq(Digits \cup {Dash})
    BY <1>2, <1>9, SubSeqProperties
  <2>2. \A k \in 1 .. Len(t) : t[k] \in Digits
    BY <1>2, <1>3, <1>10
  <2> QED BY <2>1, <2>2
<1> QED BY <1>2, <1>5, <1>6, <1>7, <1>8, <1>9, <1>10, <1>11 DEF IsRange

LEMMA DigitsAreNumbers ==
    ASSUME NEW s \in Seq(Digits)
    PROVE  s \in Seq(Nat)
<1>1. \A k \in 1 .. Len(s) : s[k] \in Nat
  BY DEF Digits
<1> QED BY <1>1

LEMMA NumbersTyped ==
    ASSUME NEW first \in Nat, NEW end \in Nat
    PROVE  Numbers(first, end) \in Seq(Nat)
<1>1. PICK n : n = IF end > first THEN end - first ELSE 0
  OBVIOUS
<1>2. n \in Nat /\ \A k \in 1 .. n : first + k - 1 \in Nat
  BY <1>1
<1>3. Numbers(first, end) = [k \in 1 .. n |-> first + k - 1]
  BY <1>1 DEF Numbers
<1> QED BY <1>2, <1>3

LEMMA RangeRead ==
    ASSUME NEW m \in Nat, NEW piece \in Seq(Digits \cup {Dash}), Len(piece) = m, NEW d, Dashes(piece) = {d},
           Value(Start(piece)) < NoRange, Value(Finish(piece)) < Limit,
           NEW min \in Nat, min < NoRange, NEW max \in Nat, max > 0, NEW out, NEW h,
           h[0] = FreshParser(out), Reads(h, piece, m, min, max)
    PROVE  Completes(h[m], out, piece, min, max)
<1>1. Limit \in Nat /\ Limit > 0 /\ NoRange = Limit - 1
  BY LimitAssumption DEF NoRange
<1>2. PICK s, t : s = Start(piece) /\ t = Finish(piece)
  OBVIOUS
<1>3. /\ d \in 1 .. m /\ piece[d] = Dash
      /\ s \in Seq(Digits) /\ Len(s) = d - 1 /\ \A k \in 1 .. d - 1 : s[k] = piece[k]
      /\ t \in Seq(Digits) /\ Len(t) = m - d /\ \A k \in 1 .. m - d : t[k] = piece[k + d]
  <2>1. IsRange(piece, m, d)
    BY RangeParts
  <2> QED BY <1>2, <2>1 DEF IsRange
<1>4. PICK v, w : v = Value(s) /\ w = Value(t)
  OBVIOUS
<1>5. v \in Nat /\ w \in Nat /\ v < NoRange /\ w < Limit
  <2>3. s \in Seq(Nat)
    BY <1>3, DigitsAreNumbers
  <2>4. t \in Seq(Nat)
    BY <1>3, DigitsAreNumbers
  <2>5. v \in Nat
    BY <1>4, <2>3, ValueNumber
  <2>6. w \in Nat
    BY <1>4, <2>4, ValueNumber
  <2> QED BY <1>2, <1>4, <2>5, <2>6
<1>6. d - 1 \in Nat /\ m - d \in Nat
  BY <1>3
<1>7. RunRead(h[d - 1], d - 1, v, out, NoRange)
  <2>1. Reads(h, s, d - 1, min, max)
    <3>1. \A k \in 1 .. d - 1 : k \in 1 .. m /\ s[k] = piece[k]
      BY <1>3
    <3>2. \A k \in 1 .. m : h[k] = ReadCharacter(h[k - 1], piece[k], min, max)
      BY DEF Reads
    <3> QED BY <3>1, <3>2 DEF Reads
  <2>2. h[0] = InRangeFrom(out, NoRange)
    BY DEF FreshParser, InRangeFrom
  <2> QED BY <1>3, <1>4, <1>6, <2>1, <2>2, DigitsRead
<1>8. PICK p : p = h[d - 1]
  OBVIOUS
<1>9. /\ IsParser(p) /\ p.out = out /\ p.overflow = FALSE /\ p.hasNumber \in BOOLEAN
      /\ p.hasNumber <=> d - 1 > 0
      /\ p.number = v
  BY <1>1, <1>5, <1>7, <1>8 DEF RunRead, IsParser
<1>10. PICK first : first = IF p.hasNumber /\ p.number >= min THEN p.number ELSE min
  OBVIOUS
<1>11. first \in Nat /\ first # NoRange
  BY <1>1, <1>5, <1>9, <1>10
<1>12. first = IF s = <<>> THEN min ELSE Max({min, v})
  <2>1. s = <<>> <=> d - 1 = 0
    BY <1>3
  <2>2. Max({min, v}) = IF min >= v THEN min ELSE v
    BY <1>5, LargerOf
  <2>3. CASE s = <<>>
    BY <1>6, <1>9, <1>10, <2>1, <2>3
  <2>4. CASE s # <<>>
    <3>1. p.hasNumber
      <4>1. d - 1 > 0
        BY <1>3, <1>6, <2>1, <2>4
      <4> QED BY <1>9, <4>1
    <3>2. first = IF v >= min THEN v ELSE min
      BY <1>9, <1>10, <3>1
    <3>3. first = Max({min, v})
      BY <1>5, <2>2, <3>2
    <3> QED BY <2>4, <3>3
  <2> QED BY <2>3, <2>4
<1>13. h[d] = InRangeFrom(out, first)
  <2>1. h[d] = ReadCharacter(p, Dash, min, max)
    BY <1>3, <1>8 DEF Reads
  <2> QED BY <1>9, <1>10, <2>1, DashRead
<1>14. PICK g : g = [j \in 0 .. m - d |-> h[j + d]]
  OBVIOUS
<1>15. RunRead(g[m - d], m - d, w, out, first)
  <2>1. \A k \in 1 .. m - d : g[k] = h[k + d] /\ g[k - 1] = h[(k + d) - 1] /\ k + d \in 1 .. m
    BY <1>3, <1>14
  <2>2. Reads(g, t, m - d, min, max)
    BY <1>3, <2>1 DEF Reads
  <2>3. g[0] = InRangeFrom(out, first)
    BY <1>3, <1>13, <1>14
  <2> QED BY <1>3, <1>4, <1>6, <2>2, <2>3, DigitsRead
<1>16. PICK q : q = h[m]
  OBVIOUS
<1>17. RunRead(q, m - d, w, out, first)
  <2>1. g[m - d] = h[m]
    BY <1>3, <1>14
  <2> QED BY <1>15, <1>16, <2>1
<1>18. /\ IsParser(q) /\ q.out = out /\ q.rangeStart = first /\ q.overflow = FALSE
       /\ q.hasNumber <=> m - d > 0
       /\ q.number = w
  BY <1>1, <1>5, <1>17 DEF RunRead, IsParser
<1>19. ReadCharacter(q, Delimiter, min, max) = FreshParser(out \o Gives(q, min, max))
  BY <1>18, DelimiterRead
<1>20. PICK end : end = IF q.hasNumber /\ q.number < max THEN q.number + 1 ELSE max
  OBVIOUS
<1>21. Gives(q, min, max) = Numbers(first, end)
  BY <1>11, <1>18, <1>20 DEF Gives
<1>22. PICK last : last = IF t = <<>> THEN max - 1 ELSE Min({max - 1, w})
  OBVIOUS
<1>23. last + 1 = end
  <2>1. t = <<>> <=> m - d = 0
    BY <1>3
  <2>2. Min({max - 1, w}) = IF max - 1 <= w THEN max - 1 ELSE w
    BY <1>5, SmallerOf
  <2>3. CASE t = <<>>
    BY <1>6, <1>18, <1>20, <1>22, <2>1, <2>3
  <2>4. CASE t # <<>>
    BY <1>5, <1>6, <1>18, <1>20, <1>22, <2>1, <2>2, <2>4
  <2> QED BY <2>3, <2>4
<1>24. v < Limit /\ w < Limit
  BY <1>1, <1>5
<1>25. PieceDenotes(piece, min, max) = Numbers(first, last + 1)
  <2>1. Dashes(piece) # {}
    OBVIOUS
  <2> QED BY <1>2, <1>4, <1>12, <1>22, <1>24, <2>1 DEF PieceDenotes
<1>26. PieceDenotes(piece, min, max) \in Seq(Nat)
  <2>1. end \in Nat
    BY <1>5, <1>18, <1>20
  <2> QED BY <1>11, <1>23, <1>25, <2>1, NumbersTyped
<1> QED BY <1>16, <1>19, <1>21, <1>23, <1>25, <1>26 DEF Completes

\* The piece means what is read.
LEMMA PieceRead ==
    ASSUME NEW m \in Nat, NEW piece \in Seq(Digits \cup {Dash}), Len(piece) = m, Cardinality(Dashes(piece)) <= 1,
           Dashes(piece) # {} => Value(Start(piece)) < NoRange /\ Value(Finish(piece)) < Limit,
           NEW min \in Nat, min < NoRange, NEW max \in Nat, max > 0, NEW out, NEW h,
           h[0] = FreshParser(out), Reads(h, piece, m, min, max)
    PROVE  Completes(h[m], out, piece, min, max)
<1>1. IsFiniteSet(Dashes(piece))
  <2>1. Dashes(piece) \subseteq 1 .. m
    BY DEF Dashes
  <2>2. IsFiniteSet(1 .. m)
    BY FS_Interval
  <2> QED BY <2>1, <2>2, FS_Subset
<1>2. CASE Dashes(piece) = {}
  <2>1. \A k \in 1 .. Len(piece) : piece[k] \in Digits
    BY <1>2 DEF Dashes
  <2>2. piece \in Seq(Digits)
    BY <2>1
  <2> QED BY <1>2, <2>2, NumberRead
<1>3. CASE Dashes(piece) # {}
  <2>1. Cardinality(Dashes(piece)) \in Nat /\ Cardinality(Dashes(piece)) # 0
    BY <1>1, <1>3, FS_CardinalityType, FS_EmptySet
  <2>2. Cardinality(Dashes(piece)) = 1
    BY <2>1
  <2>3. PICK d : Dashes(piece) = {d}
    BY <1>1, <2>2, FS_Singleton
  <2>4. Value(Start(piece)) < NoRange /\ Value(Finish(piece)) < Limit
    BY <1>3
  <2> QED BY <2>3, <2>4, RangeRead
<1> QED BY <1>2, <1>3

WorkRead(c, p, character) == ReadCharacter(p, character, c[1], c[2])
ReadFold == INSTANCE FoldFacts WITH Op <- WorkRead, Holds <- NoHold

LEMMA ParseIsFold ==
    ASSUME NEW c, NEW text
    PROVE  ParseNumberSequence(text, c[1], c[2])
            = ReadCharacter(ReadFold!Fold(c, Parser, text), Delimiter, c[1], c[2])
BY DEF ParseNumberSequence, WorkRead, FoldLeft, MapThenFoldSet, Max,
       ReadFold!Fold, ReadFold!FoldLeft, ReadFold!MapThenFoldSet, ReadFold!Max

WorkThen(c, out, end) ==
    IF end \in Ends(c[1]) THEN out \o PieceDenotes(Piece(c[1], end), c[2], c[3]) ELSE out
ThenFold == INSTANCE FoldFacts WITH Op <- WorkThen, Holds <- NoHold

LEMMA DenotesIsFold ==
    ASSUME NEW c
    PROVE  Denotes(c[1], c[2], c[3]) = ThenFold!Fold(c, <<>>, [k \in 1 .. Len(c[1]) + 1 |-> k])
BY DEF Denotes, WorkThen, FoldLeft, MapThenFoldSet, Max,
       ThenFold!Fold, ThenFold!FoldLeft, ThenFold!MapThenFoldSet, ThenFold!Max

\* G has the parser after each character, the end of the text included.
Parses(G, text, min, max) ==
    /\ G[0] = FreshParser(<<>>)
    /\ \A k \in 1 .. Len(text) : G[k] = ReadCharacter(G[k - 1], text[k], min, max)
    /\ G[Len(text) + 1] = ReadCharacter(G[Len(text)], Delimiter, min, max)

LEMMA ParserSteps ==
    ASSUME NEW text \in Seq(Chars), NEW min, NEW max
    PROVE  \E G : Parses(G, text, min, max) /\ ParseNumberSequence(text, min, max) = G[Len(text) + 1]
<1>1. PICK c, n : c = <<min, max>> /\ n = Len(text)
  OBVIOUS
<1>2. c[1] = min /\ c[2] = max /\ n \in Nat /\ DOMAIN text = 1 .. n
  BY <1>1
<1>3. PICK g : ReadFold!Steps(c, g, n, Parser, text) /\ ReadFold!Fold(c, Parser, text) = g[n]
  BY <1>2, ReadFold!FoldSolved
<1>4. g[0] = Parser /\ \A k \in 1 .. n : g[k] = ReadCharacter(g[k - 1], text[k], min, max)
  BY <1>2, <1>3 DEF ReadFold!Steps, WorkRead
<1>5. PICK last : last = ReadCharacter(g[n], Delimiter, min, max)
  OBVIOUS
<1>6. ParseNumberSequence(text, min, max) = last
  <2>1. ParseNumberSequence(text, c[1], c[2]) = ReadCharacter(g[n], Delimiter, c[1], c[2])
    BY <1>3, ParseIsFold
  <2> QED BY <1>2, <1>5, <2>1
<1>7. PICK G : G = [k \in 0 .. n + 1 |-> IF k = n + 1 THEN last ELSE g[k]]
  OBVIOUS
<1>8. G[n + 1] = last /\ \A k \in 0 .. n : G[k] = g[k]
  BY <1>2, <1>7
<1>9. G[0] = FreshParser(<<>>)
  <2>1. Parser = FreshParser(<<>>)
    BY DEF Parser, FreshParser
  <2>2. G[0] = g[0]
    BY <1>2, <1>8
  <2> QED BY <1>4, <2>1, <2>2
<1>10. ASSUME NEW k \in 1 .. n PROVE G[k] = ReadCharacter(G[k - 1], text[k], min, max)
  <2>1. G[k] = g[k] /\ G[k - 1] = g[k - 1]
    BY <1>2, <1>8
  <2> QED BY <1>4, <2>1
<1>11. G[n] = g[n]
  BY <1>2, <1>8
<1> QED BY <1>1, <1>5, <1>6, <1>8, <1>9, <1>10, <1>11 DEF Parses

\* D has what the text stands for up to each place.
Stands(D, text, min, max) ==
    /\ D[0] = <<>>
    /\ \A k \in 1 .. Len(text) + 1 :
            D[k] = IF k \in Ends(text) THEN D[k - 1] \o PieceDenotes(Piece(text, k), min, max) ELSE D[k - 1]

LEMMA MeaningSteps ==
    ASSUME NEW text \in Seq(Chars), NEW min, NEW max
    PROVE  \E D : Stands(D, text, min, max) /\ Denotes(text, min, max) = D[Len(text) + 1]
<1>1. PICK c, n, s : c = <<text, min, max>> /\ n = Len(text) /\ s = [k \in 1 .. n + 1 |-> k]
  OBVIOUS
<1>2. c[1] = text /\ c[2] = min /\ c[3] = max /\ n \in Nat /\ n + 1 \in Nat
  BY <1>1
<1>3. DOMAIN s = 1 .. n + 1 /\ \A k \in 1 .. n + 1 : s[k] = k
  BY <1>1
<1>4. PICK D : ThenFold!Steps(c, D, n + 1, <<>>, s) /\ ThenFold!Fold(c, <<>>, s) = D[n + 1]
  BY <1>2, <1>3, ThenFold!FoldSolved
<1>5. Denotes(text, min, max) = D[n + 1]
  <2>1. Denotes(c[1], c[2], c[3]) = ThenFold!Fold(c, <<>>, [k \in 1 .. Len(c[1]) + 1 |-> k])
    BY DenotesIsFold
  <2> QED BY <1>1, <1>2, <1>4, <2>1
<1>6. D[0] = <<>> /\ \A k \in 1 .. n + 1 : D[k] = WorkThen(c, D[k - 1], k)
  BY <1>3, <1>4 DEF ThenFold!Steps
<1>7. \A k, out : WorkThen(c, out, k) = IF k \in Ends(text) THEN out \o PieceDenotes(Piece(text, k), min, max) ELSE out
  BY <1>2 DEF WorkThen
<1>8. ASSUME NEW k \in 1 .. n + 1
      PROVE  D[k] = IF k \in Ends(text) THEN D[k - 1] \o PieceDenotes(Piece(text, k), min, max) ELSE D[k - 1]
  BY <1>6, <1>7
<1>9. Stands(D, text, min, max)
  BY <1>1, <1>6, <1>8 DEF Stands
<1> QED BY <1>1, <1>5, <1>9

LEMMA Between ==
    ASSUME NEW m \in Nat, NEW b \in Nat
    PROVE  (m + b) - (b + 1) + 1 = m
OBVIOUS

\* From one end to the next.
LEMMA PieceStep ==
    ASSUME NEW text \in Seq(Chars), WellFormed(text), RangesFit(text),
           NEW min \in Nat, min < NoRange, NEW max \in Nat, max > 0,
           NEW G, Parses(G, text, min, max), NEW D, Stands(D, text, min, max),
           NEW k \in Ends(text), NEW b, b = LastEnd(text, k - 1), G[b] = FreshParser(D[b]), D[b] \in Seq(Nat)
    PROVE  G[k] = FreshParser(D[k]) /\ D[k] \in Seq(Nat)
<1>1. PICK n : n = Len(text)
  OBVIOUS
<1>2. n \in Nat /\ k \in 1 .. n + 1 /\ k - 1 \in Nat /\ DOMAIN text = 1 .. n
  BY <1>1 DEF Ends
<1>3. b \in 0 .. k - 1 /\ \A end \in Ends(text) : end <= k - 1 => end <= b
  BY <1>2, LastEndIs
<1>4. PICK m, piece : m = (k - 1) - b /\ piece = Piece(text, k)
  OBVIOUS
<1>5. m \in Nat /\ m + b = k - 1
  BY <1>2, <1>3, <1>4
<1>6. piece = SubSeq(text, b + 1, k - 1)
  BY <1>4 DEF Piece
<1>7. Len(piece) = m /\ DOMAIN piece = 1 .. m /\ \A j \in 1 .. m : piece[j] = text[j + b] /\ j + b \in 1 .. n
  <2>1. PICK first, last : first = b + 1 /\ last = k - 1
    OBVIOUS
  <2>2. /\ first \in Nat /\ last \in Nat /\ last - first + 1 = m
        /\ \A j \in 1 .. m : first + j - 1 = j + b /\ j + b \in 1 .. n
    <3>1. n \in Nat /\ k \in 1 .. n + 1 /\ b \in Nat /\ m \in Nat /\ m + b = k - 1
      BY <1>2, <1>3, <1>5
    <3>2. first \in Nat /\ last \in Nat /\ last - first + 1 = m
      <4>1. first \in Nat
        BY <2>1, <3>1
      <4>2. last = m + b /\ last \in Nat
        BY <2>1, <3>1
      <4>3. (m + b) - (b + 1) + 1 = m
        BY <3>1, Between
      <4> QED BY <2>1, <4>1, <4>2, <4>3
    <3>3. ASSUME NEW j \in 1 .. m PROVE first + j - 1 = j + b /\ j + b \in 1 .. n
      BY <2>1, <3>1
    <3> QED BY <3>2, <3>3
  <2>3. piece = SubSeq(text, first, last)
    BY <1>6, <2>1
  <2>4. Len(piece) = m /\ DOMAIN piece = 1 .. m /\ \A j \in 1 .. m : piece[j] = text[first + j - 1]
    BY <1>5, <2>2, <2>3
  <2> QED BY <2>2, <2>4
<1>8. piece \in Seq(Digits \cup {Dash})
  <2>1. piece \in Seq(Chars)
    BY <1>1, <1>2, <1>3, <1>6, SubSeqProperties
  <2>2. ASSUME NEW j \in 1 .. m PROVE piece[j] \in Digits \cup {Dash}
    <3>1. j + b \in 1 .. n /\ j + b <= k - 1 /\ ~(j + b <= b)
      BY <1>2, <1>3, <1>5, <1>7
    <3>2. j + b \notin Ends(text)
      BY <1>3, <3>1
    <3>3. text[j + b] # Delimiter
      BY <1>2, <3>1, <3>2 DEF Ends
    <3>4. text[j + b] # Unrecognized
      BY <1>2, <3>1 DEF WellFormed
    <3>5. text[j + b] \in Chars
      BY <1>2, <3>1
    <3>6. piece[j] = text[j + b]
      BY <1>7
    <3> QED BY <3>3, <3>4, <3>5, <3>6 DEF Chars, Digits, Dash, Delimiter, Unrecognized
  <2> QED BY <1>7, <2>1, <2>2
<1>9. PICK h : h = [j \in 0 .. m |-> G[j + b]]
  OBVIOUS
<1>10. h[0] = FreshParser(D[b])
  <2>1. h[0] = G[0 + b] /\ 0 + b = b
    BY <1>3, <1>5, <1>9
  <2> QED BY <2>1
<1>11. Reads(h, piece, m, min, max)
  <2>1. ASSUME NEW j \in 1 .. m PROVE h[j] = ReadCharacter(h[j - 1], piece[j], min, max)
    <3>1. h[j] = G[j + b] /\ h[j - 1] = G[(j - 1) + b] /\ (j - 1) + b = (j + b) - 1
      BY <1>3, <1>5, <1>9
    <3>2. j + b \in 1 .. Len(text) /\ piece[j] = text[j + b]
      BY <1>1, <1>7
    <3>3. G[j + b] = ReadCharacter(G[(j + b) - 1], text[j + b], min, max)
      BY <3>2 DEF Parses
    <3> QED BY <3>1, <3>2, <3>3
  <2> QED BY <2>1 DEF Reads
<1>12. /\ Cardinality(Dashes(piece)) <= 1
       /\ Dashes(piece) # {} => Value(Start(piece)) < NoRange /\ Value(Finish(piece)) < Limit
  BY <1>4 DEF WellFormed, RangesFit
<1>13. /\ ReadCharacter(h[m], Delimiter, min, max) = FreshParser(D[b] \o PieceDenotes(piece, min, max))
       /\ PieceDenotes(piece, min, max) \in Seq(Nat)
  <2>1. Completes(h[m], D[b], piece, min, max)
    BY <1>5, <1>7, <1>8, <1>10, <1>11, <1>12, PieceRead
  <2> QED BY <2>1 DEF Completes
<1>14. h[m] = G[k - 1]
  BY <1>5, <1>9
<1>15. G[k] = ReadCharacter(G[k - 1], Delimiter, min, max)
  <2>1. CASE k = n + 1
    <3>1. k - 1 = n
      BY <1>2, <2>1
    <3> QED BY <1>1, <2>1, <3>1 DEF Parses
  <2>2. CASE k # n + 1
    <3>1. k \in 1 .. n /\ text[k] = Delimiter
      BY <1>1, <1>2, <2>2 DEF Ends
    <3> QED BY <1>1, <3>1 DEF Parses
  <2> QED BY <2>1, <2>2
<1> DEFINE S == {j \in 0 .. m : D[j + b] = D[b]}
<1>16. 0 \in S
  <2>1. 0 + b = b
    BY <1>3
  <2> QED BY <1>5, <2>1
<1>17. ASSUME NEW j \in 1 .. m, j - 1 \in S PROVE j \in S
  <2>1. j + b \in 1 .. Len(text) + 1 /\ (j - 1) + b = (j + b) - 1 /\ j + b <= k - 1 /\ ~(j + b <= b)
    <3>1. n \in Nat /\ k \in 1 .. n + 1 /\ b \in Nat /\ j \in 1 .. m /\ m + b = k - 1 /\ m \in Nat
      BY <1>2, <1>3, <1>5
    <3>2. j + b \in 1 .. n + 1 /\ (j - 1) + b = (j + b) - 1 /\ j + b <= k - 1 /\ ~(j + b <= b)
      BY <3>1
    <3> QED BY <1>1, <3>2
  <2>2. j + b \notin Ends(text)
    BY <1>3, <2>1
  <2>3. D[j + b] = D[(j + b) - 1]
    BY <2>1, <2>2 DEF Stands
  <2> QED BY <1>17, <2>1, <2>3
<1> HIDE DEF S
<1>18. D[k - 1] = D[b]
  <2>1. \A j \in 0 .. m : j \in S
    BY <1>5, <1>16, <1>17, ThenFold!FromZero
  <2>2. m \in S
    BY <1>5, <2>1
  <2> QED BY <1>5, <2>2 DEF S
<1>19. D[k] = D[b] \o PieceDenotes(piece, min, max)
  BY <1>1, <1>2, <1>4, <1>18 DEF Stands
<1>20. D[k] \in Seq(Nat)
  BY <1>13, <1>19
<1> QED BY <1>13, <1>14, <1>15, <1>19, <1>20

(***************************************************************************)
(* What the one pass gives for a text is what the documentation says the   *)
(* text stands for, piece by piece (String::parseNumberSequence()), as     *)
(* long as no piece has two dashes and no range a number that does not     *)
(* fit.                                                                    *)
(***************************************************************************)
THEOREM ParsedAsDenoted ==
    ASSUME NEW text \in Seq(Chars), WellFormed(text), RangesFit(text),
           NEW min \in Nat, min < NoRange, NEW max \in Nat, max > 0
    PROVE  /\ ParseNumberSequence(text, min, max) = FreshParser(Denotes(text, min, max))
           /\ Denotes(text, min, max) \in Seq(Nat)
<1>1. PICK n : n = Len(text)
  OBVIOUS
<1>2. n \in Nat /\ n + 1 \in Nat
  BY <1>1
<1>3. PICK G : Parses(G, text, min, max) /\ ParseNumberSequence(text, min, max) = G[n + 1]
  BY <1>1, ParserSteps
<1>4. PICK D : Stands(D, text, min, max) /\ Denotes(text, min, max) = D[n + 1]
  BY <1>1, MeaningSteps
<1> DEFINE SameAt(k) == k \in {0} \cup Ends(text) => G[k] = FreshParser(D[k]) /\ D[k] \in Seq(Nat)
           S == {k \in 0 .. n + 1 : \A j \in 0 .. k : SameAt(j)}
<1>5. 0 \in S
  <2>1. G[0] = FreshParser(D[0]) /\ D[0] \in Seq(Nat)
    BY <1>3, <1>4 DEF Parses, Stands
  <2>2. SameAt(0)
    BY <2>1
  <2>3. \A j \in 0 .. 0 : j = 0
    OBVIOUS
  <2>4. \A j \in 0 .. 0 : SameAt(j)
    BY <2>2, <2>3
  <2> QED BY <1>2, <2>4
<1>6. ASSUME NEW k \in 1 .. n + 1, k - 1 \in S PROVE k \in S
  <2>1. \A j \in 0 .. k - 1 : SameAt(j)
    BY <1>6
  <2>2. SameAt(k)
    <3>1. SUFFICES ASSUME k \in Ends(text) PROVE G[k] = FreshParser(D[k]) /\ D[k] \in Seq(Nat)
      OBVIOUS
    <3>2. PICK b : b = LastEnd(text, k - 1)
      OBVIOUS
    <3>3. k - 1 \in Nat
      BY <1>2
    <3>4. b \in {0} \cup Ends(text) /\ b \in 0 .. k - 1
      BY <3>2, <3>3, LastEndIs
    <3>5. G[b] = FreshParser(D[b]) /\ D[b] \in Seq(Nat)
      BY <2>1, <3>4
    <3> QED BY <1>3, <1>4, <3>1, <3>2, <3>5, PieceStep
  <2> HIDE DEF SameAt
  <2>3. \A j \in 0 .. k : j = k \/ j \in 0 .. k - 1
    BY <1>2
  <2>4. \A j \in 0 .. k : SameAt(j)
    BY <2>1, <2>2, <2>3
  <2>5. k \in 0 .. n + 1
    BY <1>2
  <2> QED BY <2>4, <2>5
<1> HIDE DEF S
<1>7. \A k \in 0 .. n + 1 : k \in S
  BY <1>2, <1>5, <1>6, ThenFold!FromZero
<1>8. SameAt(n + 1)
  <2>1. n + 1 \in S /\ n + 1 \in 0 .. n + 1
    BY <1>2, <1>7
  <2> QED BY <2>1 DEF S
<1>9. n + 1 \in Ends(text)
  BY <1>1 DEF Ends
<1> QED BY <1>3, <1>4, <1>8, <1>9

-----------------------------------------------------------------------------
(***************************************************************************)
(* Sequences kept, repeated and shuffled.                                  *)
(***************************************************************************)

\* Sequences of whatever they have.
IsSequence(q) == \E S : q \in Seq(S)

LEMMA SequenceIs ==
    ASSUME NEW q, IsSequence(q)
    PROVE  /\ Len(q) \in Nat /\ DOMAIN q = 1 .. Len(q)
           /\ q \in Seq({q[k] : k \in DOMAIN q})
<1>1. PICK S : q \in Seq(S)
  BY DEF IsSequence
<1>2. Len(q) \in Nat /\ DOMAIN q = 1 .. Len(q)
  BY <1>1
<1>3. \A k \in 1 .. Len(q) : q[k] \in {q[j] : j \in DOMAIN q}
  BY <1>2
<1>4. q \in Seq({q[j] : j \in DOMAIN q})
  BY <1>1, <1>2, <1>3
<1> QED BY <1>2, <1>4

WorkKeep(ids, kept, id) == IF id \in ids THEN Append(kept, id) ELSE kept
HoldKeep(ids, kept, k) == kept \in Seq(ids)
KeepFold == INSTANCE FoldFacts WITH Op <- WorkKeep, Holds <- HoldKeep

LEMMA KeepIsFold ==
    ASSUME NEW q, NEW ids
    PROVE  Keep(q, ids) = KeepFold!Fold(ids, <<>>, q)
BY DEF Keep, WorkKeep, FoldLeft, MapThenFoldSet, Max,
       KeepFold!Fold, KeepFold!FoldLeft, KeepFold!MapThenFoldSet, KeepFold!Max

LEMMA KeepTyped ==
    ASSUME NEW q, IsSequence(q), NEW ids
    PROVE  Keep(q, ids) \in Seq(ids)
<1>1. PICK n : n = Len(q)
  OBVIOUS
<1>2. n \in Nat /\ DOMAIN q = 1 .. n
  BY <1>1, SequenceIs
<1>3. HoldKeep(ids, <<>>, 0)
  BY DEF HoldKeep
<1>4. \A k \in 1 .. n : \A kept : HoldKeep(ids, kept, k - 1) => HoldKeep(ids, WorkKeep(ids, kept, q[k]), k)
  BY DEF HoldKeep, WorkKeep
<1>5. HoldKeep(ids, KeepFold!Fold(ids, <<>>, q), n)
  BY <1>2, <1>3, <1>4, KeepFold!FoldInvariant
<1> QED BY <1>5, KeepIsFold DEF HoldKeep

\* Rounds.

Times(id, q) == Cardinality({k \in DOMAIN q : q[k] = id})

LEMMA Wraps ==
    ASSUME NEW L \in Nat, L > 0, NEW k \in Nat, NEW j \in 0 .. L - 1
    PROVE  (k * L + j) % L = j
OBVIOUS

LEMMA OneMoreRound ==
    ASSUME NEW L \in Nat, NEW k \in Nat, k > 0
    PROVE  (k - 1) * L + L = k * L /\ k * L \in Nat /\ (k - 1) * L \in Nat
OBVIOUS

LEMMA TimesTyped ==
    ASSUME NEW n \in Nat, NEW q, DOMAIN q = 1 .. n, NEW id
    PROVE  Times(id, q) \in Nat /\ IsFiniteSet({k \in DOMAIN q : q[k] = id})
<1>1. IsFiniteSet(1 .. n)
  BY FS_Interval
<1>2. IsFiniteSet({k \in DOMAIN q : q[k] = id})
  BY <1>1, FS_Subset
<1> QED BY <1>2, FS_CardinalityType DEF Times

\* p gives every place of T one of S.
Moves(p, S, T) ==
    /\ p \in [S -> T]
    /\ \A x, y \in S : p[x] = p[y] => x = y
    /\ \A y \in T : \E x \in S : p[x] = y

LEMMA TimesMoved ==
    ASSUME NEW n \in Nat, NEW S, S \subseteq 1 .. n, NEW T, NEW p, Moves(p, S, T)
    PROVE  IsFiniteSet(T) /\ Cardinality(T) = Cardinality(S)
<1>1. IsFiniteSet(S)
  <2>1. IsFiniteSet(1 .. n)
    BY FS_Interval
  <2> QED BY <2>1, FS_Subset
<1>2. p \in Bijection(S, T)
  BY DEF Moves, Bijection, Injection, Surjection, IsInjective
<1>3. ExistsBijection(S, T)
  BY <1>2 DEF ExistsBijection
<1> QED BY <1>1, <1>3, FS_Bijection

LEMMA TimesConcat ==
    ASSUME NEW q, IsSequence(q), NEW s, IsSequence(s), NEW id
    PROVE  Times(id, q \o s) = Times(id, q) + Times(id, s)
<1>1. PICK m, n, t : m = Len(q) /\ n = Len(s) /\ t = q \o s
  OBVIOUS
<1>2. m \in Nat /\ n \in Nat /\ DOMAIN q = 1 .. m /\ DOMAIN s = 1 .. n
  BY <1>1, SequenceIs
<1>3. DOMAIN t = 1 .. m + n /\ \A k \in 1 .. m + n : t[k] = IF k <= m THEN q[k] ELSE s[k - m]
  BY <1>1, <1>2
<1>4. PICK A, B, C : /\ A = {k \in DOMAIN q : q[k] = id} /\ B = {k \in DOMAIN s : s[k] = id}
                     /\ C = {k + m : k \in B}
  OBVIOUS
<1>5. {k \in DOMAIN t : t[k] = id} = A \cup C
  <2>1. ASSUME NEW k \in DOMAIN t, t[k] = id PROVE k \in A \cup C
    <3>1. CASE k <= m
      BY <1>2, <1>3, <1>4, <2>1, <3>1
    <3>2. CASE ~(k <= m)
      <4>1. k - m \in B /\ (k - m) + m = k
        BY <1>2, <1>3, <1>4, <2>1, <3>2
      <4> QED BY <1>4, <4>1
    <3> QED BY <3>1, <3>2
  <2>2. ASSUME NEW k \in A PROVE k \in DOMAIN t /\ t[k] = id
    BY <1>2, <1>3, <1>4
  <2>3. ASSUME NEW k \in B PROVE k + m \in DOMAIN t /\ t[k + m] = id
    BY <1>2, <1>3, <1>4
  <2> QED BY <1>4, <2>1, <2>2, <2>3
<1>6. A \cap C = {}
  BY <1>2, <1>4
<1>7. IsFiniteSet(A) /\ IsFiniteSet(B) /\ Times(id, q) = Cardinality(A) /\ Times(id, s) = Cardinality(B)
  BY <1>2, <1>4, TimesTyped DEF Times
<1>8. IsFiniteSet(C) /\ Cardinality(C) = Cardinality(B)
  <2>1. PICK p : p = [k \in B |-> k + m]
    OBVIOUS
  <2>2. B \subseteq 1 .. n /\ p \in [B -> C] /\ \A y \in C : \E x \in B : p[x] = y
    BY <1>2, <1>4, <2>1
  <2>3. \A x, y \in B : p[x] = p[y] => x = y
    BY <1>2, <1>4, <2>1
  <2>4. Moves(p, B, C)
    BY <2>2, <2>3 DEF Moves
  <2> QED BY <1>2, <2>2, <2>4, TimesMoved
<1>9. Cardinality(A \cup C) = Cardinality(A) + Cardinality(C) - Cardinality(A \cap C)
  BY <1>7, <1>8, FS_Union
<1>10. Cardinality(A \cap C) = 0
  BY <1>6, FS_EmptySet
<1>11. Cardinality(A) \in Nat /\ Cardinality(C) \in Nat
  BY <1>7, <1>8, FS_CardinalityType
<1>12. Times(id, t) = Cardinality(A \cup C)
  BY <1>5 DEF Times
<1>13. Cardinality(A \cup C) = Cardinality(A) + Cardinality(C)
  BY <1>9, <1>10, <1>11
<1> QED BY <1>1, <1>7, <1>8, <1>12, <1>13

\* n times c, as far as acc goes.
Rounds(c, acc, n) ==
    /\ acc \in Seq({c[k] : k \in DOMAIN c})
    /\ Len(acc) = n * Len(c)
    /\ \A k \in 1 .. Len(acc) : acc[k] = c[((k - 1) % Len(c)) + 1]
    /\ \A id : Times(id, acc) = Times(id, c) * n

WorkRepeat(c, acc, k) == acc \o c
RepeatFold == INSTANCE FoldFacts WITH Op <- WorkRepeat, Holds <- Rounds

LEMMA RepeatedIsFold ==
    Repeated = RepeatFold!Fold(Selected, <<>>, [k \in 1 .. options.repeatAll |-> k])
BY DEF Repeated, WorkRepeat, FoldLeft, MapThenFoldSet, Max,
       RepeatFold!Fold, RepeatFold!FoldLeft, RepeatFold!MapThenFoldSet, RepeatFold!Max

LEMMA NoRound ==
    ASSUME NEW c, IsSequence(c)
    PROVE  Rounds(c, <<>>, 0)
<1>1. Len(c) \in Nat /\ DOMAIN c = 1 .. Len(c)
  BY SequenceIs
<1>2. <<>> \in Seq({c[k] : k \in DOMAIN c}) /\ Len(<<>>) = 0 * Len(c)
  BY <1>1
<1>3. ASSUME NEW id PROVE Times(id, <<>>) = Times(id, c) * 0
  <2>1. PICK t, q : t = Times(id, c) /\ q = <<>>
    OBVIOUS
  <2>2. t \in Nat
    BY <1>1, <2>1, TimesTyped
  <2>3. {k \in DOMAIN q : q[k] = id} = {}
    BY <2>1
  <2>4. Times(id, q) = 0
    BY <2>3, FS_EmptySet DEF Times
  <2>5. t * 0 = 0
    BY <2>2
  <2> QED BY <2>1, <2>4, <2>5
<1> QED BY <1>2, <1>3 DEF Rounds

LEMMA RoundAdded ==
    ASSUME NEW c, IsSequence(c), NEW n \in Nat, n > 0, NEW acc, Rounds(c, acc, n - 1)
    PROVE  Rounds(c, acc \o c, n)
<1>1. PICK R, L, m, t : R = {c[k] : k \in DOMAIN c} /\ L = Len(c) /\ m = Len(acc) /\ t = acc \o c
  OBVIOUS
<1>2. L \in Nat /\ DOMAIN c = 1 .. L /\ c \in Seq(R)
  BY <1>1, SequenceIs
<1>3. /\ acc \in Seq(R) /\ m = (n - 1) * L
      /\ \A k \in 1 .. m : acc[k] = c[((k - 1) % L) + 1]
      /\ \A id : Times(id, acc) = Times(id, c) * (n - 1)
  BY <1>1 DEF Rounds
<1>4. m \in Nat /\ DOMAIN acc = 1 .. m
  <2>1. acc \in Seq(R) /\ m = Len(acc)
    BY <1>1, <1>3
  <2> QED BY <2>1
<1>5. m + L = n * L
  <2>1. (n - 1) * L + L = n * L
    BY <1>2, OneMoreRound
  <2> QED BY <1>3, <2>1
<1>6. t \in Seq(R) /\ Len(t) = m + L /\ DOMAIN t = 1 .. m + L
      /\ \A k \in 1 .. m + L : t[k] = IF k <= m THEN acc[k] ELSE c[k - m]
  <2>1. acc \in Seq(R) /\ c \in Seq(R) /\ m = Len(acc) /\ L = Len(c) /\ t = acc \o c
    BY <1>1, <1>2, <1>3
  <2> QED BY <2>1
<1>7. ASSUME NEW k \in 1 .. m + L PROVE t[k] = c[((k - 1) % L) + 1]
  <2>1. CASE k <= m
    <3>1. k \in 1 .. m
      BY <2>1
    <3> QED BY <1>3, <1>6, <2>1, <3>1
  <2>2. CASE ~(k <= m)
    <3>1. PICK j : j = k - m - 1
      OBVIOUS
    <3>2. j \in 0 .. L - 1 /\ L > 0 /\ n - 1 \in Nat /\ k - 1 = m + j /\ k - m = j + 1
      BY <1>2, <1>4, <2>2, <3>1
    <3>3. ((n - 1) * L + j) % L = j
      BY <1>2, <3>2, Wraps
    <3>4. (k - 1) % L = j
      BY <1>3, <3>2, <3>3
    <3> QED BY <1>6, <2>2, <3>2, <3>4
  <2> QED BY <2>1, <2>2
<1>8. ASSUME NEW id PROVE Times(id, t) = Times(id, c) * n
  <2>1. PICK x : x = Times(id, c)
    OBVIOUS
  <2>2. x \in Nat
    BY <1>2, <2>1, TimesTyped
  <2>3. Times(id, t) = Times(id, acc) + x
    <3>1. IsSequence(acc)
      BY <1>3 DEF IsSequence
    <3> QED BY <1>1, <2>1, <3>1, TimesConcat
  <2>4. Times(id, acc) = x * (n - 1)
    BY <1>3, <2>1
  <2>5. x * (n - 1) + x = x * n
    <3>1. (n - 1) * x + x = n * x
      BY <2>2, OneMoreRound
    <3>2. (n - 1) * x = x * (n - 1) /\ n * x = x * n
      BY <2>2
    <3> QED BY <3>1, <3>2
  <2> QED BY <2>1, <2>3, <2>4, <2>5
<1> QED BY <1>1, <1>5, <1>6, <1>7, <1>8 DEF Rounds

\* exec() appends what is selected as often as --repeat-all says.
LEMMA RepeatedIs ==
    ASSUME IsSequence(Selected), options.repeatAll \in Nat
    PROVE  Rounds(Selected, Repeated, options.repeatAll)
<1>1. PICK c, n, s : c = Selected /\ n = options.repeatAll /\ s = [k \in 1 .. n |-> k]
  OBVIOUS
<1>2. n \in Nat /\ DOMAIN s = 1 .. n /\ IsSequence(c)
  BY <1>1
<1>3. Rounds(c, <<>>, 0)
  BY <1>2, NoRound
<1>4. ASSUME NEW k \in 1 .. n, NEW acc, Rounds(c, acc, k - 1) PROVE Rounds(c, WorkRepeat(c, acc, s[k]), k)
  <2>1. k \in Nat /\ k > 0
    BY <1>2
  <2>2. Rounds(c, acc \o c, k)
    BY <1>2, <1>4, <2>1, RoundAdded
  <2> QED BY <2>2 DEF WorkRepeat
<1>5. Rounds(c, RepeatFold!Fold(c, <<>>, s), n)
  BY <1>2, <1>3, <1>4, RepeatFold!FoldInvariant
<1> QED BY <1>1, <1>5, RepeatedIsFold

\* Another order of the same.
LEMMA ShuffledSame ==
    ASSUME NEW q, IsSequence(q), NEW r \in Shuffled(q)
    PROVE  /\ r \in Seq({q[k] : k \in DOMAIN q}) /\ Len(r) = Len(q)
           /\ \A id : Times(id, r) = Times(id, q)
<1>1. PICK n, R : n = Len(q) /\ R = {q[k] : k \in DOMAIN q}
  OBVIOUS
<1>2. n \in Nat /\ DOMAIN q = 1 .. n
  BY <1>1, SequenceIs
<1>3. PICK p : p \in Bijection(1 .. n, 1 .. n) /\ r = [k \in 1 .. n |-> q[p[k]]]
  BY <1>2 DEF Shuffled
<1>4. Moves(p, 1 .. n, 1 .. n)
  BY <1>3 DEF Moves, Bijection, Injection, Surjection, IsInjective
<1>5. p \in [1 .. n -> 1 .. n] /\ \A k \in 1 .. n : p[k] \in 1 .. n /\ r[k] = q[p[k]]
  BY <1>3, <1>4 DEF Moves
<1>6. r \in Seq(R) /\ Len(r) = n /\ DOMAIN r = 1 .. n
  <2>1. \A k \in 1 .. n : q[p[k]] \in R
    BY <1>1, <1>2, <1>5
  <2>2. r \in [1 .. n -> R]
    BY <1>3, <2>1
  <2> QED BY <1>2, <2>2
<1>7. ASSUME NEW id PROVE Times(id, r) = Times(id, q)
  <2>1. PICK A, B : A = {k \in 1 .. n : r[k] = id} /\ B = {k \in 1 .. n : q[k] = id}
    OBVIOUS
  <2>2. PICK h : h = [k \in A |-> p[k]]
    OBVIOUS
  <2>3. A \subseteq 1 .. n
    BY <2>1
  <2>4. \A k \in A : h[k] = p[k] /\ p[k] \in B
    BY <1>5, <2>1, <2>2
  <2>5. h \in [A -> B]
    BY <2>2, <2>4
  <2>6. \A x, y \in A : h[x] = h[y] => x = y
    BY <1>4, <2>3, <2>4 DEF Moves
  <2>7. ASSUME NEW y \in B PROVE \E x \in A : h[x] = y
    <3>1. y \in 1 .. n /\ q[y] = id
      BY <2>1
    <3>2. PICK x \in 1 .. n : p[x] = y
      BY <1>4, <3>1 DEF Moves
    <3>3. x \in A
      BY <1>5, <2>1, <3>1, <3>2
    <3> QED BY <2>4, <3>2, <3>3
  <2>8. Moves(h, A, B)
    BY <2>5, <2>6, <2>7 DEF Moves
  <2>9. Cardinality(B) = Cardinality(A)
    BY <1>2, <2>3, <2>8, TimesMoved
  <2> QED BY <1>2, <1>6, <2>1, <2>9 DEF Times
<1> QED BY <1>1, <1>6, <1>7

\* What exec() is given is typed, and its --only and --skip are texts the
\* meaning is stated for.
Fit ==
    /\ scenario # NoScenario
    /\ \E S : suite \in Seq(S)
    /\ \A id \in DOMAIN suite : suite[id].repeatCount \in Nat
    /\ options.skip \in Seq(Chars) /\ options.only \in Seq(Chars)
    /\ options.repeatAll \in Nat /\ options.repeatEvery \in Nat
    /\ WellFormed(options.only) /\ WellFormed(options.skip)
    /\ RangesFit(options.only) /\ RangesFit(options.skip)

LEMMA OptionsParsed ==
    ASSUME Fit, NEW text \in {options.skip, options.only}
    PROVE  /\ ParseNumberSequence(text, 1, Len(suite) + 1).out = Denotes(text, 1, Len(suite) + 1)
           /\ IsSequence(Denotes(text, 1, Len(suite) + 1))
<1>1. PICK max : max = Len(suite) + 1
  OBVIOUS
<1>2. max \in Nat /\ max > 0
  <2>1. IsSequence(suite)
    BY DEF Fit, IsSequence
  <2>2. Len(suite) \in Nat
    BY <2>1, SequenceIs
  <2> QED BY <1>1, <2>2
<1>3. 1 \in Nat /\ 1 < NoRange
  BY LimitAssumption DEF NoRange
<1>4. text \in Seq(Chars) /\ WellFormed(text) /\ RangesFit(text)
  BY DEF Fit
<1>5. /\ ParseNumberSequence(text, 1, max) = FreshParser(Denotes(text, 1, max))
      /\ Denotes(text, 1, max) \in Seq(Nat)
  BY <1>2, <1>3, <1>4, ParsedAsDenoted
<1>6. PICK out : out = Denotes(text, 1, max)
  OBVIOUS
<1>7. FreshParser(out).out = out
  BY DEF FreshParser
<1> QED BY <1>1, <1>5, <1>6, <1>7 DEF IsSequence

LEMMA SelectedIsWanted ==
    ASSUME Fit
    PROVE  Selected = Wanted /\ Selected \in Seq(DOMAIN suite)
<1>1. PICK all, skip, only :
            /\ all = [id \in DOMAIN suite |-> id]
            /\ skip = Denotes(options.skip, 1, Len(suite) + 1)
            /\ only = Denotes(options.only, 1, Len(suite) + 1)
  OBVIOUS
<1>2. /\ ParseNumberSequence(options.skip, 1, Len(suite) + 1).out = skip
      /\ ParseNumberSequence(options.only, 1, Len(suite) + 1).out = only
      /\ IsSequence(skip) /\ IsSequence(only)
  BY <1>1, OptionsParsed
<1>3. IsSequence(all) /\ IsSequence(suite)
  <2>1. IsSequence(suite)
    BY DEF Fit, IsSequence
  <2>2. Len(suite) \in Nat /\ DOMAIN suite = 1 .. Len(suite)
    BY <2>1, SequenceIs
  <2>3. all \in Seq(Nat)
    BY <1>1, <2>2
  <2> QED BY <2>1, <2>3 DEF IsSequence
<1>4. PICK stay : stay = {id \in DOMAIN suite : ~IsSkipped(id)}
  OBVIOUS
<1>5. stay = {id \in DOMAIN suite :
                    /\ suite[id].benchmark => ~options.skipBenchmarks
                    /\ ~suite[id].benchmark => ~options.skipTests
                    /\ id \notin Range(skip)}
  <2>1. ASSUME NEW id \in DOMAIN suite
        PROVE  ~IsSkipped(id) <=> /\ suite[id].benchmark => ~options.skipBenchmarks
                                  /\ ~suite[id].benchmark => ~options.skipTests
                                  /\ id \notin Range(skip)
    BY <1>2, Zenon DEF IsSkipped
  <2> QED BY <1>4, <2>1
<1>6. PICK q : q = IF options.only # <<>> THEN only ELSE all
  OBVIOUS
<1>7. Selected = Keep(q, stay)
  BY <1>1, <1>2, <1>4, <1>6 DEF Selected
<1>8. Wanted = Keep(q, stay)
  BY <1>1, <1>5, <1>6 DEF Wanted
<1>9. IsSequence(q)
  BY <1>2, <1>3, <1>6
<1>10. Keep(q, stay) \in Seq(stay)
  BY <1>9, KeepTyped
<1>11. stay \subseteq DOMAIN suite
  BY <1>4
<1>12. Keep(q, stay) \in Seq(DOMAIN suite)
  <2>1. PICK D, kept : D = DOMAIN suite /\ kept = Keep(q, stay)
    OBVIOUS
  <2>2. kept \in Seq(stay) /\ stay \subseteq D
    BY <1>10, <1>11, <2>1
  <2>3. \A k \in 1 .. Len(kept) : kept[k] \in D
    BY <2>2
  <2>4. kept \in Seq(D)
    BY <2>2, <2>3
  <2> QED BY <2>1, <2>4
<1> QED BY <1>7, <1>8, <1>12

\* The orders exec() may run them in.
Plans == IF options.shuffle THEN Shuffled(Repeated) ELSE {Repeated}

LEMMA PlansAre ==
    ASSUME Fit, NEW q \in Plans
    PROVE  /\ q \in Seq(DOMAIN suite) /\ Len(q) = options.repeatAll * Len(Wanted)
           /\ Len(Wanted) \in Nat
           /\ Repeated # <<>> <=> Len(q) # 0
           /\ \A id : Times(id, q) = Times(id, Wanted) * options.repeatAll
           /\ ~options.shuffle => \A k \in 1 .. Len(q) : q[k] = Wanted[((k - 1) % Len(Wanted)) + 1]
<1>1. PICK D, c, r, n : D = DOMAIN suite /\ c = Wanted /\ r = Repeated /\ n = options.repeatAll
  OBVIOUS
<1>2. c \in Seq(D) /\ c = Selected
  BY <1>1, SelectedIsWanted
<1>3. IsSequence(c)
  BY <1>2 DEF IsSequence
<1>4. Rounds(c, r, n)
  BY <1>1, <1>2, <1>3, RepeatedIs DEF Fit
<1>5. /\ r \in Seq({c[k] : k \in DOMAIN c}) /\ Len(r) = n * Len(c)
      /\ \A k \in 1 .. Len(r) : r[k] = c[((k - 1) % Len(c)) + 1]
      /\ \A id : Times(id, r) = Times(id, c) * n
  BY <1>4 DEF Rounds
<1>6. r \in Seq(D)
  <2>1. Len(c) \in Nat /\ DOMAIN c = 1 .. Len(c) /\ \A k \in DOMAIN c : c[k] \in D
    BY <1>2
  <2>2. \A k \in 1 .. Len(r) : r[k] \in {c[j] : j \in DOMAIN c}
    BY <1>5
  <2>3. \A k \in 1 .. Len(r) : r[k] \in D
    BY <2>1, <2>2
  <2>4. \E S : r \in Seq(S)
    BY <1>5
  <2> QED BY <2>3, <2>4
<1>7. q \in Seq(D) /\ Len(q) = Len(r) /\ \A id : Times(id, q) = Times(id, r)
  <2>1. CASE options.shuffle
    <3>1. q \in Shuffled(r) /\ IsSequence(r)
      BY <1>1, <1>6, <2>1 DEF Plans, IsSequence
    <3>2. /\ q \in Seq({r[k] : k \in DOMAIN r}) /\ Len(q) = Len(r)
          /\ \A id : Times(id, q) = Times(id, r)
      BY <3>1, ShuffledSame
    <3>3. \A k \in DOMAIN r : r[k] \in D
      BY <1>6
    <3>4. \A k \in 1 .. Len(q) : q[k] \in {r[j] : j \in DOMAIN r}
      BY <3>2
    <3>5. \A k \in 1 .. Len(q) : q[k] \in D
      BY <3>3, <3>4
    <3>6. \E S : q \in Seq(S)
      BY <3>2
    <3>7. q \in Seq(D)
      BY <3>5, <3>6
    <3> QED BY <3>2, <3>7
  <2>2. CASE ~options.shuffle
    <3>1. q = r
      BY <1>1, <2>2 DEF Plans
    <3> QED BY <1>6, <3>1
  <2> QED BY <2>1, <2>2
<1>8. ~options.shuffle => q = r
  BY <1>1 DEF Plans
<1>9. r # <<>> <=> Len(r) # 0
  BY <1>6
<1>10. Len(c) \in Nat
  BY <1>2
<1>11. \A id : Times(id, q) = Times(id, c) * n
  BY <1>5, <1>7
<1>12. ~options.shuffle => \A k \in 1 .. Len(q) : q[k] = c[((k - 1) % Len(c)) + 1]
  BY <1>5, <1>8
<1> QED BY <1>1, <1>5, <1>7, <1>9, <1>10, <1>11, <1>12

-----------------------------------------------------------------------------
(***************************************************************************)
(* The course of exec(): there is a plan, an order of what is selected and *)
(* repeated, whose first are the runs so far, the one under way included,  *)
(* and whose others are in the queue, unless --abort-on-fail emptied it.   *)
(***************************************************************************)

InCase == phase \in {"setup", "test", "teardown", "result", "terminated"}
At == Len(log) + IF InCase THEN 1 ELSE 0

\* The runs so far are the first of q.
Ahead(q) ==
    /\ At <= Len(q)
    /\ \A k \in 1 .. Len(log) : log[k].id = q[k]
    /\ InCase => case.id = q[At]

\* The queue has the others.
Rest(q) ==
    /\ IsSequence(queue) /\ Len(queue) = Len(q) - At
    /\ \A k \in 1 .. Len(queue) : queue[k] = q[At + k]

\* --abort-on-fail emptied it.
Cut ==
    /\ ~InCase /\ queue = <<>> /\ options.abortOnFail /\ Len(log) > 0
    /\ ~overlapped => log[Len(log)].verdict = "failed"

Follows(q) == Ahead(q) /\ (Rest(q) \/ Cut)

RepeatsSound ==
    /\ phase = "setup" => Len(checks) = case.repeat /\ case.repeat < RepeatCount(case.id)
    /\ phase \in {"test", "teardown"} => Len(checks) = case.repeat + 1 /\ case.repeat < RepeatCount(case.id)
    /\ phase = "result" /\ ~case.aborted => Len(checks) = RepeatCount(case.id)

LogSound ==
    ~overlapped => \A k \in 1 .. Len(log) :
        /\ log[k].verdict = "passed" => Len(log[k].checks) = RepeatCount(log[k].id)
        /\ log[k].verdict = "failed" /\ options.abortOnFail => k = Len(log) /\ ~InCase /\ queue = <<>>

Progress ==
    /\ RepeatsSound
    /\ LogSound
    /\ phase = "done" => queue = <<>>
    /\ \E q \in Plans : Follows(q)

Planned == Accepted /\ Repeated # <<>>

Course ==
    /\ phase = "configure" => log = <<>>
    /\ phase # "configure" /\ ~Planned => phase = "done" /\ log = <<>>
    /\ phase # "configure" /\ Planned /\ Fit => Progress

LEMMA SameScenario ==
    ASSUME UNCHANGED scenario
    PROVE  /\ Fit' <=> Fit
           /\ Planned' <=> Planned
           /\ UNCHANGED <<Plans, options, suite>>
           /\ \A id : RepeatCount(id)' = RepeatCount(id)
<1>1. UNCHANGED <<options, suite>>
  BY DEF options, suite
<1>2. UNCHANGED Repeated
  <2>1. UNCHANGED Selected
    <3>1. \A id : IsSkipped(id)' <=> IsSkipped(id)
      BY <1>1 DEF IsSkipped
    <3>2. PICK stay : stay = {id \in DOMAIN suite : ~IsSkipped(id)}
      OBVIOUS
    <3>3. stay = {id \in DOMAIN suite' : ~IsSkipped(id)'}
      BY <1>1, <3>1, <3>2
    <3>4. PICK q : q = IF options.only # <<>> THEN ParseNumberSequence(options.only, 1, Len(suite) + 1).out
                       ELSE [id \in DOMAIN suite |-> id]
      OBVIOUS
    <3>5. Selected = Keep(q, stay)
      BY <3>2, <3>4 DEF Selected
    <3>6. Selected' = Keep(q, stay)
      BY <1>1, <3>3, <3>4 DEF Selected
    <3> QED BY <3>5, <3>6
  <2>2. Repeated' = RepeatFold!Fold(Selected', <<>>, [k \in 1 .. options'.repeatAll |-> k])
    BY DEF Repeated, WorkRepeat, FoldLeft, MapThenFoldSet, Max,
           RepeatFold!Fold, RepeatFold!FoldLeft, RepeatFold!MapThenFoldSet, RepeatFold!Max
  <2>3. PICK s : s = [k \in 1 .. options.repeatAll |-> k]
    OBVIOUS
  <2>4. s = [k \in 1 .. options'.repeatAll |-> k]
    BY <1>1, <2>3
  <2>5. Repeated = RepeatFold!Fold(Selected, <<>>, s)
    BY <2>3, RepeatedIsFold
  <2> QED BY <2>1, <2>2, <2>4, <2>5
<1>3. Accepted' <=> Accepted
  BY <1>1 DEF Accepted, Readable, Repeats
<1>4. Fit' <=> Fit
  BY <1>1 DEF Fit
<1>5. UNCHANGED Plans
  BY <1>1, <1>2 DEF Plans
<1>6. \A id : RepeatCount(id)' = RepeatCount(id)
  BY <1>1 DEF RepeatCount
<1> QED BY <1>1, <1>2, <1>3, <1>4, <1>5, <1>6 DEF Planned

\* A step in a test function, or one that leaves it.
LEMMA FunctionKeepsCourse ==
    ASSUME Course, phase = "test", phase' \in {"test", "teardown", "terminated"},
           UNCHANGED <<scenario, log, queue>>, case'.id = case.id, case'.repeat = case.repeat,
           Len(checks') = Len(checks), overlapped => overlapped'
    PROVE  Course'
<1>1. Planned' /\ (Fit' => Progress)
  BY SameScenario DEF Course
<1>2. ASSUME Progress, Fit' PROVE Progress'
  <2>1. InCase /\ InCase' /\ At' = At
    BY DEF InCase, At
  <2>2. RepeatsSound'
    <3>1. RepeatCount(case.id)' = RepeatCount(case.id)
      BY SameScenario DEF RepeatCount
    <3> QED BY <1>2, <3>1 DEF Progress, RepeatsSound
  <2>3. LogSound'
    <3>1. \A k \in 1 .. Len(log) : RepeatCount(log[k].id)' = RepeatCount(log[k].id)
      BY SameScenario DEF RepeatCount
    <3> QED BY <1>2, <2>1, <3>1, SameScenario DEF Progress, LogSound
  <2>4. PICK q \in Plans : Follows(q)
    BY <1>2 DEF Progress
  <2>5. Ahead(q)' /\ Rest(q)'
    BY <2>1, <2>4 DEF Follows, Ahead, Rest, Cut
  <2> QED BY <2>2, <2>3, <2>4, <2>5, SameScenario DEF Progress, Follows
<1> QED BY <1>1, <1>2 DEF Course

LEMMA SetupKeepsCourse ==
    ASSUME Course, Accounts, Setup
    PROVE  Course'
<1>1. /\ phase = "setup" /\ phase' = "test" /\ UNCHANGED <<scenario, log, queue, case, overlapped>>
      /\ checks' = Append(checks, FALSE)
  BY DEF Setup
<1>2. Len(checks) \in Nat /\ Len(checks') = Len(checks) + 1
  BY <1>1, AppendProperties DEF Accounts, Recorded
<1>3. Planned' /\ (Fit' => Progress)
  BY <1>1, SameScenario DEF Course
<1>4. ASSUME Progress, Fit' PROVE Progress'
  <2>1. InCase /\ InCase' /\ At' = At
    BY <1>1 DEF InCase, At
  <2>2. RepeatsSound'
    <3>1. RepeatCount(case.id)' = RepeatCount(case.id)
      BY <1>1, SameScenario DEF RepeatCount
    <3> QED BY <1>1, <1>2, <1>4, <3>1 DEF Progress, RepeatsSound
  <2>3. LogSound'
    <3>1. \A k \in 1 .. Len(log) : RepeatCount(log[k].id)' = RepeatCount(log[k].id)
      BY <1>1, SameScenario DEF RepeatCount
    <3> QED BY <1>1, <1>4, <2>1, <3>1, SameScenario DEF Progress, LogSound
  <2>4. PICK q \in Plans : Follows(q)
    BY <1>4 DEF Progress
  <2>5. Ahead(q)' /\ Rest(q)'
    BY <1>1, <2>1, <2>4 DEF Follows, Ahead, Rest, Cut
  <2> QED BY <1>1, <2>2, <2>3, <2>4, <2>5, SameScenario DEF Progress, Follows
<1> QED BY <1>1, <1>3, <1>4 DEF Course

\* The cases of a plan are of the suite.
LEMMA CountsOfRepeats ==
    ASSUME Fit, NEW q \in Plans, NEW k \in 1 .. Len(q)
    PROVE  q[k] \in DOMAIN suite /\ RepeatCount(q[k]) \in Nat
<1>1. q \in Seq(DOMAIN suite)
  BY PlansAre
<1>2. PICK id : id = q[k]
  OBVIOUS
<1>3. id \in DOMAIN suite
  BY <1>1, <1>2
<1>4. PICK a, b : a = suite[id].repeatCount /\ b = options.repeatEvery
  OBVIOUS
<1>5. a \in Nat /\ b \in Nat
  BY <1>3, <1>4 DEF Fit
<1>6. a * b \in Nat
  BY <1>5
<1> QED BY <1>2, <1>3, <1>4, <1>6 DEF RepeatCount

LEMMA TearDownKeepsCourse ==
    ASSUME Course, Accounts, TearDown
    PROVE  Course'
<1>1. /\ phase = "teardown" /\ UNCHANGED <<scenario, log, queue, overlapped, checks>>
      /\ case' = [case EXCEPT !.repeat = @ + 1]
      /\ phase' = IF case'.repeat < RepeatCount(case.id) /\ ~case.aborted THEN "setup" ELSE "result"
  BY DEF TearDown, body
<1>2. case'.id = case.id /\ case'.repeat = case.repeat + 1 /\ case'.aborted = case.aborted /\ case.repeat \in Nat
  <2>1. case' = [id |-> case.id, repeat |-> case.repeat + 1, aborted |-> case.aborted, skipped |-> case.skipped]
    BY <1>1 DEF Accounts, Isolation, Shape
  <2> QED BY <2>1 DEF Accounts, Isolation, Shape
<1>3. Planned' /\ (Fit' => Progress) /\ (Fit' => Fit)
  BY <1>1, SameScenario DEF Course
<1>4. ASSUME Progress, Fit PROVE Progress'
  <2>1. InCase /\ InCase' /\ At' = At
    BY <1>1 DEF InCase, At
  <2>2. PICK q \in Plans : Follows(q)
    BY <1>4 DEF Progress
  <2>3. RepeatsSound'
    <3>1. RepeatCount(case.id)' = RepeatCount(case.id)
      BY <1>1, <1>2, SameScenario DEF RepeatCount
    <3>2. case.id = q[At] /\ At \in 1 .. Len(q)
      <4>1. Len(log) \in Nat
        BY AppendToAny DEF Accounts, Recorded
      <4>2. Len(q) \in Nat
        BY <1>4, PlansAre
      <4> QED BY <2>1, <2>2, <4>1, <4>2 DEF Follows, Ahead, At
    <3>3. RepeatCount(case.id) \in Nat
      BY <1>4, <3>2, CountsOfRepeats
    <3>4. Len(checks) = case.repeat + 1 /\ case.repeat < RepeatCount(case.id)
      BY <1>1, <1>4 DEF Progress, RepeatsSound
    <3>5. CASE phase' = "setup"
      BY <1>1, <1>2, <3>1, <3>4, <3>5 DEF RepeatsSound
    <3>6. CASE phase' = "result"
      <4>1. case.aborted \/ ~(case.repeat + 1 < RepeatCount(case.id))
        BY <1>1, <1>2, <3>6
      <4>2. ~case.aborted => Len(checks) = RepeatCount(case.id)
        BY <1>2, <3>3, <3>4, <4>1
      <4> QED BY <1>1, <1>2, <3>1, <3>6, <4>2 DEF RepeatsSound
    <3> QED BY <1>1, <3>5, <3>6
  <2>4. LogSound'
    <3>1. \A k \in 1 .. Len(log) : RepeatCount(log[k].id)' = RepeatCount(log[k].id)
      BY <1>1, SameScenario DEF RepeatCount
    <3> QED BY <1>1, <1>4, <2>1, <3>1, SameScenario DEF Progress, LogSound
  <2>5. Ahead(q)' /\ Rest(q)'
    BY <1>1, <1>2, <2>1, <2>2 DEF Follows, Ahead, Rest, Cut
  <2> QED BY <1>1, <2>2, <2>3, <2>4, <2>5, SameScenario DEF Progress, Follows
<1> QED BY <1>1, <1>3, <1>4 DEF Course

\* The next of the queue.
LEMMA NextOfQueue ==
    ASSUME NEW q, IsSequence(q), q # <<>>
    PROVE  /\ Len(q) \in Nat /\ Len(q) > 0 /\ Head(q) = q[1]
           /\ IsSequence(Tail(q)) /\ Len(Tail(q)) = Len(q) - 1
           /\ \A k \in 1 .. Len(q) - 1 : Tail(q)[k] = q[k + 1]
<1>1. PICK S : q \in Seq(S)
  BY DEF IsSequence
<1>2. Len(q) \in Nat /\ Len(q) > 0 /\ Head(q) = q[1]
  BY <1>1
<1>3. Tail(q) \in Seq(S) /\ Len(Tail(q)) = Len(q) - 1 /\ \A k \in 1 .. Len(q) - 1 : Tail(q)[k] = q[k + 1]
  BY <1>1
<1> QED BY <1>2, <1>3 DEF IsSequence

LEMMA StartCaseKeepsCourse ==
    ASSUME Course, Accounts, StartCase
    PROVE  Course'
<1>1. /\ phase = "next" /\ queue # <<>> /\ queue' = Tail(queue) /\ UNCHANGED <<scenario, log, overlapped>>
      /\ case' = [id |-> Head(queue), repeat |-> 0, aborted |-> FALSE, skipped |-> FALSE]
      /\ checks' = <<>>
      /\ phase' = IF RepeatCount(Head(queue)) > 0 THEN "setup" ELSE "result"
  BY DEF StartCase
<1>2. case'.id = Head(queue) /\ case'.repeat = 0 /\ Len(checks') = 0
  BY <1>1
<1>3. Planned' /\ (Fit' => Progress) /\ (Fit' => Fit)
  BY <1>1, SameScenario DEF Course
<1>4. Len(log) \in Nat
  BY AppendToAny DEF Accounts, Recorded
<1>5. ASSUME Progress, Fit PROVE Progress'
  <2>1. ~InCase /\ InCase' /\ At = Len(log) /\ At' = Len(log) + 1
    BY <1>1, <1>4 DEF InCase, At
  <2>2. PICK q \in Plans : Follows(q)
    BY <1>5 DEF Progress
  <2>3. Ahead(q) /\ Rest(q) /\ Len(q) \in Nat
    BY <1>1, <1>5, <2>2, PlansAre DEF Follows, Cut
  <2>4. /\ Len(queue) \in Nat /\ Len(queue) > 0 /\ Head(queue) = queue[1]
        /\ IsSequence(queue') /\ Len(queue') = Len(queue) - 1
        /\ \A k \in 1 .. Len(queue) - 1 : queue'[k] = queue[k + 1]
    BY <1>1, <2>3, NextOfQueue DEF Rest
  <2>5. Len(queue) = Len(q) - Len(log) /\ \A k \in 1 .. Len(queue) : queue[k] = q[Len(log) + k]
    BY <2>1, <2>3 DEF Rest
  <2>6. Len(log) + 1 \in 1 .. Len(q) /\ Head(queue) = q[Len(log) + 1]
    BY <1>4, <2>3, <2>4, <2>5
  <2>7. Ahead(q)'
    BY <1>1, <1>2, <2>1, <2>3, <2>6 DEF Ahead
  <2>8. Rest(q)'
    <3>1. Len(queue') = Len(q) - (Len(log) + 1)
      BY <1>4, <2>3, <2>4, <2>5
    <3>2. ASSUME NEW k \in 1 .. Len(queue') PROVE queue'[k] = q[(Len(log) + 1) + k]
      <4>1. k \in 1 .. Len(queue) - 1 /\ k + 1 \in 1 .. Len(queue) /\ Len(log) + (k + 1) = (Len(log) + 1) + k
        BY <1>4, <2>4
      <4>2. queue'[k] = queue[k + 1]
        BY <2>4, <4>1
      <4> QED BY <2>5, <4>1, <4>2
    <3> QED BY <2>1, <2>4, <3>1, <3>2 DEF Rest
  <2>9. RepeatsSound'
    <3>1. RepeatCount(Head(queue)) \in Nat
      BY <1>5, <2>6, CountsOfRepeats
    <3>2. RepeatCount(case.id)' = RepeatCount(Head(queue))
      BY <1>1, <1>2, SameScenario DEF RepeatCount
    <3> QED BY <1>1, <1>2, <3>1, <3>2 DEF RepeatsSound
  <2>10. LogSound'
    <3>1. \A k \in 1 .. Len(log) : RepeatCount(log[k].id)' = RepeatCount(log[k].id)
      BY <1>1, SameScenario DEF RepeatCount
    <3> QED BY <1>1, <1>5, <3>1, SameScenario DEF Progress, LogSound
  <2> QED BY <1>1, <2>2, <2>7, <2>8, <2>9, <2>10, SameScenario DEF Progress, Follows
<1> QED BY <1>1, <1>3, <1>5 DEF Course

LEMMA JudgeKeepsCourse ==
    ASSUME Course, Accounts, Judge
    PROVE  Course'
<1>1. /\ phase = "result" /\ phase' = "next" /\ log' = Append(log, Verdict)
      /\ queue' = IF case.aborted /\ ~case.skipped /\ options.abortOnFail THEN <<>> ELSE queue
      /\ UNCHANGED <<scenario, overlapped, checks, case>>
  BY DEF Judge, body
<1>2. PICK m : m = Len(log)
  OBVIOUS
<1>3. /\ m \in Nat /\ Len(log') = m + 1
      /\ \A k \in 1 .. m : log'[k] = log[k]
      /\ log'[m + 1] = Verdict
  BY <1>1, <1>2, AppendToAny DEF Accounts, Recorded
<1>4. Planned' /\ (Fit' => Progress) /\ (Fit' => Fit)
  BY <1>1, SameScenario DEF Course
<1>5. PICK run : run = Verdict
  OBVIOUS
<1>6. /\ run.id = case.id /\ run.checks = checks
      /\ run.verdict = CASE surprised -> "failed" [] ~surprised /\ case.skipped -> "skipped" [] OTHER -> "passed"
  BY <1>5 DEF Verdict
<1>7. ~overlapped => (run.verdict = "failed" <=> case.aborted /\ ~case.skipped)
                     /\ (run.verdict = "passed" => ~case.aborted)
  BY <1>1, <1>6 DEF Accounts, Blamed
<1>8. ASSUME Progress, Fit PROVE Progress'
  <2>1. InCase /\ ~InCase' /\ At = m + 1 /\ At' = m + 1
    BY <1>1, <1>2, <1>3 DEF InCase, At
  <2>2. PICK q \in Plans : Follows(q)
    BY <1>8 DEF Progress
  <2>3. Ahead(q) /\ Rest(q)
    BY <2>1, <2>2 DEF Follows, Cut
  <2>4. Ahead(q)'
    <3>1. log'[m + 1].id = q[m + 1]
      BY <1>3, <1>5, <1>6, <2>1, <2>3 DEF Ahead
    <3>2. ASSUME NEW k \in 1 .. m + 1 PROVE log'[k].id = q[k]
      <4>1. k \in 1 .. m \/ k = m + 1
        BY <1>3
      <4> QED BY <1>2, <1>3, <2>3, <3>1, <4>1 DEF Ahead
    <3> QED BY <1>3, <2>1, <2>3, <3>2 DEF Ahead
  <2>5. Rest(q)' \/ Cut'
    <3>1. CASE case.aborted /\ ~case.skipped /\ options.abortOnFail
      <4>1. queue' = <<>> /\ options'.abortOnFail /\ Len(log') > 0
        BY <1>1, <1>3, <3>1, SameScenario
      <4>2. ~overlapped' => log'[Len(log')].verdict = "failed"
        BY <1>1, <1>3, <1>5, <1>7, <3>1
      <4> QED BY <2>1, <4>1, <4>2 DEF Cut
    <3>2. CASE ~(case.aborted /\ ~case.skipped /\ options.abortOnFail)
      <4>1. queue' = queue
        BY <1>1, <3>2
      <4> QED BY <2>1, <2>3, <4>1 DEF Rest
    <3> QED BY <3>1, <3>2
  <2>6. RepeatsSound'
    BY <1>1 DEF RepeatsSound
  <2>7. LogSound'
    <3>1. SUFFICES ASSUME ~overlapped', NEW k \in 1 .. m + 1
                   PROVE  /\ log'[k].verdict = "passed" => Len(log'[k].checks) = suite'[log'[k].id].repeatCount * options'.repeatEvery
                          /\ log'[k].verdict = "failed" /\ options'.abortOnFail =>
                                k = m + 1 /\ queue' = <<>>
      BY <1>3, <2>1 DEF LogSound, RepeatCount
    <3>2. ~overlapped /\ options' = options /\ suite' = suite
      BY <1>1, <3>1, SameScenario
    <3>3. CASE k \in 1 .. m
      BY <1>2, <1>3, <1>8, <2>1, <3>2, <3>3 DEF Progress, LogSound, RepeatCount
    <3>4. CASE k = m + 1
      <4>1. log'[k] = run
        BY <1>3, <1>5, <3>4
      <4>2. ~case.aborted => Len(checks) = RepeatCount(case.id)
        BY <1>1, <1>8 DEF Progress, RepeatsSound
      <4> QED BY <1>1, <1>6, <1>7, <3>2, <3>4, <4>1, <4>2 DEF RepeatCount
    <3> QED BY <1>3, <3>3, <3>4
  <2> QED BY <1>1, <2>2, <2>4, <2>5, <2>6, <2>7, SameScenario DEF Progress, Follows
<1> QED BY <1>1, <1>4, <1>8 DEF Course

LEMMA PrepareKeepsCourse ==
    ASSUME Course, Prepare
    PROVE  Course'
<1>1. /\ phase = "configure" /\ phase' = "next" /\ UNCHANGED <<scenario, log, overlapped>>
      /\ Accepted /\ Repeated # <<>> /\ queue' \in Plans
  BY DEF Prepare, Plans
<1>2. Planned' /\ log = <<>>
  BY <1>1, SameScenario DEF Planned, Course
<1>3. PICK q : q = queue'
  OBVIOUS
<1>4. ASSUME Fit PROVE Progress'
  <2>1. q \in Seq(DOMAIN suite) /\ Len(q) \in Nat
    BY <1>1, <1>3, <1>4, PlansAre
  <2>2. ~InCase' /\ At' = 0 /\ Len(log') = 0
    BY <1>1, <1>2 DEF InCase, At
  <2>3. Ahead(q)' /\ Rest(q)'
    BY <1>3, <2>1, <2>2 DEF Ahead, Rest, IsSequence
  <2>4. RepeatsSound' /\ LogSound'
    BY <1>1, <2>2 DEF RepeatsSound, LogSound
  <2>5. q \in Plans'
    BY <1>1, <1>3, SameScenario
  <2> QED BY <1>1, <2>3, <2>4, <2>5 DEF Progress, Follows
<1> QED BY <1>1, <1>2, <1>4, SameScenario DEF Course

LEMMA WrapUpKeepsCourse ==
    ASSUME Course, WrapUp
    PROVE  Course'
<1>1. /\ phase = "next" /\ phase' = "done" /\ queue = <<>>
      /\ UNCHANGED <<scenario, log, overlapped, queue, case, checks>>
  BY DEF WrapUp, Exit, body
<1>2. Planned' /\ (Fit' => Progress)
  BY <1>1, SameScenario DEF Course
<1>3. ASSUME Progress, Fit' PROVE Progress'
  <2>1. ~InCase /\ ~InCase' /\ At' = At
    BY <1>1 DEF InCase, At
  <2>2. RepeatsSound'
    BY <1>1 DEF RepeatsSound
  <2>3. LogSound'
    <3>1. \A k \in 1 .. Len(log) : RepeatCount(log[k].id)' = RepeatCount(log[k].id)
      BY <1>1, SameScenario DEF RepeatCount
    <3> QED BY <1>1, <1>3, <2>1, <3>1, SameScenario DEF Progress, LogSound
  <2>4. PICK q \in Plans : Follows(q)
    BY <1>3 DEF Progress
  <2>5. Ahead(q)' /\ (Rest(q)' \/ Cut')
    BY <1>1, <2>1, <2>4, SameScenario DEF Follows, Ahead, Rest, Cut
  <2> QED BY <1>1, <2>2, <2>3, <2>4, <2>5, SameScenario DEF Progress, Follows
<1> QED BY <1>1, <1>2, <1>3 DEF Course

\* What no step in a test function touches.
Kept ==
    /\ phase = "test" /\ phase' \in {"test", "teardown", "terminated"}
    /\ UNCHANGED <<scenario, log, queue>>
    /\ case'.id = case.id /\ case'.repeat = case.repeat
    /\ Len(checks') = Len(checks)
    /\ overlapped => overlapped'

LEMMA LeaveKeeps ==
    ASSUME Accounts, NEW how, Leave(how)
    PROVE  phase' = "teardown" /\ case'.id = case.id /\ case'.repeat = case.repeat
<1>1. PICK a, s : a = (how # "returned") /\ s = (how = "skipped")
  OBVIOUS
<1>2. case' = [case EXCEPT !.aborted = a, !.skipped = s]
  BY <1>1 DEF Leave
<1>3. case' = [id |-> case.id, repeat |-> case.repeat, aborted |-> a, skipped |-> s]
  BY <1>2 DEF Accounts, Isolation, Shape
<1> QED BY <1>3 DEF Leave

LEMMA MarkKeeps ==
    ASSUME Accounts, checks' = [checks EXCEPT ![Len(checks)] = TRUE]
    PROVE  Len(checks') = Len(checks)
<1>1. checks \in Seq(BOOLEAN)
  BY DEF Accounts, Recorded
<1> QED BY <1>1

LEMMA ConcludeKeeps ==
    ASSUME Accounts, NEW failed, NEW checkCount, NEW diagnosticCount, Conclude(failed, checkCount, diagnosticCount)
    PROVE  Kept
<1>1. /\ phase = "test" /\ checks' = [checks EXCEPT ![Len(checks)] = TRUE]
      /\ UNCHANGED <<scenario, log, queue, overlapped>>
      /\ Leave("failed") \/ UNCHANGED <<phase, case>>
  BY DEF Conclude, Runs, harness
<1>2. Len(checks') = Len(checks)
  BY <1>1, MarkKeeps
<1>3. CASE Leave("failed")
  BY <1>1, <1>2, <1>3, LeaveKeeps DEF Kept
<1>4. CASE UNCHANGED <<phase, case>>
  BY <1>1, <1>2, <1>4 DEF Kept
<1> QED BY <1>1, <1>3, <1>4

LEMMA FunctionKeeps ==
    ASSUME Accounts, Macro \/ EndScope \/ Throw \/ Terminate \/ Return
    PROVE  Kept
<1>1. CASE \E failed \in BOOLEAN : Verify(failed) \/ FailIf(failed)
  BY <1>1, ConcludeKeeps DEF Verify, FailIf
<1>2. CASE \E failed, diagnostic \in BOOLEAN : CompareWith(failed, diagnostic)
  <2>1. PICK failed \in BOOLEAN, diagnostic \in BOOLEAN : CompareWith(failed, diagnostic)
    BY <1>2
  <2>2. \E n : Conclude(failed, 1, n)
    BY <2>1 DEF CompareWith
  <2> QED BY <2>2, ConcludeKeeps
<1>3. CASE Skip \/ Throw \/ Return
  <2>1. /\ phase = "test" /\ UNCHANGED <<scenario, log, queue, overlapped, checks>>
        /\ \E how : Leave(how)
    BY <1>3 DEF Skip, Throw, Return, Runs, harness
  <2> QED BY <2>1, LeaveKeeps DEF Kept
<1>4. CASE \E condition \in BOOLEAN : ExpectFail(condition)
  <2>1. PICK condition \in BOOLEAN : ExpectFail(condition)
    BY <1>4
  <2>2. /\ phase = "test" /\ UNCHANGED <<scenario, log, queue, checks, phase, case>>
        /\ overlapped => overlapped'
    BY <2>1 DEF ExpectFail, Open, Runs
  <2> QED BY <2>2 DEF Kept
<1>5. CASE Iteration \/ EndScope
  <2>1. phase = "test" /\ UNCHANGED <<scenario, log, queue, overlapped, checks, phase, case>>
    BY <1>5 DEF Iteration, EndScope, Open, Runs, harness
  <2> QED BY <2>1 DEF Kept
<1>6. CASE Benchmark
  <2>1. /\ phase = "test" /\ UNCHANGED <<scenario, log, queue, overlapped, phase, case>>
        /\ checks' = [checks EXCEPT ![Len(checks)] = TRUE]
    BY <1>6 DEF Benchmark, Open, Runs, harness
  <2> QED BY <2>1, MarkKeeps DEF Kept
<1>7. CASE Terminate
  <2>1. phase = "test" /\ phase' = "terminated" /\ UNCHANGED <<scenario, log, queue, overlapped, checks, case>>
    BY <1>7 DEF Terminate, Runs, harness, body
  <2> QED BY <2>1 DEF Kept
<1> QED BY <1>1, <1>2, <1>3, <1>4, <1>5, <1>6, <1>7 DEF Macro

LEMMA NextKeepsCourse ==
    ASSUME Course, Accounts, Next
    PROVE  Course'
<1>1. CASE Macro \/ EndScope \/ Throw \/ Terminate \/ Return
  BY <1>1, FunctionKeeps, FunctionKeepsCourse DEF Kept
<1>2. CASE RefuseOptions \/ NothingToTest
  <2>1. phase = "configure" /\ phase' = "done" /\ UNCHANGED <<scenario, log>>
    BY <1>2 DEF RefuseOptions, NothingToTest, Exit
  <2>2. ~Planned
    BY <1>2 DEF RefuseOptions, NothingToTest, Planned, Accepted
  <2> QED BY <2>1, <2>2, SameScenario DEF Course
<1> QED BY <1>1, <1>2, PrepareKeepsCourse, StartCaseKeepsCourse, SetupKeepsCourse, TearDownKeepsCourse,
           JudgeKeepsCourse, WrapUpKeepsCourse DEF Next

LEMMA ProgramKeepsCourse ==
    ASSUME Course, Accounts, [ProgramNext]_programVars
    PROVE  Course'
<1>1. CASE UNCHANGED vars
  <2>1. UNCHANGED <<scenario, log, queue, overlapped, checks, phase, case>>
    BY <1>1 DEF vars, harness, body
  <2>2. (Planned' <=> Planned) /\ (Fit' <=> Fit)
    BY <2>1, SameScenario
  <2>3. ASSUME Progress PROVE Progress'
    <3>1. (InCase' <=> InCase) /\ At' = At
      BY <2>1 DEF InCase, At
    <3>2. RepeatsSound'
      <4>1. RepeatCount(case.id)' = RepeatCount(case.id)
        BY <2>1, SameScenario DEF RepeatCount
      <4> QED BY <2>1, <2>3, <4>1 DEF Progress, RepeatsSound
    <3>3. LogSound'
      <4>1. \A k \in 1 .. Len(log) : RepeatCount(log[k].id)' = RepeatCount(log[k].id)
        BY <2>1, SameScenario DEF RepeatCount
      <4> QED BY <2>1, <2>3, <3>1, <4>1, SameScenario DEF Progress, LogSound
    <3>4. PICK q \in Plans : Follows(q)
      BY <2>3 DEF Progress
    <3>5. Ahead(q)' /\ (Rest(q)' \/ Cut')
      BY <2>1, <3>1, <3>4, SameScenario DEF Follows, Ahead, Rest, Cut
    <3> QED BY <2>1, <2>3, <3>2, <3>3, <3>4, <3>5, SameScenario DEF Progress, Follows
  <2> QED BY <2>1, <2>2, <2>3 DEF Course
<1>2. CASE ReadOptions
  BY <1>2 DEF ReadOptions, AtExec, Course
<1>3. CASE ParseExits
  <2>1. phase = "configure" /\ phase' = "done" /\ scenario = NoScenario /\ UNCHANGED <<scenario, log>>
    BY <1>3 DEF ParseExits, AtExec, Exit
  <2>2. ~Planned
    BY <2>1 DEF Planned, Accepted, NoScenario, options
  <2> QED BY <2>1, <2>2, SameScenario DEF Course
<1>4. CASE RunTests
  BY <1>4, NextKeepsCourse DEF RunTests
<1> QED BY <1>1, <1>2, <1>3, <1>4 DEF ProgramNext, programVars

\* The options are those of a program's suite.
Suited == program \in Programs /\ (scenario # NoScenario => suite = program.suite)

LEMMA FailKeepsProgram ==
    ASSUME NEW error, NEW reading, Fail(error, reading)
    PROVE  UNCHANGED program
BY DEF Fail, ReturnWith

LEMMA TakeKeepsProgram ==
    ASSUME NEW found, NEW reading, Take(found, reading)
    PROVE  UNCHANGED program
BY FailKeepsProgram DEF Take

LEMMA ParsingKeepsProgram ==
    ASSUME ParseNext
    PROVE  UNCHANGED program
<1>1. ASSUME Begin \/ OffsetsLeft \/ EndScan \/ AssignWords \/ CheckMissing PROVE UNCHANGED program
  BY <1>1 DEF Begin, OffsetsLeft, EndScan, AssignWords, CheckMissing, Abort, ReturnWith
<1>2. ASSUME ReadValue \/ ShortOption \/ Separator \/ LongOption \/ Word PROVE UNCHANGED program
  <2>1. CASE ReadValue
    BY <2>1 DEF ReadValue
  <2>2. CASE ShortOption
    BY <2>2, FailKeepsProgram, TakeKeepsProgram DEF ShortOption, PassOver
  <2>3. CASE Separator
    BY <2>3 DEF Separator
  <2>4. CASE LongOption
    <3>1. ASSUME NEW text, OwnOption(text) PROVE UNCHANGED program
      BY <3>1, FailKeepsProgram, TakeKeepsProgram DEF OwnOption, PassOver, Abort
    <3>2. ASSUME NEW text, SkipOption(text) PROVE UNCHANGED program
      BY <3>2 DEF SkipOption
    <3>3. PassOver => UNCHANGED program
      BY DEF PassOver
    <3>4. PassOver \/ SkipOption(Element) \/ OwnOption(Element)
      BY <2>4 DEF LongOption
    <3> QED BY <3>1, <3>2, <3>3, <3>4
  <2>5. CASE Word
    BY <2>5 DEF Word
  <2> QED BY <1>2, <2>1, <2>2, <2>3, <2>4, <2>5
<1> QED BY <1>1, <1>2 DEF ParseNext

LEMMA ProgramKeepsSuited ==
    ASSUME Suited, [ProgramNext]_programVars
    PROVE  Suited'
<1>1. UNCHANGED program
  <2>1. CASE ParseNext
    BY <2>1, ParsingKeepsProgram
  <2>2. CASE UNCHANGED parseVars
    BY <2>2 DEF parseVars
  <2> QED BY <2>1, <2>2 DEF ProgramNext, ParseExits, ReadOptions, RunTests, programVars, parseVars
<1>2. CASE UNCHANGED scenario
  BY <1>1, <1>2 DEF Suited, suite
<1>3. CASE ReadOptions
  BY <1>1, <1>3 DEF ReadOptions, Suited, suite
<1>4. UNCHANGED scenario \/ ReadOptions
  <2>1. ASSUME UNCHANGED vars \/ ParseExits PROVE UNCHANGED scenario
    BY <2>1 DEF vars, harness, ParseExits, Exit
  <2>2. ASSUME Next PROVE UNCHANGED scenario
    <3>1. ASSUME RefuseOptions \/ NothingToTest \/ Prepare \/ StartCase \/ Setup \/ TearDown \/ Judge \/ WrapUp
          PROVE  UNCHANGED scenario
      BY <3>1 DEF RefuseOptions, NothingToTest, Prepare, StartCase, Setup, TearDown, Judge, WrapUp, Exit
    <3>2. ASSUME EndScope \/ Throw \/ Terminate \/ Return PROVE UNCHANGED scenario
      BY <3>2 DEF EndScope, Throw, Terminate, Return, harness
    <3>3. ASSUME Macro PROVE UNCHANGED scenario
      BY <3>3 DEF Macro, Verify, FailIf, CompareWith, Conclude, Skip, ExpectFail, Iteration, Benchmark, harness
    <3> QED BY <2>2, <3>1, <3>2, <3>3 DEF Next
  <2> QED BY <2>1, <2>2 DEF ProgramNext, RunTests, programVars
<1> QED BY <1>2, <1>3, <1>4

LEMMA Fits ==
    ASSUME Suited, OptionsTyped, scenario # NoScenario,
           WellFormed(options.only), WellFormed(options.skip), RangesFit(options.only), RangesFit(options.skip)
    PROVE  Fit
<1>1. suite \in Seq([benchmark: BOOLEAN, repeatCount: Nat, fixture: BOOLEAN, calls: Nat])
  BY SuitesAssumption DEF Suited
<1>2. \A id \in DOMAIN suite : suite[id].repeatCount \in Nat
  <2>1. \A id \in DOMAIN suite : suite[id] \in [benchmark: BOOLEAN, repeatCount: Nat, fixture: BOOLEAN, calls: Nat]
    <3>1. PICK R : R = [benchmark: BOOLEAN, repeatCount: Nat, fixture: BOOLEAN, calls: Nat]
      OBVIOUS
    <3>2. PICK s : s = suite
      OBVIOUS
    <3>3. s \in Seq(R)
      BY <1>1, <3>1, <3>2
    <3>4. \A id \in DOMAIN s : s[id] \in R
      BY <3>3
    <3> QED BY <3>1, <3>2, <3>4
  <2> QED BY <2>1
<1>3. \E S : suite \in Seq(S)
  BY <1>1
<1>4. /\ options.skip \in Seq(Chars) /\ options.only \in Seq(Chars)
      /\ options.repeatAll \in Nat /\ options.repeatEvery \in Nat
  BY DEF OptionsTyped, Chars
<1> QED BY <1>2, <1>3, <1>4 DEF Fit

LEMMA WantedTimes ==
    ASSUME Fit
    PROVE  /\ Wanted \in Seq(DOMAIN suite)
           /\ Len(Repeated) = options.repeatAll * Len(Wanted)
           /\ Repeated = <<>> <=> Len(Repeated) = 0
<1>1. PICK c, r, n : c = Wanted /\ r = Repeated /\ n = options.repeatAll
  OBVIOUS
<1>2. c \in Seq(DOMAIN suite) /\ c = Selected
  BY <1>1, SelectedIsWanted
<1>3. IsSequence(c)
  BY <1>2 DEF IsSequence
<1>4. Rounds(c, r, n)
  BY <1>1, <1>2, <1>3, RepeatedIs DEF Fit
<1>5. Len(r) = n * Len(c) /\ \E S : r \in Seq(S)
  BY <1>4 DEF Rounds
<1>6. r = <<>> <=> Len(r) = 0
  BY <1>5
<1> QED BY <1>1, <1>2, <1>5, <1>6

\* The runs in the log are all of a plan, or the first of it.
LEMMA AllOrFirst ==
    ASSUME Progress, Fit, phase = "done", ~overlapped, NEW m \in Nat, m = Len(log)
    PROVE  \E q \in Plans :
            /\ m <= Len(q)
            /\ \A k \in 1 .. m : log[k].id = q[k]
            /\ \/ m = Len(q)
               \/ options.abortOnFail /\ m > 0 /\ log[m].verdict = "failed"
<1>1. PICK q \in Plans : Follows(q)
  BY DEF Progress
<1>2. ~InCase /\ At = m /\ queue = <<>>
  BY DEF InCase, At, Progress
<1>3. Ahead(q) /\ (Rest(q) \/ Cut)
  BY <1>1 DEF Follows
<1>4. Len(q) \in Nat
  <2>1. q \in Seq(DOMAIN suite)
    BY PlansAre
  <2> QED BY <2>1
<1>5. CASE Rest(q)
  <2>1. Len(queue) = Len(q) - m /\ Len(queue) = 0
    BY <1>2, <1>5 DEF Rest
  <2>2. m = Len(q)
    BY <1>4, <2>1
  <2> QED BY <1>2, <1>3, <2>2 DEF Ahead
<1>6. CASE Cut
  BY <1>2, <1>3, <1>6 DEF Ahead, Cut
<1> QED BY <1>3, <1>5, <1>6

\* The first of a plan, in the order of the selection.
LEMMA FollowsInOrder ==
    ASSUME Fit, ~options.shuffle, NEW q \in Plans, NEW m \in Nat, NEW ids, ids = [k \in 1 .. m |-> q[k]],
           m <= Len(q),
           \/ m = Len(q)
           \/ options.abortOnFail /\ \E k \in DOMAIN log : log[k].verdict = "failed"
    PROVE  RunInOrder(ids)
<1>1. PICK L, n : L = Len(Wanted) /\ n = options.repeatAll
  OBVIOUS
<1>2. /\ Len(q) = n * L /\ L \in Nat /\ n \in Nat
      /\ \A k \in 1 .. Len(q) : q[k] = Wanted[((k - 1) % L) + 1]
  BY <1>1, PlansAre DEF Fit
<1>3. Len(q) \in Nat /\ n * L = L * n
  BY <1>2
<1>4. DOMAIN ids = 1 .. m /\ Len(ids) = m
  OBVIOUS
<1>5. ASSUME NEW k \in 1 .. m PROVE ids[k] = Wanted[((k - 1) % L) + 1]
  <2>1. k \in 1 .. Len(q) /\ ids[k] = q[k]
    BY <1>3
  <2> QED BY <1>2, <2>1
<1>6. \/ options.abortOnFail /\ \E k \in DOMAIN log : log[k].verdict = "failed"
      \/ Len(ids) = L * n
  BY <1>2, <1>3, <1>4
<1> QED BY <1>1, <1>4, <1>5, <1>6 DEF RunInOrder

\* The first of a plan, whatever its order.
LEMMA FollowsShuffled ==
    ASSUME Fit, NEW q \in Plans, NEW m \in Nat, NEW ids, ids = [k \in 1 .. m |-> q[k]],
           m <= Len(q), m = Len(q) \/ options.abortOnFail
    PROVE  RunShuffled(ids)
<1>1. Len(q) \in Nat /\ DOMAIN q = 1 .. Len(q)
  <2>1. q \in Seq(DOMAIN suite)
    BY PlansAre
  <2> QED BY <2>1
<1>2. DOMAIN ids = 1 .. m /\ \A k \in 1 .. m : ids[k] = q[k]
  OBVIOUS
<1>3. ASSUME NEW id
      PROVE  \/ Times(id, ids) = Times(id, Wanted) * options.repeatAll
             \/ options.abortOnFail /\ Times(id, ids) < Times(id, Wanted) * options.repeatAll
  <2>1. PICK A, B : A = {k \in DOMAIN ids : ids[k] = id} /\ B = {k \in DOMAIN q : q[k] = id}
    OBVIOUS
  <2>2. A \subseteq B /\ (m = Len(q) => A = B)
    <3>1. 1 .. m \subseteq 1 .. Len(q)
      <4>1. PICK n : n = Len(q)
        OBVIOUS
      <4>2. n \in Nat /\ m <= n
        BY <1>1, <4>1
      <4>3. 1 .. m \subseteq 1 .. n
        BY <4>2
      <4> QED BY <4>1, <4>3
    <3>2. A = {k \in 1 .. m : q[k] = id} /\ B = {k \in 1 .. Len(q) : q[k] = id}
      <4>1. \A k \in 1 .. m : ids[k] = id <=> q[k] = id
        BY <1>2
      <4> QED BY <1>1, <1>2, <2>1, <4>1
    <3>3. A \subseteq B
      BY <3>1, <3>2
    <3>4. ASSUME m = Len(q) PROVE A = B
      BY <3>2, <3>4
    <3> QED BY <3>3, <3>4
  <2>3. IsFiniteSet(B) /\ Times(id, q) = Cardinality(B) /\ Times(id, ids) = Cardinality(A)
    <3>1. IsFiniteSet(DOMAIN q)
      <4>1. PICK n : n = Len(q)
        OBVIOUS
      <4>2. n \in Nat /\ DOMAIN q = 1 .. n
        BY <1>1, <4>1
      <4> QED BY <4>2, FS_Interval
    <3>2. IsFiniteSet(B)
      <4>1. B \subseteq DOMAIN q
        BY <2>1
      <4> QED BY <3>1, <4>1, FS_Subset
    <3> QED BY <2>1, <3>2 DEF Times
  <2>4. Cardinality(A) <= Cardinality(B) /\ IsFiniteSet(A)
    BY <2>2, <2>3, FS_Subset
  <2>5. Cardinality(A) \in Nat /\ Cardinality(B) \in Nat
    BY <2>3, <2>4, FS_CardinalityType
  <2>6. PICK t : t = Times(id, Wanted) * options.repeatAll
    OBVIOUS
  <2>7. Times(id, q) = t
    BY <2>6, PlansAre
  <2>8. Cardinality(A) = t \/ (options.abortOnFail /\ Cardinality(A) < t)
    <3>1. Cardinality(B) = t
      BY <2>3, <2>7
    <3>2. CASE m = Len(q)
      BY <2>2, <3>1, <3>2
    <3>3. CASE options.abortOnFail
      <4>1. Cardinality(A) = t \/ Cardinality(A) < t
        BY <2>4, <2>5, <3>1
      <4> QED BY <3>3, <4>1
    <3> QED BY <3>2, <3>3
  <2> QED BY <2>3, <2>6, <2>8
<1> QED BY <1>3 DEF RunShuffled, Times

LEMMA CourseMeans ==
    ASSUME Course, Accounts, Suited, OptionsTyped
    PROVE  RunsAsSelected
<1>1. SUFFICES ASSUME RangesFit(options.only), RangesFit(options.skip), phase = "done",
                      WellFormed(options.only), WellFormed(options.skip), ~overlapped
               PROVE  /\ LET ids == [k \in DOMAIN log |-> log[k].id] IN
                             IF ~Accepted \/ Wanted = <<>> THEN ids = <<>>
                          ELSE IF options.shuffle THEN RunShuffled(ids) ELSE RunInOrder(ids)
                      /\ \A k \in DOMAIN log :
                          /\ log[k].verdict = "failed" /\ options.abortOnFail => k = Len(log)
                          /\ log[k].verdict = "passed" =>
                              Len(log[k].checks) = suite[log[k].id].repeatCount * options.repeatEvery
  BY DEF RunsAsSelected, RunsAsAsked
<1>2. PICK m, ids : m = Len(log) /\ ids = [k \in DOMAIN log |-> log[k].id]
  OBVIOUS
<1>3. m \in Nat /\ DOMAIN log = 1 .. m
  BY <1>2, AppendToAny DEF Accounts, Recorded
<1>4. Fit \/ scenario = NoScenario
  BY <1>1, Fits
<1>5. CASE ~Planned
  <2>1. log = <<>>
    BY <1>1, <1>5 DEF Course
  <2>2. ids = <<>> /\ DOMAIN log = {}
    BY <1>2, <2>1
  <2>3. ~Accepted \/ Wanted = <<>>
    <3>1. CASE scenario = NoScenario
      BY <3>1 DEF Accepted, options, NoScenario
    <3>2. CASE Fit /\ Accepted
      <4>1. PICK L, n, c : L = Len(Wanted) /\ n = options.repeatAll /\ c = Wanted
        OBVIOUS
      <4>2. c \in Seq(DOMAIN suite) /\ Len(Repeated) = n * L /\ (Repeated = <<>> <=> Len(Repeated) = 0)
        BY <3>2, <4>1, WantedTimes
      <4>3. n * L = 0
        BY <1>5, <3>2, <4>2 DEF Planned
      <4>4. n \in Nat /\ n > 0 /\ L \in Nat
        BY <3>2, <4>1, <4>2 DEF Fit, Accepted, Repeats
      <4>5. L = 0
        BY <4>3, <4>4
      <4>6. c = <<>>
        <5>1. PICK D : D = DOMAIN suite
          OBVIOUS
        <5>2. c \in Seq(D) /\ Len(c) = 0
          BY <4>1, <4>2, <4>5, <5>1
        <5> QED BY <5>2, EmptySeq
      <4> QED BY <4>1, <4>6
    <3> QED BY <1>4, <3>1, <3>2
  <2> QED BY <1>2, <2>2, <2>3
<1>6. CASE Planned
  <2>1. Fit
    <3>1. scenario # NoScenario
      BY <1>6 DEF Planned, Accepted, options, NoScenario
    <3> QED BY <1>4, <3>1
  <2>2. Progress
    BY <1>1, <1>6, <2>1 DEF Course
  <2>3. PICK q \in Plans : /\ m <= Len(q)
                           /\ \A k \in 1 .. m : log[k].id = q[k]
                           /\ \/ m = Len(q)
                              \/ options.abortOnFail /\ m > 0 /\ log[m].verdict = "failed"
    BY <1>1, <1>2, <1>3, <2>1, <2>2, AllOrFirst
  <2>4. ids = [k \in 1 .. m |-> q[k]]
    BY <1>2, <1>3, <2>3
  <2>5. m = Len(q) \/ (options.abortOnFail /\ \E k \in DOMAIN log : log[k].verdict = "failed")
    BY <1>3, <2>3
  <2>6. Accepted /\ Wanted # <<>>
    <3>1. PICK L, n : L = Len(Wanted) /\ n = options.repeatAll
      OBVIOUS
    <3>2. Len(Repeated) = n * L /\ Len(Repeated) # 0 /\ n \in Nat
      BY <1>6, <2>1, <3>1, WantedTimes DEF Planned, Fit
    <3>3. L # 0
      BY <3>2
    <3>4. Wanted # <<>>
      BY <3>1, <3>3
    <3> QED BY <1>6, <3>4 DEF Planned
  <2>7. IF options.shuffle THEN RunShuffled(ids) ELSE RunInOrder(ids)
    <3>1. CASE options.shuffle
      BY <1>3, <2>1, <2>3, <2>4, <3>1, FollowsShuffled
    <3>2. CASE ~options.shuffle
      BY <1>3, <2>1, <2>3, <2>4, <2>5, <3>2, FollowsInOrder
    <3> QED BY <3>1, <3>2
  <2>8. \A k \in DOMAIN log :
            /\ log[k].verdict = "failed" /\ options.abortOnFail => k = Len(log)
            /\ log[k].verdict = "passed" =>
                Len(log[k].checks) = suite[log[k].id].repeatCount * options.repeatEvery
    BY <1>1, <1>2, <1>3, <2>2 DEF Progress, LogSound, RepeatCount
  <2> QED BY <1>2, <2>6, <2>7, <2>8
<1> QED BY <1>5, <1>6

(***************************************************************************)
(* The test cases that --only and --skip select run, each as often as      *)
(* --repeat-all says and in the order selected or, with --shuffle, in any; *)
(* with --abort-on-fail nothing runs after the first that fails; and what  *)
(* passed was repeated as often as it said, times --repeat-every           *)
(* (Tester::exec()).  The options are numbers and texts of the characters  *)
(* NumberSequence tells apart: Arguments gives strings, which have no      *)
(* characters for the provers.                                             *)
(***************************************************************************)
THEOREM RunsAlwaysAsSelected == ProgramSpec /\ []OptionsTyped => []RunsAsSelected
<1> DEFINE Inv == Course /\ Accounts /\ Suited
<1>1. ProgramInit => Inv
  <2>1. ASSUME ProgramInit PROVE Course
    BY <2>1 DEF ProgramInit, StartsWith, Course
  <2>2. ASSUME ProgramInit PROVE Suited
    <3>1. program \in Programs /\ scenario = NoScenario
      BY <2>2 DEF ProgramInit, StartsWith, ParseInit
    <3> QED BY <3>1 DEF Suited
  <2> QED BY <2>1, <2>2, StartsWithAccounts
<1>2. Inv /\ [ProgramNext]_programVars => Inv'
  BY ProgramKeepsCourse, ProgramKeepsAccounts, ProgramKeepsSuited
<1>3. Inv /\ OptionsTyped => RunsAsSelected
  BY CourseMeans
<1> QED BY <1>1, <1>2, <1>3, PTL DEF ProgramSpec
=============================================================================
