---------------------------- MODULE StateMachine ----------------------------
(***************************************************************************)
(* Interconnect::StateMachine: a table of transitions and a current state. *)
(* step() emits three signals and only then changes the current state, so  *)
(* the slots run in between and may step the machine again or change the   *)
(* table.  steps has a frame for every call of step() that has not         *)
(* returned; its signal is the one whose slots are running.  How the slots *)
(* of one signal are called is the matter of Interconnect.tla.             *)
(***************************************************************************)
EXTENDS Naturals, Sequences

CONSTANTS
    States,     \* states of the machine
    First,      \* the state of value 0
    Inputs,     \* inputs of the machine
    MaxSteps,   \* bound on steps nested in slots, the outermost included
    MaxSignals  \* bound on the signals emitted

ASSUME MachineAssumption ==
    /\ First \in States
    /\ MaxSteps \in Nat
    /\ MaxSignals \in Nat

VARIABLES
    transitions,    \* the table: States -> Inputs -> States
    current,        \* the current state
    steps,          \* steps in progress, innermost last
    signals,        \* history: the signals emitted, with their states
    nested,         \* history: a slot has stepped the machine to another state
    target          \* history: where the outermost step called last has to lead

machineVars == <<transitions, current, steps, signals, nested, target>>

StepFrame == [next: States, signal: {"exited", "stepped", "entered"}]

\* previous: the state exited, next: the state entered, by this signal's account.
Signal == [signal: {"exited", "stepped", "entered"}, previous: States, next: States]

MachineTypeOK ==
    /\ transitions \in [States -> [Inputs -> States]]
    /\ current \in States
    /\ steps \in Seq(StepFrame)
    /\ signals \in Seq(Signal)
    /\ nested \in BOOLEAN
    /\ target \in States

-----------------------------------------------------------------------------

Idle == steps = <<>>

Innermost == Len(steps)

\* All states are a no-op for every input at first.
MachineInit ==
    /\ transitions = [s \in States |-> [i \in Inputs |-> s]]
    /\ current = First
    /\ steps = <<>>
    /\ signals = <<>>
    /\ nested = FALSE
    /\ target = First

\* The application, or a slot, adds a transition.
AddTransition(from, input, to) ==
    /\ transitions' = [transitions EXCEPT ![from][input] = to]
    /\ UNCHANGED <<current, steps, signals, nested, target>>

EmitSignal(signal, previous, next) ==
    signals' = Append(signals, [signal |-> signal, previous |-> previous, next |-> next])

\* The application, or a slot, calls step(): nothing to do for the same state.
StepStays(input) ==
    /\ transitions[current][input] = current
    /\ target' = IF Idle THEN current ELSE target
    /\ UNCHANGED <<transitions, current, steps, signals, nested>>

Step(input) ==
    LET next == transitions[current][input] IN
    /\ next # current
    /\ Innermost < MaxSteps
    /\ Len(signals) + 3 * (Innermost + 1) <= MaxSignals
    /\ steps' = Append(steps, [next |-> next, signal |-> "exited"])
    /\ EmitSignal("exited", current, next)
    /\ nested' = (nested \/ ~Idle)
    /\ target' = IF Idle THEN next ELSE target
    /\ UNCHANGED <<transitions, current>>

\* The slots of exited() have returned; what they did to the current state shows.
ExitedReturns ==
    /\ ~Idle
    /\ steps[Innermost].signal = "exited"
    /\ steps' = [steps EXCEPT ![Innermost].signal = "stepped"]
    /\ EmitSignal("stepped", current, steps[Innermost].next)
    /\ UNCHANGED <<transitions, current, nested, target>>

\* Mutant: the state is set before its signal.
SteppedReturns_Mutant ==
    /\ ~Idle
    /\ steps[Innermost].signal = "stepped"
    /\ steps' = [steps EXCEPT ![Innermost].signal = "entered"]
    /\ current' = steps[Innermost].next
    /\ EmitSignal("entered", current', steps[Innermost].next)
    /\ UNCHANGED <<transitions, nested, target>>

SteppedReturns ==
    /\ ~Idle
    /\ steps[Innermost].signal = "stepped"
    /\ steps' = [steps EXCEPT ![Innermost].signal = "entered"]
    /\ EmitSignal("entered", current, steps[Innermost].next)
    /\ UNCHANGED <<transitions, current, nested, target>>

\* Mutant: what a slot has stepped to stays.
EnteredReturns_Mutant ==
    /\ ~Idle
    /\ steps[Innermost].signal = "entered"
    /\ current' = IF nested /\ Innermost = 1 THEN current ELSE steps[Innermost].next
    /\ steps' = SubSeq(steps, 1, Innermost - 1)
    /\ UNCHANGED <<transitions, signals, nested, target>>

EnteredReturns ==
    /\ ~Idle
    /\ steps[Innermost].signal = "entered"
    /\ current' = steps[Innermost].next
    /\ steps' = SubSeq(steps, 1, Innermost - 1)
    /\ UNCHANGED <<transitions, signals, nested, target>>

MachineNext ==
    \/ \E from, to \in States, input \in Inputs : AddTransition(from, input, to)
    \/ \E input \in Inputs : StepStays(input) \/ Step(input)
    \/ ExitedReturns
    \/ SteppedReturns
    \/ EnteredReturns

MachineSpec == MachineInit /\ [][MachineNext]_machineVars

-----------------------------------------------------------------------------

(***************************************************************************)
(* Whatever the slots do, the machine ends where the outermost step led    *)
(* when it was called: the result of a step made by a slot is overwritten, *)
(* and a transition changed meanwhile does not count (step()).             *)
(***************************************************************************)
OutermostStepWins == Idle => current = target

(***************************************************************************)
(* As long as no slot steps the machine, the signals tell its path: three  *)
(* by three, exited(), stepped() and entered() name the same two different *)
(* states, each step starts where the one before ended, and the current    *)
(* state is the one entered last.                                          *)
(***************************************************************************)
SignalsTellPath ==
    ~nested =>
        /\ \A k \in DOMAIN signals :
            /\ signals[k].previous # signals[k].next
            /\ signals[k].signal = CASE k % 3 = 1 -> "exited" [] k % 3 = 2 -> "stepped" [] OTHER -> "entered"
            /\ k % 3 # 1 => /\ signals[k].previous = signals[k - 1].previous
                            /\ signals[k].next = signals[k - 1].next
            /\ k % 3 = 1 => signals[k].previous = IF k = 1 THEN First ELSE signals[k - 1].next
        /\ Idle => current = IF signals = <<>> THEN First ELSE signals[Len(signals)].next
=============================================================================
