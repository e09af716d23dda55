----------------------------- MODULE SignalBus -----------------------------
(***************************************************************************)
(* What Corrade::Interconnect promises, without any of its mechanism: a    *)
(* relation of connections, and emissions that call every connected slot   *)
(* exactly once, in an unspecified order, whatever the slots themselves do *)
(* to the connections.  There is no counter, iterator, change flag or      *)
(* receiver-side list here; Interconnect.tla implements this module.       *)
(***************************************************************************)
EXTENDS Naturals, Sequences

CONSTANTS
    Emitters,       \* Emitter objects
    Receivers,      \* Receiver objects
    Signals,        \* signals of an emitter
    Connections,    \* names for connections, each reusable once removed
    NoReceiver,     \* the receiver of a connection to a plain function
    NoSlot,         \* an emission is between two slots
    Absent          \* the value of a name that stands for no connection

VARIABLES
    connected,      \* Connections -> [emitter, signal, receiver] or Absent
    emissions       \* stack of emissions in progress, innermost last

vars == <<connected, emissions>>

Link == [emitter: Emitters, signal: Signals, receiver: Receivers \cup {NoReceiver}]

\* running: the connection whose slot runs, gone or not; called: the connections
\* the emission has called
Emission == [emitter: Emitters, signal: Signals, running: Connections \cup {NoSlot},
             called: SUBSET Connections]

-----------------------------------------------------------------------------

Subscribed(e, s) == {c \in Connections : /\ connected[c] # Absent
                                         /\ connected[c].emitter = e
                                         /\ connected[c].signal = s}

\* Application code runs outside all emissions or in the slot called last.
ApplicationRuns == Len(emissions) > 0 => emissions[Len(emissions)].running # NoSlot

Connect(c, e, s, r) ==
    /\ ApplicationRuns
    /\ connected[c] = Absent
    /\ connected' = [connected EXCEPT ![c] = [emitter |-> e, signal |-> s, receiver |-> r]]
    /\ UNCHANGED emissions

\* Removing connections; the names are free again for every running emission.
Remove(C) ==
    /\ ApplicationRuns
    /\ connected' = [c \in Connections |-> IF c \in C THEN Absent ELSE connected[c]]
    /\ emissions' = [i \in DOMAIN emissions |->
                        [emissions[i] EXCEPT !.called = @ \ C]]

BeginEmission(e, s) ==
    /\ ApplicationRuns
    /\ emissions' = Append(emissions, [emitter |-> e, signal |-> s,
                                       running |-> NoSlot, called |-> {}])
    /\ UNCHANGED connected

\* Only a connected slot is called, and never twice by one emission.
Call(c) ==
    LET n == Len(emissions) IN
    /\ n > 0
    /\ emissions[n].running = NoSlot
    /\ c \in Subscribed(emissions[n].emitter, emissions[n].signal) \ emissions[n].called
    /\ emissions' = [emissions EXCEPT ![n].running = c, ![n].called = @ \cup {c}]
    /\ UNCHANGED connected

SlotReturns ==
    LET n == Len(emissions) IN
    /\ n > 0
    /\ emissions[n].running # NoSlot
    /\ emissions' = [emissions EXCEPT ![n].running = NoSlot]
    /\ UNCHANGED connected

\* An emission is over when every slot connected by then has been called.
EndEmission ==
    LET n == Len(emissions) IN
    /\ n > 0
    /\ emissions[n].running = NoSlot
    /\ Subscribed(emissions[n].emitter, emissions[n].signal) \subseteq emissions[n].called
    /\ emissions' = SubSeq(emissions, 1, n - 1)
    /\ UNCHANGED connected

-----------------------------------------------------------------------------

Init ==
    /\ connected = [c \in Connections |-> Absent]
    /\ emissions = <<>>

Next ==
    \/ \E c \in Connections, e \in Emitters, s \in Signals, r \in Receivers \cup {NoReceiver} :
            Connect(c, e, s, r)
    \/ \E C \in SUBSET Connections : Remove(C)
    \/ \E e \in Emitters, s \in Signals : BeginEmission(e, s)
    \/ \E c \in Connections : Call(c)
    \/ SlotReturns
    \/ EndEmission

Spec == Init /\ [][Next]_vars
=============================================================================
