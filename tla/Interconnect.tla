--------------------------- MODULE Interconnect ---------------------------
(***************************************************************************)
(* Signals and slots of src/src/Corrade/Interconnect (Emitter, Receiver,   *)
(* Connection).  The library is single-threaded; what interleaves is the   *)
(* emission loop of Emitter::emit() with the slots it calls, which may     *)
(* connect, disconnect, destroy receivers, create objects and emit again.  *)
(*                                                                         *)
(* A connection is a node of the emitter's unordered_multimap and is known *)
(* by the node's address: receivers and Connection handles store that      *)
(* address, and a freed address can be handed out again.  The order of     *)
(* equal keys in the multimap is unspecified, so an emission visits the    *)
(* nodes still ahead of its iterator in any order.                         *)
(***************************************************************************)
EXTENDS Naturals, FiniteSets, Sequences

CONSTANTS
    Emitters,           \* storage for Emitter objects
    Receivers,          \* storage for Receiver objects
    Signals,            \* the signals (SignalData values) of an emitter
    Addresses,          \* node addresses the allocator hands out
    NoReceiver,         \* the receiver of a connection to a function
    NoNode,             \* the iterator of an emission that is not in a slot
    Freed,              \* content of an address that holds no node
    CounterValues,      \* the counter of emissions has values 0 .. CounterValues - 1
    WrapAround,         \* whether an emitter may emit so often that it wraps
    NestSameEmitter,    \* whether slots emit on an emitter that is emitting
    MaxDepth,           \* bound: emissions nested in one another
    MaxHandles          \* bound: Connection handles the application keeps

ASSUME InterconnectAssumption ==
    /\ NoReceiver \notin Receivers
    /\ NoNode \notin Addresses
    /\ Freed \notin [emitter: Emitters, signal: Signals,
                     receiver: Receivers \cup {NoReceiver}, lastHandledSignal: Nat]
    /\ Freed \notin [emitter: Emitters, signal: Signals, receiver: Receivers \cup {NoReceiver}]
    /\ CounterValues \in Nat \ {0}
    /\ WrapAround \in BOOLEAN
    /\ NestSameEmitter \in BOOLEAN
    /\ MaxDepth \in Nat
    /\ MaxHandles \in Nat

VARIABLES
    emitters,               \* the Emitter objects alive
    receivers,              \* the Receiver objects alive
    connections,            \* Emitter::_connections: node address -> ConnectionData
    receiverConnections,    \* Receiver::_connections
    lastHandledSignal,      \* Emitter::_lastHandledSignal
    connectionsChanged,     \* Emitter::_connectionsChanged
    frames,                 \* emit() calls on the stack, innermost last
    handles                 \* Connection objects the application keeps

vars == <<emitters, receivers, connections, receiverConnections,
          lastHandledSignal, connectionsChanged, frames, handles>>

Counter == 0 .. CounterValues - 1

ConnectionData == [emitter: Emitters, signal: Signals,
                   receiver: Receivers \cup {NoReceiver}, lastHandledSignal: Counter]

\* Both Implementation::ReceiverConnection and Connection: where to find a node.
Reference == [emitter: Emitters, signal: Signals, data: Addresses]

\* One emit() call.  at is the node whose slot is running, ahead the nodes from
\* the iterator to range.second.  called is history: the nodes this call has
\* called and that were not removed since; no guard reads it.
Frame == [emitter: Emitters, signal: Signals, at: Addresses \cup {NoNode},
          ahead: SUBSET Addresses, called: SUBSET Addresses]

-----------------------------------------------------------------------------

Nodes == {a \in Addresses : connections[a] # Freed}

NodesOf(e) == {a \in Nodes : connections[a].emitter = e}

\* _connections.equal_range(signal)
EqualRange(e, s) == {a \in NodesOf(e) : connections[a].signal = s}

Entry(a) == [emitter |-> connections[a].emitter, signal |-> connections[a].signal, data |-> a]

IsConnected(h) == h.data \in EqualRange(h.emitter, h.signal)

Depth == Len(frames)

Top == frames[Depth]

\* Application code runs outside all emissions or in the slot called last.
ApplicationRuns == Depth > 0 => Top.at # NoNode

Emitting == {frames[i].emitter : i \in DOMAIN frames}

\* Nodes leave the multimap; a history without them.
Erase(A) ==
    /\ connections' = [a \in Addresses |-> IF a \in A THEN Freed ELSE connections[a]]
    /\ frames' = [i \in DOMAIN frames |-> [frames[i] EXCEPT !.called = @ \ A]]

\* Mutant: the entry stays in the receiver's list.
DisconnectFromReceiver_Mutant(A) == UNCHANGED receiverConnections

\* Emitter::disconnectFromReceiver() for every node of A: the entry that points
\* to the node goes from the receiver the node names.
DisconnectFromReceiver(A) ==
    receiverConnections' = [r \in Receivers |->
        {x \in receiverConnections[r] :
            ~(x.data \in A /\ connections[x.data].receiver = r)}]

\* _connectionsChanged = true
TellEmission(e) == connectionsChanged' = [connectionsChanged EXCEPT ![e] = TRUE]

-----------------------------------------------------------------------------
\* The application's operations.

ConstructEmitter(e) ==
    /\ ApplicationRuns
    /\ e \notin emitters
    /\ emitters' = emitters \cup {e}
    /\ lastHandledSignal' = [lastHandledSignal EXCEPT ![e] = 0]
    /\ connectionsChanged' = [connectionsChanged EXCEPT ![e] = FALSE]
    /\ UNCHANGED <<receivers, connections, receiverConnections, frames, handles>>

\* ~Emitter().  Destroying an emitter during its own emission is documented as
\* undefined, so it is not a step of a correct application.
DestroyEmitter(e) ==
    /\ ApplicationRuns
    /\ e \in emitters \ Emitting
    /\ emitters' = emitters \ {e}
    /\ DisconnectFromReceiver(NodesOf(e))
    /\ Erase(NodesOf(e))
    /\ UNCHANGED <<receivers, lastHandledSignal, connectionsChanged, handles>>

ConstructReceiver(r) ==
    /\ ApplicationRuns
    /\ r \notin receivers
    /\ receivers' = receivers \cup {r}
    /\ receiverConnections' = [receiverConnections EXCEPT ![r] = {}]
    /\ UNCHANGED <<emitters, connections, lastHandledSignal, connectionsChanged,
                   frames, handles>>

\* connect() and Emitter::connectInternal(), for a member slot (r a receiver) or
\* a function (r = NoReceiver).  The application keeps the handle or drops it.
Connect(e, s, r, a) ==
    /\ ApplicationRuns
    /\ e \in emitters
    /\ r \in receivers \cup {NoReceiver}
    /\ connections[a] = Freed
    /\ connections' = [connections EXCEPT ![a] =
            [emitter |-> e, signal |-> s, receiver |-> r, lastHandledSignal |-> 0]]
    /\ TellEmission(e)
    /\ receiverConnections' = IF r = NoReceiver THEN receiverConnections
            ELSE [receiverConnections EXCEPT ![r] = @ \cup {[emitter |-> e, signal |-> s, data |-> a]}]
    /\ handles' \in {H \in SUBSET (handles \cup {[emitter |-> e, signal |-> s, data |-> a]}) :
                        Cardinality(H) <= MaxHandles}
    /\ UNCHANGED <<emitters, receivers, lastHandledSignal, frames>>

\* Interconnect::disconnect(emitter, connection); nothing happens when it
\* returns false.
Disconnect(h) ==
    /\ ApplicationRuns
    /\ h.emitter \in emitters
    /\ IsConnected(h)
    /\ DisconnectFromReceiver({h.data})
    /\ Erase({h.data})
    /\ TellEmission(h.emitter)
    /\ UNCHANGED <<emitters, receivers, lastHandledSignal, handles>>

\* Emitter::disconnectSignal() and disconnectInternal()
DisconnectSignal(e, s) ==
    /\ ApplicationRuns
    /\ e \in emitters
    /\ DisconnectFromReceiver(EqualRange(e, s))
    /\ Erase(EqualRange(e, s))
    /\ TellEmission(e)
    /\ UNCHANGED <<emitters, receivers, lastHandledSignal, handles>>

DisconnectAllSignals(e) ==
    /\ ApplicationRuns
    /\ e \in emitters
    /\ DisconnectFromReceiver(NodesOf(e))
    /\ Erase(NodesOf(e))
    /\ TellEmission(e)
    /\ UNCHANGED <<emitters, receivers, lastHandledSignal, handles>>

\* Mutant: only connections to signals of emitters not emitting are removed.
Found_Mutant(r) == {x \in receiverConnections[r] : x.emitter \notin Emitting}

\* The connections Receiver::disconnectAllSlots() finds through its own list.
Found(r) == {x \in receiverConnections[r] : IsConnected(x)}

\* Mutant: a running emission is not told.
ClearSlots_Mutant(r) ==
    /\ Erase({x.data : x \in Found(r)})
    /\ receiverConnections' = [receiverConnections EXCEPT ![r] = {}]
    /\ UNCHANGED connectionsChanged

ClearSlots(r) ==
    /\ Erase({x.data : x \in Found(r)})
    /\ connectionsChanged' = [e \in Emitters |->
            connectionsChanged[e] \/ \E x \in Found(r) : x.emitter = e]
    /\ receiverConnections' = [receiverConnections EXCEPT ![r] = {}]

DisconnectAllSlots(r) ==
    /\ ApplicationRuns
    /\ r \in receivers
    /\ ClearSlots(r)
    /\ UNCHANGED <<emitters, receivers, lastHandledSignal, handles>>

\* ~Receiver(), which a slot of the receiver itself may run.
DestroyReceiver(r) ==
    /\ ApplicationRuns
    /\ r \in receivers
    /\ receivers' = receivers \ {r}
    /\ ClearSlots(r)
    /\ UNCHANGED <<emitters, lastHandledSignal, handles>>

-----------------------------------------------------------------------------
\* Emitter::emit()

\* ++_lastHandledSignal
NextSignal(e) == (lastHandledSignal[e] + 1) % CounterValues

Emit(e, s) ==
    /\ ApplicationRuns
    /\ e \in emitters
    /\ Depth < MaxDepth
    /\ e \in Emitting => NestSameEmitter
    /\ ~WrapAround => lastHandledSignal[e] + 1 < CounterValues
    /\ connectionsChanged' = [connectionsChanged EXCEPT ![e] = FALSE]
    /\ lastHandledSignal' = [lastHandledSignal EXCEPT ![e] = NextSignal(e)]
    /\ frames' = Append(frames, [emitter |-> e, signal |-> s, at |-> NoNode,
                                 ahead |-> EqualRange(e, s), called |-> {}])
    /\ UNCHANGED <<emitters, receivers, connections, receiverConnections, handles>>

\* The iterator is at a node: call its slot, unless the node is marked with the
\* current emission.  (What follows a read of a freed node is not modelled.)
Handled(a) == connections[a].lastHandledSignal = lastHandledSignal[Top.emitter]

\* Mutant: the node is not marked before its slot runs.
Mark_Mutant(a) == UNCHANGED connections

\* data.lastHandledSignal = _lastHandledSignal
Mark(a) == connections' = [connections EXCEPT
                ![a].lastHandledSignal = lastHandledSignal[Top.emitter]]

CallSlot(a) ==
    /\ Depth > 0
    /\ Top.at = NoNode
    /\ a \in Top.ahead \cap Nodes
    /\ ~Handled(a)
    /\ Mark(a)
    /\ frames' = [frames EXCEPT ![Depth] = [Top EXCEPT !.at = a,
                                             !.ahead = @ \ {a},
                                             !.called = @ \cup {a}]]
    /\ UNCHANGED <<emitters, receivers, receiverConnections, lastHandledSignal,
                   connectionsChanged, handles>>

SkipNode(a) ==
    /\ Depth > 0
    /\ Top.at = NoNode
    /\ a \in Top.ahead \cap Nodes
    /\ Handled(a)
    /\ frames' = [frames EXCEPT ![Depth].ahead = @ \ {a}]
    /\ UNCHANGED <<emitters, receivers, connections, receiverConnections,
                   lastHandledSignal, connectionsChanged, handles>>

\* Mutant: the loop goes on with the range it had.
Refetch_Mutant == Top.ahead

\* The slot returns.  If the connections changed meanwhile the loop starts over
\* from a new range, else the iterator advances from the node it is at.
Refetch == IF connectionsChanged[Top.emitter]
           THEN EqualRange(Top.emitter, Top.signal)
           ELSE Top.ahead

SlotReturns ==
    /\ Depth > 0
    /\ Top.at # NoNode
    /\ frames' = [frames EXCEPT ![Depth] = [Top EXCEPT !.at = NoNode, !.ahead = Refetch]]
    /\ connectionsChanged' = [connectionsChanged EXCEPT ![Top.emitter] = FALSE]
    /\ UNCHANGED <<emitters, receivers, connections, receiverConnections,
                   lastHandledSignal, handles>>

EmitReturns ==
    /\ Depth > 0
    /\ Top.at = NoNode
    /\ Top.ahead = {}
    /\ frames' = SubSeq(frames, 1, Depth - 1)
    /\ UNCHANGED <<emitters, receivers, connections, receiverConnections,
                   lastHandledSignal, connectionsChanged, handles>>

-----------------------------------------------------------------------------

Init ==
    /\ emitters = {}
    /\ receivers = {}
    /\ connections = [a \in Addresses |-> Freed]
    /\ receiverConnections = [r \in Receivers |-> {}]
    /\ lastHandledSignal = [e \in Emitters |-> 0]
    /\ connectionsChanged = [e \in Emitters |-> FALSE]
    /\ frames = <<>>
    /\ handles = {}

AnyConnect == \E e \in Emitters, s \in Signals, r \in Receivers \cup {NoReceiver}, a \in Addresses :
                  Connect(e, s, r, a)

EmissionLoop ==
    \/ \E a \in Addresses : CallSlot(a) \/ SkipNode(a)
    \/ SlotReturns
    \/ EmitReturns

Next ==
    \/ \E e \in Emitters : ConstructEmitter(e)
    \/ \E e \in Emitters : DestroyEmitter(e)
    \/ \E r \in Receivers : ConstructReceiver(r)
    \/ \E r \in Receivers : DestroyReceiver(r)
    \/ AnyConnect
    \/ \E h \in handles : Disconnect(h)
    \/ \E e \in Emitters, s \in Signals : DisconnectSignal(e, s)
    \/ \E e \in Emitters : DisconnectAllSignals(e)
    \/ \E r \in Receivers : DisconnectAllSlots(r)
    \/ \E e \in Emitters, s \in Signals : Emit(e, s)
    \/ EmissionLoop

Spec == Init /\ [][Next]_vars

\* emit() runs to its end like any function, and every slot returns: it does not
\* emit nested signals forever.
FairSpec ==
    /\ Spec
    /\ WF_vars(EmissionLoop)
    /\ \A d \in 1 .. MaxDepth : SF_vars(SlotReturns /\ Depth = d)

-----------------------------------------------------------------------------

TypeOK ==
    /\ emitters \subseteq Emitters
    /\ receivers \subseteq Receivers
    /\ connections \in [Addresses -> ConnectionData \cup {Freed}]
    /\ receiverConnections \in [Receivers -> SUBSET Reference]
    /\ lastHandledSignal \in [Emitters -> Counter]
    /\ connectionsChanged \in [Emitters -> BOOLEAN]
    /\ frames \in Seq(Frame)
    /\ handles \subseteq Reference

\* The two ends of every connection agree: the list of a receiver holds exactly
\* the nodes that name it.  So disconnectFromReceiver() always finds its entry
\* (the assertion behind its loop is unreachable), disconnectAllSlots() finds
\* every node, and no list keeps an address the allocator may hand out again.
EndsAgree ==
    \A r \in Receivers : receiverConnections[r] =
        {Entry(a) : a \in {b \in Nodes : connections[b].receiver = r}}

\* The connections go with either object (doc/interconnect.dox:44): none is left
\* of a destroyed emitter or to a destroyed receiver, whose slot a later
\* emission would call.
NoDeadEnds ==
    /\ \A a \in Nodes : /\ connections[a].emitter \in emitters
                        /\ connections[a].receiver \in receivers \cup {NoReceiver}
    /\ \A r \in Receivers \ receivers : receiverConnections[r] = {}
    /\ Emitting \subseteq emitters

\* emit() never advances an iterator of erased nodes: as long as it is not told
\* of a change, the node it is at and all nodes ahead are in the multimap.
IteratorValid ==
    \A i \in DOMAIN frames :
        \/ connectionsChanged[frames[i].emitter] /\ frames[i].at # NoNode
        \/ (frames[i].ahead \cup ({frames[i].at} \ {NoNode}))
                \subseteq EqualRange(frames[i].emitter, frames[i].signal)

\* "all slots connected to it are called" (doc/interconnect.dox:41): when emit()
\* is about to return, it has called every slot connected by then, those the
\* slots connected included.
Delivered ==
    Depth > 0 /\ Top.at = NoNode /\ Top.ahead = {} =>
        EqualRange(Top.emitter, Top.signal) \subseteq Top.called

\* The library implements the abstract bus: in particular no slot is called
\* twice by one emission, and none after it was disconnected.
Bus == INSTANCE SignalBus WITH
    Connections <- Addresses,
    Absent <- Freed,
    NoSlot <- NoNode,
    connected <- [a \in Addresses |-> IF connections[a] = Freed THEN Freed
                    ELSE [emitter |-> connections[a].emitter,
                          signal |-> connections[a].signal,
                          receiver |-> connections[a].receiver]],
    emissions <- [i \in DOMAIN frames |-> [emitter |-> frames[i].emitter,
                                           signal |-> frames[i].signal,
                                           running |-> frames[i].at,
                                           called |-> frames[i].called]]

ImplementsSignalBus == Bus!Spec

\* A Connection handle whose connection is gone stays disconnected: isConnected()
\* "Checks if the Connection object [...] still refers to an existing connection"
\* (Emitter.h).
HandleStaysDead ==
    [][\A h \in handles \cap handles' : ~IsConnected(h) => ~IsConnected(h)']_vars

\* A slot may reconnect as it runs, but once the application stops connecting,
\* every emission comes to its end, however its slots disconnect and emit.
EmissionsEnd == []<><<AnyConnect>>_vars \/ []<>(frames = <<>>)
=============================================================================
