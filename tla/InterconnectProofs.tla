------------------------ MODULE InterconnectProofs ------------------------
(***************************************************************************)
(* Proofs about Interconnect and about StateMachine, an emitter, for every *)
(* value of their constants.                                               *)
(***************************************************************************)
EXTENDS Interconnect, StateMachine, SequenceTheorems, TLAPS

-----------------------------------------------------------------------------
\* Erasing nodes keeps the multimaps and the stack well-typed and changes only
\* the histories of the frames.
LEMMA EraseTyped ==
    ASSUME TypeOK, NEW A \in SUBSET Addresses, Erase(A)
    PROVE  /\ connections' \in [Addresses -> ConnectionData \cup {Freed}]
           /\ frames' \in Seq(Frame)
           /\ Len(frames') = Len(frames)
           /\ \A i \in 1 .. Len(frames) :
                 frames'[i] = [frames[i] EXCEPT !.called = @ \ A]
<1>1. frames \in Seq(Frame) /\ connections \in [Addresses -> ConnectionData \cup {Freed}]
  BY DEF TypeOK
<1>2. /\ Len(frames) \in Nat
      /\ DOMAIN frames = 1 .. Len(frames)
      /\ \A i \in 1 .. Len(frames) : frames[i] \in Frame
  BY <1>1, LenProperties, ElementOfSeq
<1>3. \A i \in 1 .. Len(frames) : [frames[i] EXCEPT !.called = @ \ A] \in Frame
  BY <1>2 DEF Frame
<1>4. frames' = [i \in 1 .. Len(frames) |-> [frames[i] EXCEPT !.called = @ \ A]]
  BY <1>2 DEF Erase
<1>5. frames' \in [1 .. Len(frames) -> Frame]
  BY <1>3, <1>4
<1>6. frames' \in Seq(Frame)
  BY <1>2, <1>5, SeqDef
<1>7. Len(frames') = Len(frames)
  BY <1>2, <1>4, <1>6, LenProperties
<1>8. connections' \in [Addresses -> ConnectionData \cup {Freed}]
  BY <1>1 DEF Erase
<1> QED
  BY <1>4, <1>6, <1>7, <1>8

\* disconnectFromReceiver() keeps the receivers' lists well-typed.
LEMMA DetachTyped ==
    ASSUME TypeOK, NEW A, DisconnectFromReceiver(A)
    PROVE  receiverConnections' \in [Receivers -> SUBSET Reference]
BY DEF TypeOK, DisconnectFromReceiver

\* The nodes of an emitter, and an equal_range() of it, are addresses.
LEMMA NodeSets ==
    ASSUME NEW e, NEW s
    PROVE  /\ NodesOf(e) \in SUBSET Addresses
           /\ EqualRange(e, s) \in SUBSET Addresses
BY DEF NodesOf, EqualRange, Nodes

\* The innermost emit() call is a frame of the stack.
LEMMA TopTyped ==
    ASSUME TypeOK, Depth > 0
    PROVE  Depth \in Nat /\ Depth \in 1 .. Len(frames) /\ Top \in Frame
<1>1. Len(frames) \in Nat
  BY LenProperties DEF TypeOK
<1>2. Depth \in 1 .. Len(frames)
  BY <1>1 DEF Depth
<1> QED
  BY <1>1, <1>2, ElementOfSeq DEF TypeOK, Depth, Top

\* Every variable keeps its type: the counters stay in their width, every list,
\* range and handle holds addresses.
THEOREM TypeCorrect == Spec => []TypeOK
<1>1. Init => TypeOK
  BY EmptySeq, InterconnectAssumption DEF Init, TypeOK, Counter
<1>2. TypeOK /\ [Next]_vars => TypeOK'
  <2> SUFFICES ASSUME TypeOK, [Next]_vars PROVE TypeOK'
    OBVIOUS
  <2>1. ASSUME NEW e \in Emitters, ConstructEmitter(e) PROVE TypeOK'
    BY <2>1, InterconnectAssumption DEF ConstructEmitter, TypeOK, Counter
  <2>2. ASSUME NEW e \in Emitters, DestroyEmitter(e) PROVE TypeOK'
    BY <2>2, EraseTyped, DetachTyped, NodeSets DEF DestroyEmitter, TypeOK
  <2>3. ASSUME NEW r \in Receivers, ConstructReceiver(r) PROVE TypeOK'
    BY <2>3 DEF ConstructReceiver, TypeOK
  <2>4. ASSUME NEW r \in Receivers, ClearSlots(r)
        PROVE  /\ connections' \in [Addresses -> ConnectionData \cup {Freed}]
               /\ receiverConnections' \in [Receivers -> SUBSET Reference]
               /\ connectionsChanged' \in [Emitters -> BOOLEAN]
               /\ frames' \in Seq(Frame)
    <3>1. {x.data : x \in Found(r)} \in SUBSET Addresses
      BY DEF Found, TypeOK, Reference
    <3>2. connectionsChanged' \in [Emitters -> BOOLEAN]
      BY <2>4 DEF ClearSlots, TypeOK
    <3>3. receiverConnections' \in [Receivers -> SUBSET Reference]
      BY <2>4 DEF ClearSlots, TypeOK
    <3> QED
      BY <2>4, <3>1, <3>2, <3>3, EraseTyped DEF ClearSlots
  <2>5. ASSUME NEW r \in Receivers, DestroyReceiver(r) PROVE TypeOK'
    BY <2>4, <2>5 DEF DestroyReceiver, TypeOK
  <2>6. ASSUME NEW r \in Receivers, DisconnectAllSlots(r) PROVE TypeOK'
    BY <2>4, <2>6 DEF DisconnectAllSlots, TypeOK
  <2>7. ASSUME NEW e \in Emitters, NEW s \in Signals,
               NEW r \in Receivers \cup {NoReceiver}, NEW a \in Addresses,
               Connect(e, s, r, a)
        PROVE  TypeOK'
    <3>1. [emitter |-> e, signal |-> s, receiver |-> r, lastHandledSignal |-> 0]
              \in ConnectionData
      BY InterconnectAssumption DEF ConnectionData, Counter
    <3>2. [emitter |-> e, signal |-> s, data |-> a] \in Reference
      BY DEF Reference
    <3>3. receiverConnections' \in [Receivers -> SUBSET Reference]
      BY <2>7, <3>2 DEF Connect, TellEmission, TypeOK
    <3> QED
      BY <2>7, <3>1, <3>2, <3>3 DEF Connect, TellEmission, TypeOK
  <2>8. ASSUME NEW h \in handles, Disconnect(h) PROVE TypeOK'
    <3>1. h \in Reference
      BY DEF TypeOK
    <3>2. {h.data} \in SUBSET Addresses
      BY <3>1 DEF Reference
    <3> QED
      BY <2>8, <3>1, <3>2, EraseTyped, DetachTyped DEF Disconnect, TellEmission, TypeOK
  <2>9. ASSUME NEW e \in Emitters, NEW s \in Signals, DisconnectSignal(e, s)
        PROVE  TypeOK'
    BY <2>9, EraseTyped, DetachTyped, NodeSets DEF DisconnectSignal, TellEmission, TypeOK
  <2>10. ASSUME NEW e \in Emitters, DisconnectAllSignals(e) PROVE TypeOK'
    BY <2>10, EraseTyped, DetachTyped, NodeSets DEF DisconnectAllSignals, TellEmission, TypeOK
  <2>11. ASSUME NEW e \in Emitters, NEW s \in Signals, Emit(e, s) PROVE TypeOK'
    <3>1. [emitter |-> e, signal |-> s, at |-> NoNode,
           ahead |-> EqualRange(e, s), called |-> {}] \in Frame
      BY NodeSets DEF Frame
    <3>2. frames' \in Seq(Frame)
      BY <2>11, <3>1, AppendProperties DEF Emit, TypeOK
    <3>3. lastHandledSignal' \in [Emitters -> Counter]
      <4>1. NextSignal(e) \in Counter
        BY InterconnectAssumption DEF TypeOK, Counter, NextSignal
      <4> QED
        BY <2>11, <4>1 DEF Emit, TypeOK
    <3> QED
      BY <2>11, <3>2, <3>3 DEF Emit, TypeOK
  <2>12. ASSUME NEW a \in Addresses, CallSlot(a) PROVE TypeOK'
    <3>1. Depth > 0
      BY <2>12 DEF CallSlot
    <3>2. [Top EXCEPT !.at = a, !.ahead = @ \ {a}, !.called = @ \cup {a}] \in Frame
      BY <3>1, TopTyped DEF Frame
    <3>3. frames' \in Seq(Frame)
      BY <2>12, <3>1, <3>2, TopTyped, ExceptSeq DEF CallSlot, TypeOK, Top
    <3>4. a \in Nodes
      BY <2>12 DEF CallSlot
    <3>5. connections[a] \in ConnectionData /\ lastHandledSignal[Top.emitter] \in Counter
      BY <3>1, <3>4, TopTyped DEF TypeOK, Nodes, Frame
    <3>6. connections' \in [Addresses -> ConnectionData \cup {Freed}]
      BY <2>12, <3>5 DEF CallSlot, Mark, TypeOK, ConnectionData
    <3> QED
      BY <2>12, <3>3, <3>6 DEF CallSlot, TypeOK
  <2>13. ASSUME NEW a \in Addresses, SkipNode(a) PROVE TypeOK'
    <3>1. Depth > 0
      BY <2>13 DEF SkipNode
    <3>2. [Top EXCEPT !.ahead = @ \ {a}] \in Frame
      BY <3>1, TopTyped DEF Frame
    <3>3. frames' \in Seq(Frame)
      BY <2>13, <3>1, <3>2, TopTyped, ExceptSeq DEF SkipNode, TypeOK, Top
    <3> QED
      BY <2>13, <3>3 DEF SkipNode, TypeOK
  <2>14. CASE SlotReturns
    <3>1. Depth > 0
      BY <2>14 DEF SlotReturns
    <3>2. Refetch \in SUBSET Addresses
      BY <3>1, TopTyped, NodeSets DEF Refetch, Frame
    <3>3. [Top EXCEPT !.at = NoNode, !.ahead = Refetch] \in Frame
      BY <3>1, <3>2, TopTyped DEF Frame
    <3>4. frames' \in Seq(Frame)
      BY <2>14, <3>1, <3>3, TopTyped, ExceptSeq DEF SlotReturns, TypeOK, Top
    <3> QED
      BY <2>14, <3>4 DEF SlotReturns, TypeOK
  <2>15. CASE EmitReturns
    <3>1. Depth > 0
      BY <2>15 DEF EmitReturns
    <3>2. frames' \in Seq(Frame)
      <4>1. \A i \in 1 .. Depth - 1 : frames[i] \in Frame
        BY <3>1, TopTyped, ElementOfSeq DEF TypeOK, Depth
      <4> QED
        BY <2>15, <3>1, <4>1, TopTyped, SubSeqProperties DEF EmitReturns
    <3> QED
      BY <2>15, <3>2 DEF EmitReturns, TypeOK
  <2>16. CASE UNCHANGED vars
    BY <2>16 DEF vars, TypeOK
  <2> QED
    BY <2>1, <2>2, <2>3, <2>5, <2>6, <2>7, <2>8, <2>9, <2>10, <2>11, <2>12,
       <2>13, <2>14, <2>15, <2>16 DEF Next, AnyConnect, EmissionLoop
<1> QED
  BY <1>1, <1>2, PTL DEF Spec

-----------------------------------------------------------------------------
(***************************************************************************)
(* Both ends of a connection agree and no end is dead.  The two are        *)
(* inductive together with the types: ~Receiver() finds the nodes to erase *)
(* only through its own list.                                              *)
(***************************************************************************)
Ends == TypeOK /\ EndsAgree /\ NoDeadEnds

\* What an address that is a node holds.
LEMMA NodeTyped ==
    ASSUME TypeOK, NEW a \in Nodes
    PROVE  a \in Addresses /\ connections[a] \in ConnectionData
BY DEF Nodes, TypeOK

\* A freed address is told from every node.
LEMMA FreedIsNoNode ==
    Freed \notin ConnectionData
BY InterconnectAssumption DEF ConnectionData, Counter

\* The list of a receiver, entry by entry.
LEMMA EntryOfNode ==
    ASSUME EndsAgree, NEW r \in Receivers, NEW x \in receiverConnections[r]
    PROVE  x.data \in Nodes /\ connections[x.data].receiver = r /\ x = Entry(x.data)
BY DEF EndsAgree, Entry

\* Erasing nodes and their entries keeps the ends in agreement.
LEMMA EraseAgrees ==
    ASSUME TypeOK, EndsAgree, NEW A \in SUBSET Addresses,
           Erase(A), DisconnectFromReceiver(A)
    PROVE  /\ Nodes' = Nodes \ A
           /\ \A a \in Nodes' : connections'[a] = connections[a]
           /\ EndsAgree'
<1>1. Nodes' = Nodes \ A /\ \A a \in Nodes' : connections'[a] = connections[a]
  BY DEF Nodes, Erase
<1>2. ASSUME NEW r \in Receivers
      PROVE  receiverConnections'[r] =
                {Entry(a)' : a \in {b \in Nodes' : connections'[b].receiver = r}}
  <2>1. receiverConnections'[r] = {x \in receiverConnections[r] :
            ~(x.data \in A /\ connections[x.data].receiver = r)}
    BY DEF DisconnectFromReceiver
  <2>2. receiverConnections'[r] = {x \in receiverConnections[r] : x.data \notin A}
    BY <2>1, EntryOfNode
  <2>3. \A a \in Nodes' : Entry(a)' = Entry(a)
    BY <1>1 DEF Entry
  <2>4. receiverConnections[r] =
            {Entry(a) : a \in {b \in Nodes : connections[b].receiver = r}}
    BY DEF EndsAgree
  <2>5. \A a \in Nodes : Entry(a).data = a
    BY DEF Entry
  <2> QED
    BY <1>1, <2>2, <2>3, <2>4, <2>5
<1> QED
  BY <1>1, <1>2 DEF EndsAgree

\* disconnectAllSlots() finds every connection to the receiver.
LEMMA ClearSlotsErases ==
    ASSUME TypeOK, EndsAgree, NEW r \in Receivers, ClearSlots(r)
    PROVE  LET A == {a \in Nodes : connections[a].receiver = r} IN
           /\ {x.data : x \in Found(r)} = A
           /\ Erase(A)
           /\ DisconnectFromReceiver(A)
<1> DEFINE A == {a \in Nodes : connections[a].receiver = r}
<1>1. receiverConnections[r] = {Entry(a) : a \in A}
  BY DEF EndsAgree
<1>2. \A a \in A : Entry(a).data = a /\ IsConnected(Entry(a))
  BY DEF Entry, IsConnected, EqualRange, NodesOf
<1>3. Found(r) = receiverConnections[r]
  BY <1>1, <1>2 DEF Found
<1>4. {x.data : x \in Found(r)} = A
  BY <1>1, <1>2, <1>3
<1>5. ASSUME NEW q \in Receivers
      PROVE  receiverConnections'[q] = {x \in receiverConnections[q] :
                ~(x.data \in A /\ connections[x.data].receiver = q)}
  <2>1. CASE q = r
    <3>1. receiverConnections'[q] = {}
      BY <2>1 DEF ClearSlots, TypeOK
    <3> QED
      BY <1>1, <1>2, <2>1, <3>1
  <2>2. CASE q # r
    <3>1. receiverConnections'[q] = receiverConnections[q]
      BY <2>2 DEF ClearSlots, TypeOK
    <3> QED
      BY <2>2, <3>1
  <2> QED
    BY <2>1, <2>2
<1>6. receiverConnections' = [q \in Receivers |-> receiverConnections'[q]]
  BY DEF ClearSlots, TypeOK
<1>7. DisconnectFromReceiver(A)
  BY <1>5, <1>6 DEF DisconnectFromReceiver
<1>8. Erase(A)
  BY <1>4 DEF ClearSlots
<1> QED
  BY <1>4, <1>7, <1>8

\* The emitters of the emissions on the stack, as the stack changes.
LEMMA EmittingAfter ==
    ASSUME TypeOK
    PROVE  /\ \A A \in SUBSET Addresses : Erase(A) => Emitting' = Emitting
           /\ \A e \in Emitters, s \in Signals : Emit(e, s) => Emitting' \subseteq Emitting \cup {e}
           /\ \A a \in Addresses : CallSlot(a) \/ SkipNode(a) => Emitting' = Emitting
           /\ SlotReturns => Emitting' = Emitting
           /\ EmitReturns => Emitting' \subseteq Emitting
<1> USE DEF Emitting
<1>0. /\ frames \in Seq(Frame)
      /\ Len(frames) \in Nat
      /\ DOMAIN frames = 1 .. Len(frames)
      /\ \A i \in 1 .. Len(frames) : frames[i] \in Frame
  BY LenProperties, ElementOfSeq DEF TypeOK
<1>1. ASSUME NEW A \in SUBSET Addresses, Erase(A) PROVE Emitting' = Emitting
  <2>1. frames' = [i \in 1 .. Len(frames) |-> [frames[i] EXCEPT !.called = @ \ A]]
    BY <1>0, <1>1 DEF Erase
  <2> QED
    BY <1>0, <2>1 DEF Frame
<1>2. ASSUME NEW e \in Emitters, NEW s \in Signals, Emit(e, s)
      PROVE  Emitting' \subseteq Emitting \cup {e}
  <2> DEFINE f == [emitter |-> e, signal |-> s, at |-> NoNode,
                   ahead |-> EqualRange(e, s), called |-> {}]
  <2>1. f \in Frame
    BY NodeSets DEF Frame
  <2>2. frames' = Append(frames, f)
    BY <1>2 DEF Emit
  <2>3. f.emitter = e
    OBVIOUS
  <2> HIDE DEF f
  <2>4. /\ frames' \in Seq(Frame)
        /\ Len(frames') = Len(frames) + 1
        /\ \A i \in 1 .. Len(frames) : frames'[i] = frames[i]
        /\ frames'[Len(frames) + 1] = f
    BY <1>0, <2>1, <2>2, AppendProperties
  <2>5. DOMAIN frames' = 1 .. Len(frames) + 1
    BY <2>4, LenProperties
  <2> QED
    BY <1>0, <2>3, <2>4, <2>5
<1>3. ASSUME NEW f, Depth > 0, f.emitter = Top.emitter,
             frames' = [frames EXCEPT ![Depth] = f]
      PROVE  Emitting' = Emitting
  BY <1>0, <1>3, TopTyped DEF Depth, Top
<1>4. ASSUME NEW a \in Addresses, CallSlot(a) \/ SkipNode(a) PROVE Emitting' = Emitting
  <2>1. CASE CallSlot(a)
    BY <1>3, <2>1, TopTyped DEF CallSlot, Frame
  <2>2. CASE SkipNode(a)
    <3>1. frames' = [frames EXCEPT ![Depth] = [Top EXCEPT !.ahead = @ \ {a}]]
      BY <2>2 DEF SkipNode, Top
    <3> QED
      BY <1>3, <2>2, <3>1, TopTyped DEF SkipNode, Frame
  <2> QED
    BY <1>4, <2>1, <2>2
<1>5. ASSUME SlotReturns PROVE Emitting' = Emitting
  BY <1>3, <1>5, TopTyped DEF SlotReturns, Frame
<1>6. ASSUME EmitReturns PROVE Emitting' \subseteq Emitting
  <2>1. Depth > 0 /\ frames' = SubSeq(frames, 1, Depth - 1)
    BY <1>6 DEF EmitReturns
  <2>2. /\ frames' \in Seq(Frame)
        /\ Len(frames') = Depth - 1
        /\ \A i \in 1 .. Depth - 1 : frames'[i] = frames[i]
    BY <1>0, <2>1, SubSeqProperties DEF Depth
  <2>3. DOMAIN frames' = 1 .. Depth - 1
    BY <2>2, LenProperties
  <2> QED
    BY <1>0, <2>2, <2>3 DEF Depth
<1> QED
  BY <1>1, <1>2, <1>4, <1>5, <1>6

\* What no step of the emission loop changes.
LEMMA LoopKeepsEnds ==
    ASSUME Ends, [EmissionLoop]_vars
    PROVE  EndsAgree' /\ NoDeadEnds'
<1>1. TypeOK /\ EndsAgree /\ NoDeadEnds
  BY DEF Ends
<1>2. ASSUME NEW a \in Addresses, CallSlot(a) PROVE EndsAgree' /\ NoDeadEnds'
  <2>1. a \in Nodes /\ Depth > 0
    BY <1>2 DEF CallSlot
  <2>2. connections[a] \in ConnectionData /\ lastHandledSignal[Top.emitter] \in Counter
    BY <1>1, <2>1, NodeTyped, TopTyped DEF TypeOK, Frame
  <2>3. connections' = [connections EXCEPT ![a] =
            [connections[a] EXCEPT !.lastHandledSignal = lastHandledSignal[Top.emitter]]]
    BY <1>2 DEF CallSlot, Mark
  <2>4. connections'[a] \in ConnectionData /\ connections'[a] # Freed
    BY <1>1, <2>1, <2>2, <2>3, FreedIsNoNode, NodeTyped DEF ConnectionData, TypeOK
  <2>5. \A b \in Addresses : b # a => connections'[b] = connections[b]
    BY <1>1, <2>3 DEF TypeOK
  <2>6. Nodes' = Nodes
    BY <2>1, <2>4, <2>5 DEF Nodes
  <2>7. \A b \in Nodes : /\ connections'[b].emitter = connections[b].emitter
                         /\ connections'[b].signal = connections[b].signal
                         /\ connections'[b].receiver = connections[b].receiver
    BY <1>1, <2>2, <2>3, <2>5, NodeTyped DEF ConnectionData, TypeOK
  <2>8. EndsAgree'
    BY <1>1, <1>2, <2>6, <2>7 DEF CallSlot, EndsAgree, Entry
  <2>9. Emitting' = Emitting
    BY <1>1, <1>2, EmittingAfter
  <2> QED
    BY <1>1, <1>2, <2>6, <2>7, <2>8, <2>9 DEF CallSlot, NoDeadEnds
<1>3. ASSUME UNCHANGED <<emitters, receivers, connections, receiverConnections>>,
             Emitting' \subseteq Emitting
      PROVE  EndsAgree' /\ NoDeadEnds'
  BY <1>1, <1>3 DEF EndsAgree, NoDeadEnds, Entry, Nodes
<1>4. ASSUME NEW a \in Addresses, SkipNode(a) PROVE EndsAgree' /\ NoDeadEnds'
  BY <1>1, <1>3, <1>4, EmittingAfter DEF SkipNode
<1>5. CASE SlotReturns
  BY <1>1, <1>3, <1>5, EmittingAfter DEF SlotReturns
<1>6. CASE EmitReturns
  BY <1>1, <1>3, <1>6, EmittingAfter DEF EmitReturns
<1>7. CASE UNCHANGED vars
  BY <1>3, <1>7 DEF vars, Emitting
<1> QED
  BY <1>2, <1>4, <1>5, <1>6, <1>7 DEF EmissionLoop

\* Disconnecting in any of its forms: nodes of one set go with their entries.
LEMMA EraseKeepsEnds ==
    ASSUME Ends, NEW A \in SUBSET Addresses, Erase(A), DisconnectFromReceiver(A)
    PROVE  /\ EndsAgree'
           /\ Emitting' = Emitting
           /\ \A a \in Nodes' : a \in Nodes \ A /\ connections'[a] = connections[a]
           /\ \A r \in Receivers : receiverConnections'[r] \subseteq receiverConnections[r]
BY EraseAgrees, EmittingAfter DEF Ends, DisconnectFromReceiver

\* The two ends of every connection agree and both its objects are alive, in
\* every reachable state: Emitter and Receiver disconnect without ever missing a
\* node, reentrant calls from slots included.
LEMMA EndsInvariant == Spec => [](EndsAgree /\ NoDeadEnds)
<1>1. Init => EndsAgree /\ NoDeadEnds
  BY DEF Init, EndsAgree, NoDeadEnds, Nodes, Emitting
<1>2. Ends /\ [Next]_vars => EndsAgree' /\ NoDeadEnds'
  <2> SUFFICES ASSUME Ends, [Next]_vars PROVE EndsAgree' /\ NoDeadEnds'
    OBVIOUS
  <2>0. TypeOK /\ EndsAgree /\ NoDeadEnds
    BY DEF Ends
  <2>1. ASSUME NEW e \in Emitters, ConstructEmitter(e)
        PROVE  EndsAgree' /\ NoDeadEnds'
    BY <2>0, <2>1 DEF ConstructEmitter, EndsAgree, NoDeadEnds, Entry, Nodes, Emitting
  <2>2. ASSUME NEW e \in Emitters, DestroyEmitter(e)
        PROVE  EndsAgree' /\ NoDeadEnds'
    <3>1. NodesOf(e) \in SUBSET Addresses
      BY NodeSets
    <3>2. Erase(NodesOf(e)) /\ DisconnectFromReceiver(NodesOf(e))
      BY <2>2 DEF DestroyEmitter
    <3>3. \A a \in Nodes \ NodesOf(e) : connections[a].emitter # e
      BY DEF NodesOf
    <3> QED
      BY <2>0, <2>2, <3>1, <3>2, <3>3, EraseKeepsEnds DEF DestroyEmitter, NoDeadEnds
  <2>3. ASSUME NEW r \in Receivers, ConstructReceiver(r)
        PROVE  EndsAgree' /\ NoDeadEnds'
    <3>1. receiverConnections' = receiverConnections
      BY <2>0, <2>3 DEF ConstructReceiver, NoDeadEnds, TypeOK
    <3> QED
      BY <2>0, <2>3, <3>1 DEF ConstructReceiver, EndsAgree, NoDeadEnds, Entry, Nodes, Emitting
  <2>4. ASSUME NEW r \in Receivers, ClearSlots(r), emitters' = emitters,
               receivers' = receivers \/ receivers' = receivers \ {r}
        PROVE  EndsAgree' /\ NoDeadEnds'
    <3> DEFINE A == {a \in Nodes : connections[a].receiver = r}
    <3>1. A \in SUBSET Addresses
      BY DEF Nodes
    <3>2. Erase(A) /\ DisconnectFromReceiver(A)
      BY <2>0, <2>4, ClearSlotsErases
    <3>3. \A a \in Nodes \ A : connections[a].receiver # r
      OBVIOUS
    <3>4. receiverConnections'[r] = {}
      BY <2>0, <2>4 DEF ClearSlots, TypeOK
    <3> HIDE DEF A
    <3> QED
      BY <2>0, <2>4, <3>1, <3>2, <3>3, <3>4, EraseKeepsEnds DEF NoDeadEnds
  <2>5. ASSUME NEW e \in Emitters, NEW s \in Signals,
               NEW r \in Receivers \cup {NoReceiver}, NEW a \in Addresses,
               Connect(e, s, r, a)
        PROVE  EndsAgree' /\ NoDeadEnds'
    <3> DEFINE c == [emitter |-> e, signal |-> s, receiver |-> r, lastHandledSignal |-> 0]
               x == [emitter |-> e, signal |-> s, data |-> a]
    <3>1. c \in ConnectionData /\ c # Freed
      BY FreedIsNoNode, InterconnectAssumption DEF ConnectionData, Counter
    <3>2. connections'[a] = c /\ \A b \in Addresses \ {a} : connections'[b] = connections[b]
      BY <2>0, <2>5 DEF Connect, TellEmission, TypeOK
    <3>3. Nodes' = Nodes \cup {a} /\ a \notin Nodes
      BY <2>5, <3>1, <3>2 DEF Nodes, Connect
    <3>4. Entry(a)' = x /\ \A b \in Nodes : Entry(b)' = Entry(b) /\ connections'[b] = connections[b]
      BY <3>2, <3>3 DEF Entry, Nodes
    <3>5. ASSUME NEW q \in Receivers
          PROVE  receiverConnections'[q] =
                    {Entry(b)' : b \in {d \in Nodes' : connections'[d].receiver = q}}
      <4>1. receiverConnections'[q] = IF q = r THEN receiverConnections[q] \cup {x}
                                               ELSE receiverConnections[q]
        BY <2>0, <2>5, InterconnectAssumption DEF Connect, TellEmission, TypeOK
      <4>2. receiverConnections[q] =
                {Entry(b) : b \in {d \in Nodes : connections[d].receiver = q}}
        BY <2>0 DEF EndsAgree
      <4>3. connections'[a].receiver = r
        BY <3>2
      <4> HIDE DEF c, x
      <4>4. {d \in Nodes' : connections'[d].receiver = q} =
                {d \in Nodes : connections[d].receiver = q} \cup (IF q = r THEN {a} ELSE {})
        BY <3>3, <3>4, <4>3
      <4> QED
        BY <3>4, <4>1, <4>2, <4>4
    <3>6. EndsAgree'
      BY <3>5 DEF EndsAgree
    <3>7. ASSUME NEW b \in Nodes'
          PROVE  /\ connections'[b].emitter \in emitters'
                 /\ connections'[b].receiver \in receivers' \cup {NoReceiver}
      BY <2>0, <2>5, <3>2, <3>3, <3>4 DEF Connect, TellEmission, NoDeadEnds
    <3>8. ASSUME NEW q \in Receivers \ receivers' PROVE receiverConnections'[q] = {}
      BY <2>0, <2>5, <3>8, InterconnectAssumption DEF Connect, TellEmission, NoDeadEnds, TypeOK
    <3>9. Emitting' \subseteq emitters'
      BY <2>0, <2>5 DEF Connect, TellEmission, NoDeadEnds, Emitting
    <3> QED
      BY <3>6, <3>7, <3>8, <3>9 DEF NoDeadEnds
  <2>6. ASSUME NEW A \in SUBSET Addresses, Erase(A), DisconnectFromReceiver(A),
               UNCHANGED <<emitters, receivers>>
        PROVE  EndsAgree' /\ NoDeadEnds'
    BY <2>0, <2>6, EraseKeepsEnds DEF NoDeadEnds
  <2>7. ASSUME NEW h \in handles, Disconnect(h) PROVE EndsAgree' /\ NoDeadEnds'
    <3>1. {h.data} \in SUBSET Addresses
      BY <2>0 DEF TypeOK, Reference
    <3> QED
      BY <2>6, <2>7, <3>1 DEF Disconnect, TellEmission
  <2>8. ASSUME NEW e \in Emitters, NEW s \in Signals, DisconnectSignal(e, s)
        PROVE  EndsAgree' /\ NoDeadEnds'
    BY <2>6, <2>8, NodeSets DEF DisconnectSignal, TellEmission
  <2>9. ASSUME NEW e \in Emitters, DisconnectAllSignals(e)
        PROVE  EndsAgree' /\ NoDeadEnds'
    BY <2>6, <2>9, NodeSets DEF DisconnectAllSignals, TellEmission
  <2>10. ASSUME NEW e \in Emitters, NEW s \in Signals, Emit(e, s)
         PROVE  EndsAgree' /\ NoDeadEnds'
    <3>1. /\ UNCHANGED <<emitters, receivers, connections, receiverConnections>>
          /\ e \in emitters
      BY <2>10 DEF Emit
    <3>2. Emitting' \subseteq Emitting \cup {e}
      BY <2>0, <2>10, EmittingAfter
    <3> QED
      BY <2>0, <3>1, <3>2 DEF EndsAgree, NoDeadEnds, Entry, Nodes
  <2>11. ASSUME [EmissionLoop]_vars PROVE EndsAgree' /\ NoDeadEnds'
    BY <2>11, LoopKeepsEnds
  <2>12. ASSUME NEW r \in Receivers, DestroyReceiver(r) \/ DisconnectAllSlots(r)
         PROVE  EndsAgree' /\ NoDeadEnds'
    BY <2>4, <2>12 DEF DestroyReceiver, DisconnectAllSlots
  <2>13. CASE EmissionLoop \/ UNCHANGED vars
    BY <2>11, <2>13
  <2> QED
    BY <2>1, <2>2, <2>3, <2>5, <2>7, <2>8, <2>9, <2>10, <2>12, <2>13
       DEF Next, AnyConnect
<1> QED
  BY <1>1, <1>2, TypeCorrect, PTL DEF Spec, Ends

\* disconnectFromReceiver() and disconnectAllSlots() find everything: the list
\* of a receiver is exact in every reachable state, so the assertion behind the
\* loop of disconnectFromReceiver() is never reached.
THEOREM EndsCorrect == Spec => []EndsAgree
BY EndsInvariant, PTL

\* The connections go when either object is destroyed (doc/interconnect.dox:44):
\* whichever of the two destructors runs, and from whichever slot, no node of a
\* dead emitter and no node that would call a dead receiver is left.
THEOREM NoneDangling == Spec => []NoDeadEnds
BY EndsInvariant, PTL

-----------------------------------------------------------------------------
(***************************************************************************)
(* No emission advances a stale iterator, provided no slot emits on an     *)
(* emitter that is emitting.  Then an emitter has one emission at a time,  *)
(* and its change flag tells that emission and no other.                   *)
(***************************************************************************)
OneEmission ==
    \A i, j \in DOMAIN frames : frames[i].emitter = frames[j].emitter => i = j

OnlyTopIdle ==
    \A i \in DOMAIN frames : frames[i].at = NoNode => i = Depth

ValidAt(i) ==
    \/ connectionsChanged[frames[i].emitter] /\ frames[i].at # NoNode
    \/ (frames[i].ahead \cup ({frames[i].at} \ {NoNode}))
            \subseteq EqualRange(frames[i].emitter, frames[i].signal)

Iterators == OneEmission /\ OnlyTopIdle /\ IteratorValid

\* The stack as a sequence of frames.
LEMMA FramesTyped ==
    ASSUME TypeOK
    PROVE  /\ frames \in Seq(Frame)
           /\ Len(frames) \in Nat
           /\ DOMAIN frames = 1 .. Len(frames)
           /\ \A i \in 1 .. Len(frames) : frames[i] \in Frame
BY LenProperties, ElementOfSeq DEF TypeOK

\* While the application runs, every emission on the stack is in a slot.
LEMMA AllInSlots ==
    ASSUME TypeOK, OnlyTopIdle, ApplicationRuns
    PROVE  \A i \in DOMAIN frames : frames[i].at # NoNode
BY FramesTyped DEF OnlyTopIdle, ApplicationRuns, Depth, Top

\* An operation of the application either tells an emitter that is emitting or
\* leaves its connections alone.
LEMMA ApplicationKeepsIterators ==
    ASSUME TypeOK, Iterators, ApplicationRuns,
           frames' \in Seq(Frame), Len(frames') = Len(frames),
           \A i \in 1 .. Len(frames) : /\ frames'[i].emitter = frames[i].emitter
                                       /\ frames'[i].signal = frames[i].signal
                                       /\ frames'[i].at = frames[i].at
                                       /\ frames'[i].ahead = frames[i].ahead,
           \A e \in Emitting, s \in Signals :
                \/ connectionsChanged'[e]
                \/ /\ ~connectionsChanged[e]
                   /\ EqualRange(e, s) \subseteq EqualRange(e, s)'
    PROVE  Iterators'
<1>1. DOMAIN frames' = 1 .. Len(frames)
  BY LenProperties
<1>2. OneEmission'
  BY <1>1, FramesTyped DEF Iterators, OneEmission
<1>3. OnlyTopIdle'
  BY <1>1, FramesTyped DEF Iterators, OnlyTopIdle, Depth
<1>4. ASSUME NEW i \in DOMAIN frames' PROVE ValidAt(i)'
  <2>1. i \in DOMAIN frames /\ i \in 1 .. Len(frames) /\ frames[i] \in Frame
    BY <1>1, <1>4, FramesTyped
  <2>2. PICK e \in Emitting, s \in Signals : frames[i].emitter = e /\ frames[i].signal = s
    BY <2>1 DEF Emitting, Frame
  <2>3. frames[i].at # NoNode
    BY <2>1, AllInSlots DEF Iterators
  <2>4. /\ frames'[i].emitter = e
        /\ frames'[i].signal = s
        /\ frames'[i].at = frames[i].at
        /\ frames'[i].ahead = frames[i].ahead
    BY <2>1, <2>2
  <2>5. \/ connectionsChanged[e]
        \/ (frames[i].ahead \cup ({frames[i].at} \ {NoNode})) \subseteq EqualRange(e, s)
    BY <2>1, <2>2 DEF Iterators, IteratorValid
  <2>6. \/ connectionsChanged'[e]
        \/ (frames[i].ahead \cup ({frames[i].at} \ {NoNode})) \subseteq EqualRange(e, s)'
    BY <2>2, <2>5
  <2> QED
    BY <2>3, <2>4, <2>6 DEF ValidAt, EqualRange, NodesOf
<1> QED
  BY <1>2, <1>3, <1>4 DEF Iterators, IteratorValid, ValidAt

\* An operation that leaves the stack and the flags of the emitters alone.
LEMMA SameStackKeepsIterators ==
    ASSUME TypeOK, Iterators, ApplicationRuns, frames' = frames,
           \A e \in Emitting : connectionsChanged'[e] \/ ~connectionsChanged[e],
           \A e \in Emitting, s \in Signals : EqualRange(e, s) \subseteq EqualRange(e, s)'
    PROVE  Iterators'
BY ApplicationKeepsIterators DEF TypeOK

\* An operation that erases nodes tells their emitters, those that emit at least.
LEMMA EraseKeepsIterators ==
    ASSUME TypeOK, Iterators, ApplicationRuns, NEW A \in SUBSET Addresses, Erase(A),
           \A e \in Emitting : \/ connectionsChanged'[e]
                               \/ ~connectionsChanged[e] /\ A \cap NodesOf(e) = {}
    PROVE  Iterators'
<1>1. \A a \in Nodes \ A : a \in Nodes' /\ connections'[a] = connections[a]
  BY DEF Erase, Nodes
<1>2. ASSUME NEW e \in Emitting, NEW s \in Signals, A \cap NodesOf(e) = {}
      PROVE  EqualRange(e, s) \subseteq EqualRange(e, s)'
  BY <1>1, <1>2 DEF EqualRange, NodesOf
<1>3. /\ frames' \in Seq(Frame)
      /\ Len(frames') = Len(frames)
      /\ \A i \in 1 .. Len(frames) : frames'[i] = [frames[i] EXCEPT !.called = @ \ A]
  BY EraseTyped
<1>4. \A i \in 1 .. Len(frames) : /\ frames'[i].emitter = frames[i].emitter
                                  /\ frames'[i].signal = frames[i].signal
                                  /\ frames'[i].at = frames[i].at
                                  /\ frames'[i].ahead = frames[i].ahead
  BY <1>3, FramesTyped DEF Frame
<1> QED
  BY <1>2, <1>3, <1>4, ApplicationKeepsIterators

\* Every operation of the application that is not itself an emission.
LEMMA OperationsKeepIterators ==
    ASSUME TypeOK, Iterators
    PROVE  /\ \A e \in Emitters : ConstructEmitter(e) /\ e \notin Emitting => Iterators'
           /\ \A e \in Emitters : DestroyEmitter(e) => Iterators'
           /\ \A r \in Receivers : ConstructReceiver(r) => Iterators'
           /\ \A r \in Receivers : DestroyReceiver(r) \/ DisconnectAllSlots(r) => Iterators'
           /\ AnyConnect => Iterators'
           /\ \A h \in handles : Disconnect(h) => Iterators'
           /\ \A e \in Emitters, s \in Signals : DisconnectSignal(e, s) => Iterators'
           /\ \A e \in Emitters : DisconnectAllSignals(e) => Iterators'
<1>0. Emitting \subseteq Emitters
  BY FramesTyped DEF Emitting, Frame
<1>1. ASSUME NEW e \in Emitters, ConstructEmitter(e), e \notin Emitting PROVE Iterators'
  <2>1. \A d \in Emitting : connectionsChanged'[d] = connectionsChanged[d]
    BY <1>0, <1>1 DEF ConstructEmitter, TypeOK
  <2>2. \A d \in Emitting, s \in Signals : EqualRange(d, s)' = EqualRange(d, s)
    BY <1>1 DEF ConstructEmitter, EqualRange, NodesOf, Nodes
  <2> QED
    BY <1>0, <1>1, <2>1, <2>2, SameStackKeepsIterators DEF ConstructEmitter, TypeOK
<1>2. ASSUME NEW e \in Emitters, DestroyEmitter(e) PROVE Iterators'
  <2>1. \A d \in Emitting : NodesOf(e) \cap NodesOf(d) = {}
    BY <1>2 DEF DestroyEmitter, NodesOf
  <2> QED
    BY <1>0, <1>2, <2>1, NodeSets, EraseKeepsIterators DEF DestroyEmitter, TypeOK
<1>3. ASSUME NEW r \in Receivers, ConstructReceiver(r) PROVE Iterators'
  <2>1. \A d \in Emitting, s \in Signals : EqualRange(d, s)' = EqualRange(d, s)
    BY <1>3 DEF ConstructReceiver, EqualRange, NodesOf, Nodes
  <2> QED
    BY <1>0, <1>3, <2>1, SameStackKeepsIterators DEF ConstructReceiver, TypeOK
<1>4. ASSUME NEW r \in Receivers, ApplicationRuns, ClearSlots(r) PROVE Iterators'
  <2> DEFINE A == {x.data : x \in Found(r)}
  <2>1. A \in SUBSET Addresses
    BY DEF Found, TypeOK, Reference
  <2>2. ASSUME NEW d \in Emitting
        PROVE  connectionsChanged'[d] \/ (~connectionsChanged[d] /\ A \cap NodesOf(d) = {})
    <3>1. ASSUME NEW x \in Found(r), x.data \in NodesOf(d) PROVE x.emitter = d
      BY <3>1 DEF Found, IsConnected, EqualRange, NodesOf
    <3>2. connectionsChanged'[d] <=>
            connectionsChanged[d] \/ \E x \in Found(r) : x.emitter = d
      BY <1>0, <1>4 DEF ClearSlots
    <3> QED
      BY <3>1, <3>2
  <2>3. Erase(A)
    BY <1>4 DEF ClearSlots
  <2> HIDE DEF A
  <2> QED
    BY <1>4, <2>1, <2>2, <2>3, EraseKeepsIterators
<1>5. ASSUME NEW r \in Receivers, DestroyReceiver(r) \/ DisconnectAllSlots(r)
      PROVE  Iterators'
  BY <1>4, <1>5 DEF DestroyReceiver, DisconnectAllSlots
<1>6. ASSUME NEW e \in Emitters, NEW s \in Signals, NEW r \in Receivers \cup {NoReceiver},
             NEW a \in Addresses, Connect(e, s, r, a)
      PROVE  Iterators'
  <2>1. ASSUME NEW d \in Emitting, NEW q \in Signals
        PROVE  EqualRange(d, q) \subseteq EqualRange(d, q)'
    <3>1. \A b \in Nodes : b # a /\ connections'[b] = connections[b]
      BY <1>6 DEF Connect, Nodes, TypeOK
    <3> QED
      BY <3>1 DEF EqualRange, NodesOf, Nodes
  <2>2. \A d \in Emitting : connectionsChanged'[d] \/ ~connectionsChanged[d]
    BY <1>0, <1>6 DEF Connect, TellEmission, TypeOK
  <2> QED
    BY <1>6, <2>1, <2>2, SameStackKeepsIterators DEF Connect
<1>7. ASSUME NEW e \in Emitters, NEW A \in SUBSET NodesOf(e), ApplicationRuns,
             Erase(A), TellEmission(e)
      PROVE  Iterators'
  <2>1. A \in SUBSET Addresses
    BY DEF NodesOf, Nodes
  <2>2. ASSUME NEW d \in Emitting
        PROVE  connectionsChanged'[d] \/ (~connectionsChanged[d] /\ A \cap NodesOf(d) = {})
    <3>1. CASE d = e
      BY <1>7, <3>1 DEF TellEmission, TypeOK
    <3>2. CASE d # e
      <4>1. A \cap NodesOf(d) = {}
        BY <3>2 DEF NodesOf
      <4> QED
        BY <1>0, <1>7, <3>2, <4>1 DEF TellEmission, TypeOK
    <3> QED
      BY <3>1, <3>2
  <2> QED
    BY <1>7, <2>1, <2>2, EraseKeepsIterators
<1>8. ASSUME NEW h \in handles, Disconnect(h) PROVE Iterators'
  <2>1. h.emitter \in Emitters /\ {h.data} \in SUBSET NodesOf(h.emitter)
    BY <1>8 DEF Disconnect, IsConnected, EqualRange, TypeOK, Reference
  <2> QED
    BY <1>7, <1>8, <2>1 DEF Disconnect
<1>9. ASSUME NEW e \in Emitters, NEW s \in Signals, DisconnectSignal(e, s) PROVE Iterators'
  BY <1>7, <1>9 DEF DisconnectSignal, EqualRange
<1>10. ASSUME NEW e \in Emitters, DisconnectAllSignals(e) PROVE Iterators'
  BY <1>7, <1>10 DEF DisconnectAllSignals
<1> QED
  BY <1>1, <1>2, <1>3, <1>5, <1>6, <1>8, <1>9, <1>10 DEF AnyConnect

\* A loop step rewrites the innermost frame and leaves its emitter alone.
LEMMA LoopStepKeepsIterators ==
    ASSUME TypeOK, Iterators, Depth > 0, NEW f \in Frame,
           f.emitter = Top.emitter, f.signal = Top.signal,
           frames' = [frames EXCEPT ![Depth] = f],
           \A d \in Emitters, q \in Signals : EqualRange(d, q)' = EqualRange(d, q),
           \A d \in Emitters : d # Top.emitter => connectionsChanged'[d] = connectionsChanged[d],
           \/ connectionsChanged'[f.emitter] /\ f.at # NoNode
           \/ (f.ahead \cup ({f.at} \ {NoNode})) \subseteq EqualRange(f.emitter, f.signal)
    PROVE  Iterators'
<1>1. /\ frames' \in Seq(Frame)
      /\ Len(frames') = Len(frames)
      /\ DOMAIN frames' = 1 .. Len(frames)
      /\ \A i \in 1 .. Len(frames) : frames'[i] = IF i = Depth THEN f ELSE frames[i]
  BY FramesTyped, TopTyped, ExceptSeq, LenProperties
<1>2. OneEmission'
  BY <1>1, FramesTyped DEF Iterators, OneEmission, Top, Depth
<1>3. OnlyTopIdle'
  BY <1>1, FramesTyped DEF Iterators, OnlyTopIdle, Depth
<1>4. ASSUME NEW i \in DOMAIN frames' PROVE ValidAt(i)'
  <2>1. CASE i = Depth
    <3>1. frames'[i] = f
      BY <1>1, <2>1, TopTyped
    <3> QED
      BY <3>1 DEF ValidAt, EqualRange, NodesOf, Nodes, Frame
  <2>2. CASE i # Depth
    <3>1. i \in 1 .. Len(frames) /\ frames'[i] = frames[i] /\ frames[i] \in Frame
      BY <1>1, <1>4, <2>2, FramesTyped
    <3>2. PICK d \in Emitters, q \in Signals : frames[i].emitter = d /\ frames[i].signal = q
      BY <3>1 DEF Frame
    <3>3. d # Top.emitter
      BY <2>2, <3>1, <3>2, FramesTyped, TopTyped DEF Iterators, OneEmission, Top
    <3>4. \/ connectionsChanged[d] /\ frames[i].at # NoNode
          \/ (frames[i].ahead \cup ({frames[i].at} \ {NoNode})) \subseteq EqualRange(d, q)
      BY <3>1, <3>2, FramesTyped DEF Iterators, IteratorValid
    <3>5. \/ connectionsChanged'[d] /\ frames[i].at # NoNode
          \/ (frames[i].ahead \cup ({frames[i].at} \ {NoNode})) \subseteq EqualRange(d, q)'
      BY <3>3, <3>4
    <3> QED
      BY <3>1, <3>2, <3>5 DEF ValidAt, EqualRange, NodesOf
  <2> QED
    BY <2>1, <2>2
<1> QED
  BY <1>2, <1>3, <1>4 DEF Iterators, IteratorValid, ValidAt

\* Marking a node changes no range.
LEMMA MarkKeepsRanges ==
    ASSUME TypeOK, Depth > 0, NEW a \in Nodes, Mark(a)
    PROVE  \A d \in Emitters, q \in Signals : EqualRange(d, q)' = EqualRange(d, q)
<1>1. connections' = [connections EXCEPT ![a] =
            [connections[a] EXCEPT !.lastHandledSignal = lastHandledSignal[Top.emitter]]]
  BY DEF Mark
<1>2. lastHandledSignal[Top.emitter] \in Counter
  BY TopTyped DEF TypeOK, Frame
<1>3. \A b \in Addresses : b # a => connections'[b] = connections[b]
  BY <1>1 DEF TypeOK
<1>4. connections[a] \in ConnectionData /\ a \in Addresses
  BY NodeTyped
<1>5. /\ connections'[a] # Freed
      /\ connections'[a].emitter = connections[a].emitter
      /\ connections'[a].signal = connections[a].signal
  BY <1>1, <1>2, <1>4, FreedIsNoNode DEF ConnectionData, TypeOK
<1>6. Nodes' = Nodes
  BY <1>3, <1>5 DEF Nodes
<1> QED
  BY <1>3, <1>5, <1>6 DEF EqualRange, NodesOf, Nodes

\* The frames of an emission that has just begun.
LEMMA EmitAppends ==
    ASSUME TypeOK, NEW e \in Emitters, NEW s \in Signals, Emit(e, s)
    PROVE  /\ frames' \in Seq(Frame)
           /\ DOMAIN frames' = 1 .. Len(frames) + 1
           /\ Len(frames') = Len(frames) + 1
           /\ \A i \in 1 .. Len(frames) : frames'[i] = frames[i]
           /\ frames'[Len(frames) + 1] = [emitter |-> e, signal |-> s, at |-> NoNode,
                                          ahead |-> EqualRange(e, s), called |-> {}]
<1> DEFINE f == [emitter |-> e, signal |-> s, at |-> NoNode,
                 ahead |-> EqualRange(e, s), called |-> {}]
<1>1. f \in Frame
  BY NodeSets DEF Frame
<1>2. frames' = Append(frames, f)
  BY DEF Emit
<1> HIDE DEF f
<1>3. /\ frames' \in Seq(Frame)
      /\ Len(frames') = Len(frames) + 1
      /\ \A i \in 1 .. Len(frames) : frames'[i] = frames[i]
      /\ frames'[Len(frames) + 1] = f
  BY <1>1, <1>2, FramesTyped, AppendProperties
<1> QED
  BY <1>3, LenProperties DEF f

\* The frames that are left when an emission returns.
LEMMA EmitReturnsPops ==
    ASSUME TypeOK, EmitReturns
    PROVE  /\ frames' \in Seq(Frame)
           /\ DOMAIN frames' = 1 .. Depth - 1
           /\ Len(frames') = Depth - 1
           /\ \A i \in 1 .. Depth - 1 : i \in DOMAIN frames /\ i # Depth /\ frames'[i] = frames[i]
<1>1. Depth > 0 /\ frames' = SubSeq(frames, 1, Depth - 1)
  BY DEF EmitReturns
<1>2. /\ frames' \in Seq(Frame)
      /\ Len(frames') = Depth - 1
      /\ \A i \in 1 .. Depth - 1 : frames'[i] = frames[i]
  BY <1>1, FramesTyped, TopTyped, SubSeqProperties DEF Depth
<1>3. /\ DOMAIN frames = 1 .. Len(frames) /\ Depth = Len(frames) /\ Len(frames) \in Nat
      /\ DOMAIN frames' = 1 .. Len(frames')
  BY <1>2, FramesTyped, TopTyped, LenProperties DEF Depth
<1>4. \A i \in 1 .. Depth - 1 : i \in DOMAIN frames /\ i # Depth
  <2>1. PICK n \in Nat : n = Depth /\ DOMAIN frames = 1 .. n
    BY <1>3
  <2>2. \A i \in 1 .. n - 1 : i \in 1 .. n /\ i # n
    OBVIOUS
  <2> QED
    BY <2>1, <2>2
<1> QED
  BY <1>2, <1>3, <1>4

\* The ends and the iterators together are kept by every step.
LEMMA IteratorsInvariant ==
    ASSUME ~NestSameEmitter
    PROVE  Spec => [](Ends /\ Iterators)
<1>1. Init => Iterators
  BY DEF Init, Iterators, OneEmission, OnlyTopIdle, IteratorValid
<1>2. Ends /\ Iterators /\ [Next]_vars => Iterators'
  <2> SUFFICES ASSUME Ends, Iterators, [Next]_vars PROVE Iterators'
    OBVIOUS
  <2>0. TypeOK /\ Emitting \subseteq emitters
    BY DEF Ends, NoDeadEnds
  <2>1. ASSUME NEW e \in Emitters, ConstructEmitter(e) PROVE Iterators'
    BY <2>0, <2>1, OperationsKeepIterators DEF ConstructEmitter
  <2>2. ASSUME NEW e \in Emitters, NEW s \in Signals, Emit(e, s) PROVE Iterators'
    <3>1. /\ e \notin Emitting
          /\ ApplicationRuns
          /\ \A d \in Emitting : connectionsChanged'[d] = connectionsChanged[d]
      BY <2>0, <2>2 DEF Emit, TypeOK
    <3>2. \A i \in 1 .. Len(frames) : frames[i].at # NoNode /\ frames[i].emitter # e
      BY <2>0, <3>1, AllInSlots, FramesTyped DEF Iterators, Emitting
    <3>7. /\ Len(frames) \in Nat
          /\ DOMAIN frames = 1 .. Len(frames)
          /\ DOMAIN frames' = 1 .. Len(frames) + 1
          /\ Len(frames') = Len(frames) + 1
          /\ \A i \in 1 .. Len(frames) : frames'[i] = frames[i]
          /\ frames'[Len(frames) + 1].emitter = e
      <4>1. Len(frames) \in Nat /\ DOMAIN frames = 1 .. Len(frames)
        BY <2>0, FramesTyped
      <4>2. /\ DOMAIN frames' = 1 .. Len(frames) + 1
            /\ Len(frames') = Len(frames) + 1
            /\ \A i \in 1 .. Len(frames) : frames'[i] = frames[i]
        BY <2>0, <2>2, EmitAppends
      <4>3. frames'[Len(frames) + 1] = [emitter |-> e, signal |-> s, at |-> NoNode,
                                        ahead |-> EqualRange(e, s), called |-> {}]
        BY <2>0, <2>2, EmitAppends
      <4>4. frames'[Len(frames) + 1].emitter = e
        BY <4>3
      <4> QED
        BY <4>1, <4>2, <4>4
    <3>3. OneEmission'
      BY <3>2, <3>7 DEF Iterators, OneEmission
    <3>4. OnlyTopIdle'
      BY <3>2, <3>7 DEF OnlyTopIdle, Depth
    <3>5. \A d \in Emitters, q \in Signals : EqualRange(d, q)' = EqualRange(d, q)
      BY <2>2 DEF Emit, EqualRange, NodesOf, Nodes
    <3>6. ASSUME NEW i \in DOMAIN frames' PROVE ValidAt(i)'
      <4>1. CASE i \in 1 .. Len(frames)
        <5>1. PICK d \in Emitting, q \in Signals : frames[i].emitter = d /\ frames[i].signal = q
          BY <2>0, <4>1, FramesTyped DEF Emitting, Frame
        <5>2. d \in Emitters
          BY <2>0 DEF TypeOK
        <5>3. frames'[i] = frames[i]
          BY <2>0, <2>2, <4>1, EmitAppends
        <5>4. \/ connectionsChanged[d] /\ frames[i].at # NoNode
              \/ (frames[i].ahead \cup ({frames[i].at} \ {NoNode})) \subseteq EqualRange(d, q)
          BY <2>0, <4>1, <5>1, FramesTyped DEF Iterators, IteratorValid
        <5>5. \/ connectionsChanged'[d] /\ frames[i].at # NoNode
              \/ (frames[i].ahead \cup ({frames[i].at} \ {NoNode})) \subseteq EqualRange(d, q)'
          BY <3>1, <3>5, <5>2, <5>4
        <5> QED
          BY <5>1, <5>3, <5>5 DEF ValidAt, EqualRange, NodesOf
      <4>2. CASE i = Len(frames) + 1
        <5>1. frames'[i] = [emitter |-> e, signal |-> s, at |-> NoNode,
                            ahead |-> EqualRange(e, s), called |-> {}]
          BY <2>0, <2>2, <4>2, EmitAppends
        <5>2. frames'[i].ahead \cup ({frames'[i].at} \ {NoNode}) = EqualRange(e, s)'
          BY <3>5, <5>1
        <5> QED
          BY <5>1, <5>2 DEF ValidAt, EqualRange, NodesOf
      <4> QED
        BY <3>7, <3>6, <4>1, <4>2
    <3> QED
      BY <3>3, <3>4, <3>6 DEF Iterators, IteratorValid, ValidAt
  <2>3. ASSUME NEW a \in Addresses, CallSlot(a) PROVE Iterators'
    <3> DEFINE f == [Top EXCEPT !.at = a, !.ahead = @ \ {a}, !.called = @ \cup {a}]
    <3>1. Depth > 0 /\ Top.at = NoNode /\ a \in Top.ahead /\ a \in Nodes
      BY <2>3 DEF CallSlot
    <3>2. /\ f \in Frame
          /\ f.emitter = Top.emitter
          /\ f.signal = Top.signal
          /\ f.at = a
          /\ f.ahead = Top.ahead \ {a}
      BY <2>0, <3>1, TopTyped DEF Frame
    <3>3. Top.ahead \subseteq EqualRange(Top.emitter, Top.signal)
      BY <2>0, <3>1, FramesTyped, TopTyped DEF Iterators, IteratorValid, Top
    <3>4. frames' = [frames EXCEPT ![Depth] = f]
      BY <2>3 DEF CallSlot
    <3>5. \A d \in Emitters, q \in Signals : EqualRange(d, q)' = EqualRange(d, q)
      BY <2>0, <2>3, <3>1, MarkKeepsRanges DEF CallSlot
    <3>6. connectionsChanged' = connectionsChanged
      BY <2>3 DEF CallSlot
    <3> HIDE DEF f
    <3>7. (f.ahead \cup ({f.at} \ {NoNode})) \subseteq EqualRange(f.emitter, f.signal)
      BY <3>1, <3>2, <3>3
    <3> QED
      BY <2>0, <3>1, <3>2, <3>4, <3>5, <3>6, <3>7, LoopStepKeepsIterators
  <2>4. ASSUME NEW a \in Addresses, SkipNode(a) PROVE Iterators'
    <3> DEFINE f == [Top EXCEPT !.ahead = @ \ {a}]
    <3>1. Depth > 0 /\ Top.at = NoNode
      BY <2>4 DEF SkipNode
    <3>2. /\ f \in Frame
          /\ f.emitter = Top.emitter
          /\ f.signal = Top.signal
          /\ f.at = NoNode
          /\ f.ahead \subseteq Top.ahead
      BY <2>0, <3>1, TopTyped DEF Frame
    <3>3. Top.ahead \subseteq EqualRange(Top.emitter, Top.signal)
      BY <2>0, <3>1, FramesTyped, TopTyped DEF Iterators, IteratorValid, Top
    <3>4. frames' = [frames EXCEPT ![Depth] = f]
      BY <2>4 DEF SkipNode, Top
    <3>5. \A d \in Emitters, q \in Signals : EqualRange(d, q)' = EqualRange(d, q)
      BY <2>4 DEF SkipNode, EqualRange, NodesOf, Nodes
    <3>6. connectionsChanged' = connectionsChanged
      BY <2>4 DEF SkipNode
    <3> HIDE DEF f
    <3>7. (f.ahead \cup ({f.at} \ {NoNode})) \subseteq EqualRange(f.emitter, f.signal)
      BY <3>1, <3>2, <3>3
    <3> QED
      BY <2>0, <3>1, <3>2, <3>4, <3>5, <3>6, <3>7, LoopStepKeepsIterators
  <2>5. CASE SlotReturns
    <3> DEFINE f == [Top EXCEPT !.at = NoNode, !.ahead = Refetch]
    <3>1. Depth > 0 /\ Top.at # NoNode
      BY <2>5 DEF SlotReturns
    <3>2. Top \in Frame /\ Refetch \in SUBSET Addresses
      BY <2>0, <3>1, TopTyped, NodeSets DEF Refetch, Frame
    <3>3. /\ f \in Frame
          /\ f.emitter = Top.emitter
          /\ f.signal = Top.signal
          /\ f.at = NoNode
          /\ f.ahead = Refetch
      BY <3>2 DEF Frame
    <3>4. Refetch \subseteq EqualRange(Top.emitter, Top.signal)
      <4>1. CASE connectionsChanged[Top.emitter]
        BY <4>1 DEF Refetch
      <4>2. CASE ~connectionsChanged[Top.emitter]
        <5>1. Top.ahead \subseteq EqualRange(Top.emitter, Top.signal)
          BY <2>0, <3>1, <4>2, FramesTyped, TopTyped DEF Iterators, IteratorValid, Top
        <5> QED
          BY <4>2, <5>1 DEF Refetch
      <4> QED
        BY <4>1, <4>2
    <3>5. frames' = [frames EXCEPT ![Depth] = f]
      BY <2>5 DEF SlotReturns
    <3>6. \A d \in Emitters, q \in Signals : EqualRange(d, q)' = EqualRange(d, q)
      BY <2>5 DEF SlotReturns, EqualRange, NodesOf, Nodes
    <3>7. \A d \in Emitters : d # Top.emitter => connectionsChanged'[d] = connectionsChanged[d]
      BY <2>0, <2>5 DEF SlotReturns, TypeOK
    <3> HIDE DEF f
    <3>8. (f.ahead \cup ({f.at} \ {NoNode})) \subseteq EqualRange(f.emitter, f.signal)
      BY <3>3, <3>4
    <3> QED
      BY <2>0, <3>1, <3>3, <3>5, <3>6, <3>7, <3>8, LoopStepKeepsIterators
  <2>6. CASE EmitReturns
    <3>1. \A i \in DOMAIN frames' : i \in DOMAIN frames /\ i # Depth /\ frames'[i] = frames[i]
      BY <2>0, <2>6, EmitReturnsPops
    <3>2. OneEmission' /\ OnlyTopIdle'
      BY <3>1 DEF Iterators, OneEmission, OnlyTopIdle
    <3>3. ASSUME NEW i \in DOMAIN frames' PROVE ValidAt(i)'
      <4>1. ValidAt(i) /\ frames'[i] = frames[i]
        BY <3>1 DEF Iterators, IteratorValid, ValidAt
      <4> QED
        BY <2>6, <4>1 DEF EmitReturns, ValidAt, EqualRange, NodesOf, Nodes
    <3> QED
      BY <3>2, <3>3 DEF Iterators, IteratorValid, ValidAt
  <2>7. CASE UNCHANGED vars
    BY <2>7 DEF vars, Iterators, OneEmission, OnlyTopIdle, IteratorValid, Depth,
                EqualRange, NodesOf, Nodes
  <2> QED
    BY <2>0, <2>1, <2>2, <2>3, <2>4, <2>5, <2>6, <2>7, OperationsKeepIterators
       DEF Next, EmissionLoop
<1>3. Spec => []Ends
  BY TypeCorrect, EndsInvariant, PTL DEF Ends
<1> QED
  BY <1>1, <1>2, <1>3, PTL DEF Spec

\* No emission goes on from an erased node, as long as no slot emits on an
\* emitter that is emitting.
THEOREM IteratorsCorrect ==
    ASSUME ~NestSameEmitter
    PROVE  Spec => []IteratorValid
BY IteratorsInvariant, PTL DEF Iterators

-----------------------------------------------------------------------------
(***************************************************************************)
(* Every emission calls all that is connected, provided emissions of one   *)
(* emitter do not nest and its counter does not wrap.  The marks of the    *)
(* nodes are then a faithful record: no mark is of the future, so that a   *)
(* new emission finds none of its own, and the nodes of the range that     *)
(* carry the current number are exactly those that were called.            *)
(***************************************************************************)
MarksPast ==
    \A a \in Nodes : connections[a].lastHandledSignal <= lastHandledSignal[connections[a].emitter]
CountersStarted ==
    \A i \in DOMAIN frames : lastHandledSignal[frames[i].emitter] > 0
CalledMarked ==
    \A i \in DOMAIN frames :
        frames[i].called = {a \in EqualRange(frames[i].emitter, frames[i].signal) :
                                connections[a].lastHandledSignal = lastHandledSignal[frames[i].emitter]}
NoneMissed ==
    \A i \in DOMAIN frames :
        \/ connectionsChanged[frames[i].emitter] /\ frames[i].at # NoNode
        \/ EqualRange(frames[i].emitter, frames[i].signal) \subseteq frames[i].called \cup frames[i].ahead
Marks == MarksPast /\ CountersStarted /\ CalledMarked /\ NoneMissed

\* After erasing A, the ranges are what they were without A.
LEMMA EraseRanges ==
    ASSUME NEW A \in SUBSET Addresses, Erase(A)
    PROVE  /\ Nodes' = Nodes \ A
           /\ \A a \in Nodes' : connections'[a] = connections[a]
           /\ \A e, s : EqualRange(e, s)' = EqualRange(e, s) \ A
<1>1. Nodes' = Nodes \ A /\ \A a \in Nodes' : connections'[a] = connections[a]
  BY DEF Nodes, Erase
<1>2. ASSUME NEW e, NEW s PROVE EqualRange(e, s)' = EqualRange(e, s) \ A
  BY <1>1 DEF EqualRange, NodesOf
<1> QED
  BY <1>1, <1>2

\* Erasing nodes takes them from the histories and from the ranges alike.
LEMMA EraseKeepsMarks ==
    ASSUME TypeOK, Marks, NEW A \in SUBSET Addresses, Erase(A), UNCHANGED lastHandledSignal,
           \A i \in DOMAIN frames : connectionsChanged[frames[i].emitter] => connectionsChanged'[frames[i].emitter]
    PROVE  Marks'
<1>1. /\ Nodes' = Nodes \ A
      /\ \A a \in Nodes' : connections'[a] = connections[a]
      /\ \A e, s : EqualRange(e, s)' = EqualRange(e, s) \ A
  BY EraseRanges
<1>2. /\ DOMAIN frames' = DOMAIN frames
      /\ \A i \in DOMAIN frames : frames'[i] = [frames[i] EXCEPT !.called = @ \ A] /\ frames[i] \in Frame
  BY FramesTyped, EraseTyped, LenProperties
<1>3. ASSUME NEW i \in DOMAIN frames
      PROVE  /\ frames'[i].emitter = frames[i].emitter
             /\ frames'[i].signal = frames[i].signal
             /\ frames'[i].at = frames[i].at
             /\ frames'[i].ahead = frames[i].ahead
             /\ frames'[i].called = frames[i].called \ A
  BY <1>2 DEF Frame
<1>4. MarksPast'
  BY <1>1 DEF Marks, MarksPast
<1>5. CountersStarted'
  BY <1>2, <1>3 DEF Marks, CountersStarted
<1>7. CalledMarked'
  <2> SUFFICES ASSUME NEW i \in DOMAIN frames
               PROVE  frames[i].called \ A =
                        {a \in EqualRange(frames[i].emitter, frames[i].signal) \ A :
                            connections'[a].lastHandledSignal = lastHandledSignal[frames[i].emitter]}
    BY <1>1, <1>2, <1>3 DEF CalledMarked
  <2>1. EqualRange(frames[i].emitter, frames[i].signal) \subseteq Nodes
    BY DEF EqualRange, NodesOf
  <2> QED
    BY <1>1, <2>1 DEF Marks, CalledMarked
<1>8. NoneMissed'
  <2> SUFFICES ASSUME NEW i \in DOMAIN frames
               PROVE  \/ connectionsChanged'[frames[i].emitter] /\ frames[i].at # NoNode
                      \/ EqualRange(frames[i].emitter, frames[i].signal) \ A
                            \subseteq (frames[i].called \ A) \cup frames[i].ahead
    BY <1>1, <1>2, <1>3 DEF NoneMissed
  <2> QED
    BY DEF Marks, NoneMissed
<1> QED
  BY <1>4, <1>5, <1>7, <1>8 DEF Marks

\* A step of the loop: the frame on top becomes f, the rest of the stack stays.
LEMMA TopBecomes ==
    ASSUME TypeOK, Depth > 0, NEW f \in Frame, frames' = [frames EXCEPT ![Depth] = f]
    PROVE  /\ DOMAIN frames' = DOMAIN frames
           /\ \A i \in DOMAIN frames : frames'[i] = IF i = Depth THEN f ELSE frames[i]
           /\ Depth \in DOMAIN frames /\ frames[Depth] = Top
BY FramesTyped, TopTyped, ExceptSeq, LenProperties DEF Top

\* Marking and calling a slot add it to what is called, and only there.
LEMMA CallKeepsMarks ==
    ASSUME TypeOK, Iterators, Marks, NEW a \in Addresses, CallSlot(a)
    PROVE  Marks'
<1> DEFINE f == [Top EXCEPT !.at = a, !.ahead = @ \ {a}, !.called = @ \cup {a}]
           n == lastHandledSignal[Top.emitter]
<1>1. Depth > 0 /\ Top.at = NoNode /\ a \in Top.ahead /\ a \in Nodes /\ Mark(a)
  BY DEF CallSlot
<1>2. Top \in Frame /\ f \in Frame
  BY <1>1, TopTyped DEF Frame
<1>3. /\ f.emitter = Top.emitter
      /\ f.signal = Top.signal
      /\ f.at = a
      /\ f.ahead = Top.ahead \ {a}
      /\ f.called = Top.called \cup {a}
  BY <1>2 DEF Frame
<1>4. frames' = [frames EXCEPT ![Depth] = f]
  BY DEF CallSlot
<1> HIDE DEF f
<1>5. /\ DOMAIN frames' = DOMAIN frames
      /\ \A i \in DOMAIN frames : frames'[i] = IF i = Depth THEN f ELSE frames[i]
      /\ Depth \in DOMAIN frames /\ frames[Depth] = Top
  BY <1>1, <1>2, <1>4, TopBecomes
<1>6. lastHandledSignal' = lastHandledSignal /\ connectionsChanged' = connectionsChanged
  BY DEF CallSlot
<1>7. a \in EqualRange(Top.emitter, Top.signal)
  BY <1>1, <1>5 DEF Iterators, IteratorValid
<1>8. /\ connections[a] \in ConnectionData
      /\ connections' = [connections EXCEPT ![a] = [connections[a] EXCEPT !.lastHandledSignal = n]]
      /\ n \in Counter
  BY <1>1, <1>2, NodeTyped DEF Mark, TypeOK, Frame
<1> HIDE DEF n
<1>9. /\ connections'[a].lastHandledSignal = n
      /\ connections'[a].emitter = connections[a].emitter
      /\ connections'[a] # Freed
      /\ \A b \in Addresses : b # a => connections'[b] = connections[b]
  <2>1. connections'[a] = [connections[a] EXCEPT !.lastHandledSignal = n]
    BY <1>8 DEF TypeOK
  <2>2. [connections[a] EXCEPT !.lastHandledSignal = n] \in ConnectionData
    BY <1>8 DEF ConnectionData
  <2> QED
    BY <1>8, <2>1, <2>2, FreedIsNoNode DEF TypeOK, ConnectionData
<1>10. Nodes' = Nodes
  BY <1>1, <1>9 DEF Nodes
<1>11. connections[a].emitter = Top.emitter
  BY <1>7 DEF EqualRange, NodesOf
<1>12. MarksPast'
  <2> SUFFICES ASSUME NEW b \in Nodes
               PROVE  connections'[b].lastHandledSignal <= lastHandledSignal[connections'[b].emitter]
    BY <1>6, <1>10 DEF MarksPast
  <2>1. CASE b = a
    BY <1>8, <1>9, <1>11, <2>1 DEF n, Counter
  <2>2. CASE b # a
    BY <1>9, <2>2 DEF Marks, MarksPast, Nodes
  <2> QED
    BY <2>1, <2>2
<1>13. \A e \in Emitters, s \in Signals : EqualRange(e, s)' = EqualRange(e, s)
  BY <1>1, MarkKeepsRanges
<1>14. CountersStarted'
  BY <1>3, <1>5, <1>6 DEF Marks, CountersStarted
<1>15. ASSUME NEW i \in DOMAIN frames
       PROVE  /\ frames[i] \in Frame
              /\ frames'[i].emitter = frames[i].emitter
              /\ frames'[i].signal = frames[i].signal
              /\ EqualRange(frames[i].emitter, frames[i].signal)' = EqualRange(frames[i].emitter, frames[i].signal)
  <2>1. /\ frames[i] \in Frame
        /\ frames'[i].emitter = frames[i].emitter
        /\ frames'[i].signal = frames[i].signal
    BY <1>3, <1>5, FramesTyped
  <2>2. PICK e \in Emitters, s \in Signals : frames[i].emitter = e /\ frames[i].signal = s
    BY <2>1 DEF Frame
  <2>3. EqualRange(e, s)' = EqualRange(e, s)
    BY <1>13
  <2> QED
    BY <2>1, <2>2, <2>3
<1>16. CalledMarked'
  <2> SUFFICES ASSUME NEW i \in DOMAIN frames
               PROVE  frames'[i].called =
                        {b \in EqualRange(frames[i].emitter, frames[i].signal) :
                            connections'[b].lastHandledSignal = lastHandledSignal[frames[i].emitter]}
    BY <1>5, <1>6, <1>15 DEF CalledMarked
  <2> DEFINE R == EqualRange(frames[i].emitter, frames[i].signal)
  <2>1. frames[i].called = {b \in R : connections[b].lastHandledSignal = lastHandledSignal[frames[i].emitter]}
    BY DEF Marks, CalledMarked
  <2>2. R \subseteq Addresses
    BY DEF EqualRange, NodesOf, Nodes
  <2>3. CASE i = Depth
    <3>1. frames[i] = Top /\ frames'[i].called = Top.called \cup {a} /\ a \in R
      BY <1>3, <1>5, <1>7, <2>3
    <3> QED
      BY <1>9, <2>1, <2>2, <3>1 DEF n
  <2>4. CASE i # Depth
    <3>1. a \notin R
      <4>1. frames[i].emitter # Top.emitter
        BY <1>5, <2>4 DEF Iterators, OneEmission
      <4> QED
        BY <1>11, <4>1 DEF EqualRange, NodesOf
    <3>2. frames'[i] = frames[i]
      BY <1>5, <2>4
    <3> QED
      BY <1>9, <2>1, <2>2, <3>1, <3>2
  <2> QED
    BY <2>3, <2>4
<1>17. NoneMissed'
  <2> SUFFICES ASSUME NEW i \in DOMAIN frames
               PROVE  \/ connectionsChanged[frames[i].emitter] /\ frames'[i].at # NoNode
                      \/ EqualRange(frames[i].emitter, frames[i].signal) \subseteq frames'[i].called \cup frames'[i].ahead
    BY <1>5, <1>6, <1>15 DEF NoneMissed
  <2>1. CASE i = Depth
    BY <1>1, <1>3, <1>5, <2>1 DEF Marks, NoneMissed
  <2>2. CASE i # Depth
    BY <1>5, <2>2 DEF Marks, NoneMissed
  <2> QED
    BY <2>1, <2>2
<1> QED
  BY <1>12, <1>14, <1>16, <1>17 DEF Marks

\* An operation of the application that leaves the stack alone: what has been
\* called is still what is marked, and a new connection raises its emitter's flag.
LEMMA SameStackKeepsMarks ==
    ASSUME TypeOK, Iterators, Marks, ApplicationRuns, frames' = frames, MarksPast',
           \A e \in Emitting : lastHandledSignal'[e] = lastHandledSignal[e],
           \A e \in Emitting, s \in Signals :
                {a \in EqualRange(e, s)' : connections'[a].lastHandledSignal = lastHandledSignal[e]}
                    = {a \in EqualRange(e, s) : connections[a].lastHandledSignal = lastHandledSignal[e]},
           \A e \in Emitting, s \in Signals :
                \/ connectionsChanged'[e]
                \/ ~connectionsChanged[e] /\ EqualRange(e, s)' \subseteq EqualRange(e, s)
    PROVE  Marks'
<1>1. ASSUME NEW i \in DOMAIN frames
      PROVE  /\ lastHandledSignal'[frames[i].emitter] > 0
             /\ frames[i].called = {a \in EqualRange(frames[i].emitter, frames[i].signal)' :
                    connections'[a].lastHandledSignal = lastHandledSignal'[frames[i].emitter]}
             /\ \/ connectionsChanged'[frames[i].emitter] /\ frames[i].at # NoNode
                \/ EqualRange(frames[i].emitter, frames[i].signal)'
                        \subseteq frames[i].called \cup frames[i].ahead
  <2>1. PICK e \in Emitting, s \in Signals : frames[i].emitter = e /\ frames[i].signal = s
    BY FramesTyped DEF Emitting, Frame
  <2>2. /\ lastHandledSignal[e] > 0
        /\ frames[i].called = {a \in EqualRange(e, s) :
                connections[a].lastHandledSignal = lastHandledSignal[e]}
        /\ \/ connectionsChanged[e] /\ frames[i].at # NoNode
           \/ EqualRange(e, s) \subseteq frames[i].called \cup frames[i].ahead
    BY <2>1 DEF Marks, CountersStarted, CalledMarked, NoneMissed
  <2>3. frames[i].at # NoNode
    BY AllInSlots DEF Iterators
  <2>4. lastHandledSignal'[e] > 0
    BY <2>2
  <2>5. frames[i].called = {a \in EqualRange(e, s)' :
                connections'[a].lastHandledSignal = lastHandledSignal'[e]}
    BY <2>2
  <2>6. \/ connectionsChanged'[e] /\ frames[i].at # NoNode
        \/ EqualRange(e, s)' \subseteq frames[i].called \cup frames[i].ahead
    BY <2>2, <2>3
  <2>7. frames'[i].emitter = e /\ frames'[i].signal = s
    BY <2>1
  <2> QED
    BY <2>1, <2>4, <2>5, <2>6, <2>7 DEF EqualRange, NodesOf
<1>2. CountersStarted'
  BY <1>1 DEF CountersStarted
<1>3. CalledMarked'
  BY <1>1 DEF CalledMarked, EqualRange, NodesOf
<1>4. NoneMissed'
  BY <1>1 DEF NoneMissed, EqualRange, NodesOf
<1> QED
  BY <1>2, <1>3, <1>4 DEF Marks

\* A loop step that calls nothing: the innermost frame becomes f.
LEMMA LoopStepKeepsMarks ==
    ASSUME TypeOK, Iterators, Marks, Depth > 0, NEW f \in Frame,
           f.emitter = Top.emitter, f.signal = Top.signal, f.called = Top.called,
           frames' = [frames EXCEPT ![Depth] = f],
           UNCHANGED <<connections, lastHandledSignal>>,
           \A d \in Emitters : d # Top.emitter => connectionsChanged'[d] = connectionsChanged[d],
           \/ EqualRange(Top.emitter, Top.signal) \subseteq Top.called \cup f.ahead
           \/ connectionsChanged'[Top.emitter] /\ f.at # NoNode
    PROVE  Marks'
<1>1. /\ DOMAIN frames' = DOMAIN frames
      /\ \A i \in DOMAIN frames : frames'[i] = IF i = Depth THEN f ELSE frames[i]
      /\ Depth \in DOMAIN frames /\ frames[Depth] = Top
  BY TopBecomes
<1>2. \A d, q : EqualRange(d, q)' = EqualRange(d, q)
  BY DEF EqualRange, NodesOf, Nodes
<1>3. \A i \in DOMAIN frames : /\ frames'[i].emitter = frames[i].emitter
                               /\ frames'[i].signal = frames[i].signal
                               /\ frames'[i].called = frames[i].called
  BY <1>1
<1>4. MarksPast'
  BY DEF Marks, MarksPast, Nodes
<1>5. CountersStarted'
  BY <1>1, <1>3 DEF Marks, CountersStarted
<1>6. CalledMarked'
  <2> SUFFICES ASSUME NEW i \in DOMAIN frames
               PROVE  frames[i].called =
                        {b \in EqualRange(frames[i].emitter, frames[i].signal) :
                            connections[b].lastHandledSignal = lastHandledSignal[frames[i].emitter]}
    BY <1>1, <1>2, <1>3 DEF CalledMarked
  <2> QED
    BY DEF Marks, CalledMarked
<1>7. NoneMissed'
  <2> SUFFICES ASSUME NEW i \in DOMAIN frames
               PROVE  \/ connectionsChanged'[frames[i].emitter] /\ frames'[i].at # NoNode
                      \/ EqualRange(frames[i].emitter, frames[i].signal)
                            \subseteq frames[i].called \cup frames'[i].ahead
    BY <1>1, <1>2, <1>3 DEF NoneMissed
  <2>1. CASE i = Depth
    BY <1>1, <2>1
  <2>2. CASE i # Depth
    <3>1. frames[i].emitter # Top.emitter
      BY <1>1, <2>2 DEF Iterators, OneEmission
    <3>2. frames[i].emitter \in Emitters
      BY FramesTyped DEF Frame
    <3> QED
      BY <1>1, <2>2, <3>1, <3>2 DEF Marks, NoneMissed
  <2> QED
    BY <2>1, <2>2
<1> QED
  BY <1>4, <1>5, <1>6, <1>7 DEF Marks

\* Every operation of the application that is not itself an emission.
LEMMA OperationsKeepMarks ==
    ASSUME Ends, Iterators, Marks
    PROVE  /\ \A e \in Emitters : ConstructEmitter(e) => Marks'
           /\ \A e \in Emitters : DestroyEmitter(e) => Marks'
           /\ \A r \in Receivers : ConstructReceiver(r) => Marks'
           /\ \A r \in Receivers : DestroyReceiver(r) \/ DisconnectAllSlots(r) => Marks'
           /\ AnyConnect => Marks'
           /\ \A h \in handles : Disconnect(h) => Marks'
           /\ \A e \in Emitters, s \in Signals : DisconnectSignal(e, s) => Marks'
           /\ \A e \in Emitters : DisconnectAllSignals(e) => Marks'
<1>0. /\ TypeOK
      /\ Emitting \subseteq emitters /\ emitters \subseteq Emitters
      /\ \A a \in Nodes : connections[a].emitter \in emitters
      /\ \A i \in DOMAIN frames : frames[i].emitter \in Emitters
  BY FramesTyped DEF Ends, NoDeadEnds, TypeOK, Frame
<1>1. ASSUME NEW e \in Emitters, ConstructEmitter(e) PROVE Marks'
  <2>1. /\ e \notin emitters
        /\ frames' = frames /\ connections' = connections /\ ApplicationRuns
        /\ \A d \in Emitters \ {e} : /\ lastHandledSignal'[d] = lastHandledSignal[d]
                                     /\ connectionsChanged'[d] = connectionsChanged[d]
    BY <1>0, <1>1 DEF ConstructEmitter, TypeOK
  <2>2. MarksPast'
    BY <1>0, <2>1 DEF Marks, MarksPast, Nodes
  <2>3. \A d, q : EqualRange(d, q)' = EqualRange(d, q)
    BY <2>1 DEF EqualRange, NodesOf, Nodes
  <2>4. \A d \in Emitting : d \in Emitters \ {e}
    BY <1>0, <2>1
  <2> QED
    BY <1>0, <2>1, <2>2, <2>3, <2>4, SameStackKeepsMarks DEF TypeOK
<1>2. ASSUME NEW e \in Emitters, DestroyEmitter(e) PROVE Marks'
  BY <1>0, <1>2, NodeSets, EraseKeepsMarks DEF DestroyEmitter
<1>3. ASSUME NEW r \in Receivers, ConstructReceiver(r) PROVE Marks'
  <2>1. UNCHANGED <<frames, connections, lastHandledSignal, connectionsChanged>>
    BY <1>3 DEF ConstructReceiver
  <2> QED
    BY <2>1 DEF Marks, MarksPast, CountersStarted, CalledMarked, NoneMissed,
                EqualRange, NodesOf, Nodes
<1>4. ASSUME NEW r \in Receivers, ClearSlots(r), UNCHANGED lastHandledSignal PROVE Marks'
  <2>1. {x.data : x \in Found(r)} \in SUBSET Addresses
    BY <1>0 DEF Found, TypeOK, Reference
  <2> QED
    BY <1>0, <1>4, <2>1, EraseKeepsMarks DEF ClearSlots
<1>5. ASSUME NEW r \in Receivers, DestroyReceiver(r) \/ DisconnectAllSlots(r) PROVE Marks'
  BY <1>4, <1>5 DEF DestroyReceiver, DisconnectAllSlots
<1>6. ASSUME NEW e \in Emitters, NEW s \in Signals, NEW r \in Receivers \cup {NoReceiver},
             NEW a \in Addresses, Connect(e, s, r, a)
      PROVE  Marks'
  <2>1. /\ connections'[a].emitter = e
        /\ connections'[a].signal = s
        /\ connections'[a].lastHandledSignal = 0
        /\ \A b \in Addresses \ {a} : connections'[b] = connections[b]
        /\ a \notin Nodes
        /\ UNCHANGED <<frames, lastHandledSignal>> /\ ApplicationRuns
        /\ connectionsChanged'[e]
        /\ \A d \in Emitters \ {e} : connectionsChanged'[d] = connectionsChanged[d]
    BY <1>0, <1>6 DEF Connect, TellEmission, TypeOK, Nodes
  <2>2. MarksPast'
    <3> SUFFICES ASSUME NEW b \in Nodes'
                 PROVE  connections'[b].lastHandledSignal <= lastHandledSignal[connections'[b].emitter]
      BY <2>1 DEF MarksPast
    <3>1. CASE b = a
      BY <1>0, <2>1, <3>1 DEF TypeOK, Counter
    <3>2. CASE b # a
      <4>1. b \in Nodes /\ connections'[b] = connections[b]
        BY <2>1, <3>2 DEF Nodes
      <4> QED
        BY <4>1 DEF Marks, MarksPast
    <3> QED
      BY <3>1, <3>2
  <2>3. \A d, q : EqualRange(d, q)' \ {a} = EqualRange(d, q)
    BY <2>1 DEF EqualRange, NodesOf, Nodes
  <2>4. ASSUME NEW d \in Emitting PROVE lastHandledSignal[d] > 0
    BY DEF Emitting, Marks, CountersStarted
  <2>5. ASSUME NEW d \in Emitting, NEW q \in Signals
        PROVE  {b \in EqualRange(d, q)' : connections'[b].lastHandledSignal = lastHandledSignal[d]}
                    = {b \in EqualRange(d, q) : connections[b].lastHandledSignal = lastHandledSignal[d]}
    <3>1. EqualRange(d, q)' \subseteq Addresses /\ EqualRange(d, q) \subseteq Addresses
      BY DEF EqualRange, NodesOf, Nodes
    <3> QED
      BY <2>1, <2>3, <2>4, <3>1
  <2>6. ASSUME NEW d \in Emitting, NEW q \in Signals
        PROVE  connectionsChanged'[d] \/ (~connectionsChanged[d] /\ EqualRange(d, q)' \subseteq EqualRange(d, q))
    <3>1. CASE d = e
      BY <2>1, <3>1
    <3>2. CASE d # e
      <4>1. a \notin EqualRange(d, q)'
        BY <2>1, <3>2 DEF EqualRange, NodesOf
      <4> QED
        BY <1>0, <2>1, <2>3, <3>2, <4>1 DEF TypeOK
    <3> QED
      BY <3>1, <3>2
  <2> QED
    BY <1>0, <2>1, <2>2, <2>5, <2>6, SameStackKeepsMarks
<1>7. ASSUME NEW e \in Emitters, NEW A \in SUBSET Addresses, Erase(A), TellEmission(e),
             UNCHANGED lastHandledSignal
      PROVE  Marks'
  BY <1>0, <1>7, EraseKeepsMarks DEF TellEmission, TypeOK
<1>8. ASSUME NEW h \in handles, Disconnect(h) PROVE Marks'
  <2>1. h.emitter \in Emitters /\ {h.data} \in SUBSET Addresses
    BY <1>0 DEF TypeOK, Reference
  <2> QED
    BY <1>7, <1>8, <2>1 DEF Disconnect
<1>9. ASSUME NEW e \in Emitters, NEW s \in Signals, DisconnectSignal(e, s) PROVE Marks'
  BY <1>7, <1>9, NodeSets DEF DisconnectSignal
<1>10. ASSUME NEW e \in Emitters, DisconnectAllSignals(e) PROVE Marks'
  BY <1>7, <1>10, NodeSets DEF DisconnectAllSignals
<1> QED
  BY <1>1, <1>2, <1>3, <1>5, <1>6, <1>8, <1>9, <1>10 DEF AnyConnect

\* A new emission counts one further, so that no node is marked for it yet.
LEMMA EmitKeepsMarks ==
    ASSUME TypeOK, Iterators, Marks, ~NestSameEmitter, ~WrapAround,
           NEW e \in Emitters, NEW s \in Signals, Emit(e, s)
    PROVE  Marks'
<1>1. /\ e \notin Emitting
      /\ ApplicationRuns
      /\ UNCHANGED connections
      /\ lastHandledSignal[e] + 1 < CounterValues
      /\ \A d \in Emitters \ {e} : /\ connectionsChanged'[d] = connectionsChanged[d]
                                   /\ lastHandledSignal'[d] = lastHandledSignal[d]
  BY DEF Emit, TypeOK
<1>2. /\ lastHandledSignal[e] \in Nat
      /\ lastHandledSignal'[e] = lastHandledSignal[e] + 1
      /\ \A d \in Emitters : lastHandledSignal[d] \in Nat
  <2>1. \A d \in Emitters : lastHandledSignal[d] \in Nat
    BY DEF TypeOK, Counter
  <2>2. NextSignal(e) = lastHandledSignal[e] + 1
    BY <1>1, <2>1, InterconnectAssumption DEF NextSignal
  <2> QED
    BY <2>1, <2>2 DEF Emit, TypeOK
<1>3. \A d, q : EqualRange(d, q)' = EqualRange(d, q)
  BY <1>1 DEF EqualRange, NodesOf, Nodes
<1>4. /\ Len(frames) \in Nat
      /\ DOMAIN frames = 1 .. Len(frames)
      /\ \A i \in 1 .. Len(frames) : frames[i] \in Frame /\ frames[i].emitter \in Emitters \ {e}
                                    /\ frames[i].at # NoNode
  BY <1>1, FramesTyped, AllInSlots DEF Iterators, Emitting, Frame
<1>5. /\ DOMAIN frames' = 1 .. Len(frames) + 1
      /\ \A i \in 1 .. Len(frames) : frames'[i] = frames[i]
  BY EmitAppends
<1>6. /\ frames'[Len(frames) + 1].emitter = e
      /\ frames'[Len(frames) + 1].signal = s
      /\ frames'[Len(frames) + 1].ahead = EqualRange(e, s)
      /\ frames'[Len(frames) + 1].called = {}
  <2>1. frames'[Len(frames) + 1] = [emitter |-> e, signal |-> s, at |-> NoNode,
                                    ahead |-> EqualRange(e, s), called |-> {}]
    BY EmitAppends
  <2> QED
    BY <2>1
<1>7. MarksPast'
  <2> SUFFICES ASSUME NEW a \in Nodes
               PROVE  connections[a].lastHandledSignal <= lastHandledSignal'[connections[a].emitter]
    BY <1>1 DEF MarksPast, Nodes
  <2>1. connections[a].lastHandledSignal \in Nat /\ connections[a].emitter \in Emitters
    BY NodeTyped DEF ConnectionData, Counter
  <2> QED
    BY <1>1, <1>2, <2>1 DEF Marks, MarksPast
<1>8. ASSUME NEW i \in DOMAIN frames'
      PROVE  i \in 1 .. Len(frames) \/ i = Len(frames) + 1
  BY <1>4, <1>5
<1>9. CountersStarted'
  <2> SUFFICES ASSUME NEW i \in DOMAIN frames' PROVE lastHandledSignal'[frames'[i].emitter] > 0
    BY DEF CountersStarted
  <2> QED
    BY <1>1, <1>2, <1>4, <1>5, <1>6, <1>8 DEF Marks, CountersStarted
<1>10. CalledMarked'
  <2> SUFFICES ASSUME NEW i \in DOMAIN frames'
               PROVE  frames'[i].called =
                        {a \in EqualRange(frames'[i].emitter, frames'[i].signal) :
                            connections[a].lastHandledSignal = lastHandledSignal'[frames'[i].emitter]}
    BY <1>1 DEF CalledMarked, EqualRange, NodesOf, Nodes
  <2>1. CASE i \in 1 .. Len(frames)
    BY <1>1, <1>4, <1>5, <2>1 DEF Marks, CalledMarked
  <2>2. CASE i = Len(frames) + 1
    <3>1. ASSUME NEW a \in EqualRange(e, s) PROVE connections[a].lastHandledSignal # lastHandledSignal'[e]
      <4>1. a \in Nodes /\ connections[a].emitter = e
        BY DEF EqualRange, NodesOf
      <4>2. connections[a].lastHandledSignal \in Nat
        BY <4>1, NodeTyped DEF ConnectionData, Counter
      <4> QED
        BY <1>2, <4>1, <4>2 DEF Marks, MarksPast
    <3> QED
      BY <1>6, <2>2, <3>1
  <2> QED
    BY <1>8, <2>1, <2>2
<1>11. NoneMissed'
  <2> SUFFICES ASSUME NEW i \in DOMAIN frames'
               PROVE  \/ connectionsChanged'[frames'[i].emitter] /\ frames'[i].at # NoNode
                      \/ EqualRange(frames'[i].emitter, frames'[i].signal)
                            \subseteq frames'[i].called \cup frames'[i].ahead
    BY <1>1 DEF NoneMissed, EqualRange, NodesOf, Nodes
  <2>1. CASE i \in 1 .. Len(frames)
    BY <1>1, <1>4, <1>5, <2>1 DEF Marks, NoneMissed
  <2>2. CASE i = Len(frames) + 1
    BY <1>6, <2>2
  <2> QED
    BY <1>8, <2>1, <2>2
<1> QED
  BY <1>7, <1>9, <1>10, <1>11 DEF Marks


\* The marks tell what the emission on top has called.
LEMMA TopMarks ==
    ASSUME TypeOK, Iterators, Marks, Depth > 0
    PROVE  /\ Top \in Frame
           /\ Top.called = {a \in EqualRange(Top.emitter, Top.signal) : Handled(a)}
           /\ \/ connectionsChanged[Top.emitter] /\ Top.at # NoNode
              \/ EqualRange(Top.emitter, Top.signal) \subseteq Top.called \cup Top.ahead
           /\ \/ connectionsChanged[Top.emitter] /\ Top.at # NoNode
              \/ Top.ahead \subseteq EqualRange(Top.emitter, Top.signal)
BY FramesTyped, TopTyped DEF Iterators, IteratorValid, Marks, CalledMarked, NoneMissed, Handled, Top

\* Every step keeps the marks.
LEMMA MarksStep ==
    ASSUME ~NestSameEmitter, ~WrapAround, Ends, Iterators, Marks, [Next]_vars
    PROVE  Marks'
<1>0. TypeOK
  BY DEF Ends
<1>1. ASSUME NEW e \in Emitters, NEW s \in Signals, Emit(e, s) PROVE Marks'
  BY <1>0, <1>1, EmitKeepsMarks
<1>2. ASSUME NEW a \in Addresses, CallSlot(a) PROVE Marks'
  BY <1>0, <1>2, CallKeepsMarks
<1>3. ASSUME NEW a \in Addresses, SkipNode(a) PROVE Marks'
  <2> DEFINE f == [Top EXCEPT !.ahead = @ \ {a}]
  <2>1. Depth > 0 /\ Top.at = NoNode /\ a \in Top.ahead /\ Handled(a)
    BY <1>3 DEF SkipNode
  <2>2. Top \in Frame
    BY <1>0, <2>1, TopMarks
  <2>3. /\ f \in Frame
        /\ f.emitter = Top.emitter
        /\ f.signal = Top.signal
        /\ f.called = Top.called
        /\ f.ahead = Top.ahead \ {a}
    BY <2>2 DEF Frame
  <2>4. frames' = [frames EXCEPT ![Depth] = f]
    BY <1>3 DEF SkipNode, Top
  <2>5. UNCHANGED <<connections, lastHandledSignal, connectionsChanged>>
    BY <1>3 DEF SkipNode
  <2> HIDE DEF f
  <2>6. EqualRange(Top.emitter, Top.signal) \subseteq Top.called \cup f.ahead
    BY <1>0, <2>1, <2>3, TopMarks
  <2> QED
    BY <1>0, <2>1, <2>3, <2>4, <2>5, <2>6, LoopStepKeepsMarks
<1>4. CASE SlotReturns
  <2> DEFINE f == [Top EXCEPT !.at = NoNode, !.ahead = Refetch]
  <2>1. Depth > 0
    BY <1>4 DEF SlotReturns
  <2>2. Top \in Frame /\ Refetch \in SUBSET Addresses
    BY <1>0, <2>1, TopTyped, NodeSets DEF Refetch, Frame
  <2>3. /\ f \in Frame
        /\ f.emitter = Top.emitter
        /\ f.signal = Top.signal
        /\ f.called = Top.called
        /\ f.ahead = Refetch
    BY <2>2 DEF Frame
  <2>4. frames' = [frames EXCEPT ![Depth] = f]
    BY <1>4 DEF SlotReturns
  <2>5. /\ UNCHANGED <<connections, lastHandledSignal>>
        /\ \A d \in Emitters : d # Top.emitter => connectionsChanged'[d] = connectionsChanged[d]
    BY <1>0, <1>4 DEF SlotReturns, TypeOK
  <2> HIDE DEF f
  <2>6. EqualRange(Top.emitter, Top.signal) \subseteq Top.called \cup f.ahead
    BY <1>0, <2>1, <2>3, TopMarks DEF Refetch
  <2> QED
    BY <1>0, <2>1, <2>3, <2>4, <2>5, <2>6, LoopStepKeepsMarks
<1>5. CASE EmitReturns
  <2>1. \A i \in DOMAIN frames' : i \in DOMAIN frames /\ frames'[i] = frames[i]
    BY <1>0, <1>5, EmitReturnsPops
  <2>2. UNCHANGED <<connections, lastHandledSignal, connectionsChanged>>
    BY <1>5 DEF EmitReturns
  <2>3. \A d, q : EqualRange(d, q)' = EqualRange(d, q)
    BY <2>2 DEF EqualRange, NodesOf, Nodes
  <2>4. MarksPast' /\ CountersStarted'
    BY <2>1, <2>2 DEF Marks, MarksPast, CountersStarted, Nodes
  <2>5. CalledMarked'
    <3> SUFFICES ASSUME NEW i \in DOMAIN frames'
                 PROVE  frames[i].called =
                          {a \in EqualRange(frames[i].emitter, frames[i].signal) :
                              connections[a].lastHandledSignal = lastHandledSignal[frames[i].emitter]}
      BY <2>1, <2>2, <2>3 DEF CalledMarked
    <3> QED
      BY <2>1 DEF Marks, CalledMarked
  <2>6. NoneMissed'
    <3> SUFFICES ASSUME NEW i \in DOMAIN frames'
                 PROVE  \/ connectionsChanged[frames[i].emitter] /\ frames[i].at # NoNode
                        \/ EqualRange(frames[i].emitter, frames[i].signal)
                              \subseteq frames[i].called \cup frames[i].ahead
      BY <2>1, <2>2, <2>3 DEF NoneMissed
    <3> QED
      BY <2>1 DEF Marks, NoneMissed
  <2> QED
    BY <2>4, <2>5, <2>6 DEF Marks
<1>6. CASE UNCHANGED vars
  BY <1>6 DEF vars, Marks, MarksPast, CountersStarted, CalledMarked, NoneMissed,
              EqualRange, NodesOf, Nodes
<1> QED
  BY <1>1, <1>2, <1>3, <1>4, <1>5, <1>6, OperationsKeepMarks DEF Next, EmissionLoop

LEMMA MarksInvariant ==
    ASSUME ~NestSameEmitter, ~WrapAround
    PROVE  Spec => []Marks
<1>1. Init => Marks
  BY DEF Init, Marks, MarksPast, CountersStarted, CalledMarked, NoneMissed, Nodes
<1>2. Ends /\ Iterators /\ Marks /\ [Next]_vars => Marks'
  BY MarksStep
<1> QED
  BY <1>1, <1>2, IteratorsInvariant, PTL DEF Spec

\* "all slots connected to it are called" (doc/interconnect.dox:41): emit() never
\* returns before it has called every slot connected by then.
THEOREM AllDelivered ==
    ASSUME ~NestSameEmitter, ~WrapAround
    PROVE  Spec => []Delivered
<1>1. Ends /\ Iterators /\ Marks => Delivered
  BY TopMarks DEF Ends, Delivered
<1> QED
  BY <1>1, IteratorsInvariant, MarksInvariant, PTL


-----------------------------------------------------------------------------
(***************************************************************************)
(* Interconnect implements SignalBus, action by action.  Links and         *)
(* Emissions are the state of the bus; BusActions restates its actions     *)
(* with them, so that the steps below need not expand the instance.        *)
(***************************************************************************)
Links == [a \in Addresses |-> IF connections[a] = Freed THEN Freed
            ELSE [emitter |-> connections[a].emitter,
                  signal |-> connections[a].signal,
                  receiver |-> connections[a].receiver]]

Emissions == [i \in DOMAIN frames |-> [emitter |-> frames[i].emitter,
                                       signal |-> frames[i].signal,
                                       running |-> frames[i].at,
                                       called |-> frames[i].called]]

Emission == [emitter: Emitters, signal: Signals, running: Addresses \cup {NoNode}, called: SUBSET Addresses]

\* The links are the nodes without their marks.
LEMMA LinksOfNodes ==
    ASSUME TypeOK
    PROVE  /\ \A a \in Addresses : Links[a] = Freed <=> a \notin Nodes
           /\ \A a \in Nodes : Links[a] = [emitter |-> connections[a].emitter,
                                          signal |-> connections[a].signal,
                                          receiver |-> connections[a].receiver]
           /\ \A e, s : Bus!Subscribed(e, s) = EqualRange(e, s)
<1>1. \A a \in Addresses : a \notin Nodes => Links[a] = Freed
  BY DEF Links, Nodes
<1>2. ASSUME NEW a \in Nodes
      PROVE  /\ Links[a] = [emitter |-> connections[a].emitter,
                            signal |-> connections[a].signal,
                            receiver |-> connections[a].receiver]
             /\ Links[a] # Freed
             /\ Links[a].emitter = connections[a].emitter
             /\ Links[a].signal = connections[a].signal
  <2>1. connections[a] # Freed /\ a \in Addresses /\ connections[a] \in ConnectionData
    BY NodeTyped DEF Nodes
  <2>2. Links[a] = [emitter |-> connections[a].emitter,
                    signal |-> connections[a].signal,
                    receiver |-> connections[a].receiver]
    BY <2>1 DEF Links
  <2>3. Links[a] \in [emitter: Emitters, signal: Signals, receiver: Receivers \cup {NoReceiver}]
    BY <2>1, <2>2 DEF ConnectionData
  <2> QED
    BY <2>2, <2>3, InterconnectAssumption
<1>3. ASSUME NEW e, NEW s PROVE Bus!Subscribed(e, s) = EqualRange(e, s)
  <2>1. Bus!Subscribed(e, s) = {a \in Addresses : Links[a] # Freed /\ Links[a].emitter = e /\ Links[a].signal = s}
    BY DEF Bus!Subscribed, Links
  <2> QED
    BY <1>1, <1>2, <2>1 DEF EqualRange, NodesOf, Nodes
<1> QED
  BY <1>1, <1>2, <1>3

\* The emissions are the frames without their iterators.
LEMMA EmissionsOfFrames ==
    ASSUME TypeOK
    PROVE  /\ Emissions \in Seq(Emission)
           /\ Len(Emissions) = Depth
           /\ DOMAIN Emissions = DOMAIN frames
           /\ \A i \in DOMAIN frames :
                 /\ Emissions[i] \in Emission
                 /\ Emissions[i] = [emitter |-> frames[i].emitter, signal |-> frames[i].signal,
                                    running |-> frames[i].at, called |-> frames[i].called]
<1>1. Len(frames) \in Nat /\ DOMAIN frames = 1 .. Len(frames)
  BY FramesTyped
<1>2. ASSUME NEW i \in DOMAIN frames
      PROVE  Emissions[i] = [emitter |-> frames[i].emitter, signal |-> frames[i].signal,
                             running |-> frames[i].at, called |-> frames[i].called]
  BY DEF Emissions
<1>3. ASSUME NEW i \in DOMAIN frames PROVE Emissions[i] \in Emission
  <2>1. /\ frames[i].emitter \in Emitters
        /\ frames[i].signal \in Signals
        /\ frames[i].at \in Addresses \cup {NoNode}
        /\ frames[i].called \in SUBSET Addresses
    BY FramesTyped DEF Frame
  <2>2. [emitter |-> frames[i].emitter, signal |-> frames[i].signal,
         running |-> frames[i].at, called |-> frames[i].called] \in Emission
    BY <2>1 DEF Emission
  <2> QED
    BY <1>2, <2>2
<1>4. DOMAIN Emissions = DOMAIN frames
  BY DEF Emissions
<1>5. Emissions \in [1 .. Len(frames) -> Emission]
  BY <1>1, <1>3 DEF Emissions
<1>6. Emissions \in Seq(Emission)
  BY <1>1, <1>5, SeqDef
<1>7. Len(Emissions) = Depth
  BY <1>1, <1>4, <1>6, LenProperties DEF Depth
<1> QED
  BY <1>2, <1>3, <1>4, <1>6, <1>7


\* The actions of the bus, in terms of its state here.
LEMMA BusActions ==
    /\ Bus!ApplicationRuns <=> (Len(Emissions) > 0 => Emissions[Len(Emissions)].running # NoNode)
    /\ \A c, e, s, r : Bus!Connect(c, e, s, r) <=>
            /\ Bus!ApplicationRuns
            /\ Links[c] = Freed
            /\ Links' = [Links EXCEPT ![c] = [emitter |-> e, signal |-> s, receiver |-> r]]
            /\ Emissions' = Emissions
    /\ \A C : Bus!Remove(C) <=>
            /\ Bus!ApplicationRuns
            /\ Links' = [c \in Addresses |-> IF c \in C THEN Freed ELSE Links[c]]
            /\ Emissions' = [i \in DOMAIN Emissions |-> [Emissions[i] EXCEPT !.called = @ \ C]]
    /\ \A e, s : Bus!BeginEmission(e, s) <=>
            /\ Bus!ApplicationRuns
            /\ Emissions' = Append(Emissions, [emitter |-> e, signal |-> s,
                                              running |-> NoNode, called |-> {}])
            /\ Links' = Links
    /\ \A c : Bus!Call(c) <=>
            LET n == Len(Emissions) IN
            /\ n > 0
            /\ Emissions[n].running = NoNode
            /\ c \in Bus!Subscribed(Emissions[n].emitter, Emissions[n].signal) \ Emissions[n].called
            /\ Emissions' = [Emissions EXCEPT ![n].running = c, ![n].called = @ \cup {c}]
            /\ Links' = Links
    /\ Bus!SlotReturns <=>
            LET n == Len(Emissions) IN
            /\ n > 0
            /\ Emissions[n].running # NoNode
            /\ Emissions' = [Emissions EXCEPT ![n].running = NoNode]
            /\ Links' = Links
    /\ Bus!EndEmission <=>
            LET n == Len(Emissions) IN
            /\ n > 0
            /\ Emissions[n].running = NoNode
            /\ Bus!Subscribed(Emissions[n].emitter, Emissions[n].signal) \subseteq Emissions[n].called
            /\ Emissions' = SubSeq(Emissions, 1, n - 1)
            /\ Links' = Links
    /\ UNCHANGED Bus!vars <=> Links' = Links /\ Emissions' = Emissions
BY DEF Bus!ApplicationRuns, Bus!Connect, Bus!Remove, Bus!BeginEmission, Bus!Call,
       Bus!SlotReturns, Bus!EndEmission, Bus!Subscribed, Bus!vars, Links, Emissions

\* The application runs on the bus when it runs here.
LEMMA BusApplicationRuns ==
    ASSUME TypeOK
    PROVE  Bus!ApplicationRuns <=> ApplicationRuns
<1>1. Depth \in Nat /\ Len(Emissions) = Depth
  BY FramesTyped, EmissionsOfFrames DEF Depth
<1>2. ASSUME Depth > 0 PROVE Emissions[Depth].running = Top.at
  <2>1. Depth \in DOMAIN frames
    BY <1>2, FramesTyped, TopTyped
  <2> QED
    BY <2>1 DEF Emissions, Top
<1> QED
  BY <1>1, <1>2, BusActions DEF ApplicationRuns

\* An operation that touches neither connections nor the stack is none of the bus.
LEMMA NoBusStep ==
    ASSUME UNCHANGED <<connections, frames>>
    PROVE  UNCHANGED Bus!vars
<1>1. Links' = Links /\ Emissions' = Emissions
  BY DEF Links, Emissions
<1> QED
  BY <1>1, BusActions

\* Erasing nodes removes them from the bus.
LEMMA EraseRemoves ==
    ASSUME TypeOK, ApplicationRuns, NEW A \in SUBSET Addresses, Erase(A)
    PROVE  Bus!Remove(A)
<1>1. Links' = [c \in Addresses |-> IF c \in A THEN Freed ELSE Links[c]]
  BY DEF Links, Erase
<1>2. DOMAIN frames' = DOMAIN frames
  BY DEF Erase
<1>3. ASSUME NEW i \in DOMAIN frames
      PROVE  [emitter |-> frames'[i].emitter, signal |-> frames'[i].signal,
              running |-> frames'[i].at, called |-> frames'[i].called]
                = [Emissions[i] EXCEPT !.called = @ \ A]
  <2>1. frames'[i] = [frames[i] EXCEPT !.called = @ \ A] /\ frames[i] \in Frame
    BY FramesTyped DEF Erase
  <2>2. /\ frames'[i].emitter = frames[i].emitter
        /\ frames'[i].signal = frames[i].signal
        /\ frames'[i].at = frames[i].at
        /\ frames'[i].called = frames[i].called \ A
    BY <2>1 DEF Frame
  <2>3. Emissions[i] = [emitter |-> frames[i].emitter, signal |-> frames[i].signal,
                        running |-> frames[i].at, called |-> frames[i].called]
    BY EmissionsOfFrames
  <2> QED
    BY <2>2, <2>3
<1>4. DOMAIN Emissions = DOMAIN frames
  BY DEF Emissions
<1>5. Emissions' = [i \in DOMAIN Emissions |-> [Emissions[i] EXCEPT !.called = @ \ A]]
  BY <1>2, <1>3, <1>4 DEF Emissions
<1> QED
  BY <1>1, <1>5, BusApplicationRuns, BusActions

\* A connection appears on the bus.
LEMMA ConnectConnects ==
    ASSUME TypeOK, NEW e \in Emitters, NEW s \in Signals, NEW r \in Receivers \cup {NoReceiver},
           NEW a \in Addresses, Connect(e, s, r, a)
    PROVE  Bus!Connect(a, e, s, r)
<1>1. /\ ApplicationRuns
      /\ connections[a] = Freed
      /\ connections' = [connections EXCEPT ![a] =
            [emitter |-> e, signal |-> s, receiver |-> r, lastHandledSignal |-> 0]]
      /\ frames' = frames
  BY DEF Connect
<1>2. [emitter |-> e, signal |-> s, receiver |-> r, lastHandledSignal |-> 0] # Freed
  BY FreedIsNoNode, InterconnectAssumption DEF ConnectionData, Counter
<1>3. Emissions' = Emissions
  BY <1>1 DEF Emissions
<1>4. Links[a] = Freed
  BY <1>1 DEF Links
<1>5. /\ connections'[a] # Freed
      /\ connections'[a].emitter = e
      /\ connections'[a].signal = s
      /\ connections'[a].receiver = r
      /\ \A b \in Addresses \ {a} : connections'[b] = connections[b]
  BY <1>1, <1>2 DEF TypeOK
<1>6. Links' = [Links EXCEPT ![a] = [emitter |-> e, signal |-> s, receiver |-> r]]
  BY <1>5 DEF Links
<1> QED
  BY <1>1, <1>3, <1>4, <1>6, BusApplicationRuns, BusActions

\* An emission begins on the bus.
LEMMA EmitBegins ==
    ASSUME TypeOK, TypeOK', NEW e \in Emitters, NEW s \in Signals, Emit(e, s)
    PROVE  Bus!BeginEmission(e, s)
<1> DEFINE m == [emitter |-> e, signal |-> s, running |-> NoNode, called |-> {}]
           n == Len(frames)
<1>1. ApplicationRuns /\ connections' = connections
  BY DEF Emit
<1>2. Links' = Links
  BY <1>1 DEF Links
<1>3. /\ Emissions \in Seq(Emission)
      /\ Len(Emissions) = n
      /\ n \in Nat
      /\ DOMAIN Emissions = 1 .. n
      /\ \A i \in 1 .. n : Emissions[i] = [emitter |-> frames[i].emitter, signal |-> frames[i].signal,
                                          running |-> frames[i].at, called |-> frames[i].called]
  BY FramesTyped, EmissionsOfFrames DEF Depth
<1>4. m \in Emission
  BY DEF Emission
<1>5. /\ DOMAIN frames' = 1 .. n + 1
      /\ \A i \in 1 .. n : frames'[i] = frames[i]
  BY EmitAppends
<1>6. [emitter |-> frames'[n + 1].emitter, signal |-> frames'[n + 1].signal,
       running |-> frames'[n + 1].at, called |-> frames'[n + 1].called] = m
  <2>1. frames'[n + 1] = [emitter |-> e, signal |-> s, at |-> NoNode,
                          ahead |-> EqualRange(e, s), called |-> {}]
    BY EmitAppends
  <2>2. /\ frames'[n + 1].emitter = e
        /\ frames'[n + 1].signal = s
        /\ frames'[n + 1].called = {}
        /\ frames'[n + 1].at = NoNode
    BY <2>1
  <2> QED
    BY <2>2, Zenon
<1>7. /\ Append(Emissions, m) \in Seq(Emission)
      /\ Len(Append(Emissions, m)) = n + 1
      /\ \A i \in 1 .. n : Append(Emissions, m)[i] = Emissions[i]
      /\ Append(Emissions, m)[n + 1] = m
  BY <1>3, <1>4, AppendProperties
<1> HIDE DEF m, n
<1>8. Append(Emissions, m) \in [1 .. n + 1 -> Emission]
  BY <1>7, LenProperties
<1>9. Emissions' = [i \in 1 .. n + 1 |->
                      [emitter |-> frames'[i].emitter, signal |-> frames'[i].signal,
                       running |-> frames'[i].at, called |-> frames'[i].called]]
  BY <1>5 DEF Emissions
<1>10. ASSUME NEW i \in 1 .. n + 1 PROVE Emissions'[i] = Append(Emissions, m)[i]
  <2>1. CASE i \in 1 .. n
    BY <1>3, <1>5, <1>7, <1>9, <2>1
  <2>2. CASE i = n + 1
    BY <1>6, <1>7, <1>9, <2>2
  <2> QED
    BY <1>3, <2>1, <2>2
<1>11. Emissions' = Append(Emissions, m)
  BY <1>8, <1>9, <1>10
<1> QED
  BY <1>1, <1>2, <1>11, BusApplicationRuns, BusActions DEF m


\* A step of the loop changes the emission on top.
LEMMA TopOnBus ==
    ASSUME TypeOK, Depth > 0, NEW f \in Frame, frames' = [frames EXCEPT ![Depth] = f]
    PROVE  /\ Len(Emissions) = Depth
           /\ Emissions[Depth] = [emitter |-> Top.emitter, signal |-> Top.signal,
                                  running |-> Top.at, called |-> Top.called]
           /\ Emissions[Depth].emitter = Top.emitter
           /\ Emissions[Depth].signal = Top.signal
           /\ Emissions[Depth].called = Top.called
           /\ Emissions[Depth].running = Top.at
           /\ Emissions' = [Emissions EXCEPT ![Depth] =
                [emitter |-> f.emitter, signal |-> f.signal,
                 running |-> f.at, called |-> f.called]]
<1>1. /\ DOMAIN frames' = DOMAIN frames
      /\ \A i \in DOMAIN frames : frames'[i] = IF i = Depth THEN f ELSE frames[i]
      /\ Depth \in DOMAIN frames /\ frames[Depth] = Top
  BY TopBecomes
<1>2. Len(Emissions) = Depth
  BY EmissionsOfFrames
<1>3. Emissions[Depth] = [emitter |-> Top.emitter, signal |-> Top.signal,
                          running |-> Top.at, called |-> Top.called]
  BY <1>1, EmissionsOfFrames
<1>4. Emissions' = [Emissions EXCEPT ![Depth] =
                [emitter |-> f.emitter, signal |-> f.signal,
                 running |-> f.at, called |-> f.called]]
  BY <1>1 DEF Emissions
<1>5. /\ Emissions[Depth].emitter = Top.emitter
      /\ Emissions[Depth].signal = Top.signal
      /\ Emissions[Depth].called = Top.called
  BY <1>3
<1>6. Emissions[Depth].running = Top.at
  BY <1>1 DEF Emissions, Top
<1> QED
  BY <1>2, <1>3, <1>4, <1>5, <1>6

\* A slot is called: it is connected and this emission has not called it.
LEMMA CallSlotCalls ==
    ASSUME TypeOK, Iterators, Marks, NEW a \in Addresses, CallSlot(a)
    PROVE  Bus!Call(a)
<1> DEFINE f == [Top EXCEPT !.at = a, !.ahead = @ \ {a}, !.called = @ \cup {a}]
           m == Emissions[Depth]
<1>1. Depth > 0 /\ Top.at = NoNode /\ a \in Top.ahead /\ ~Handled(a) /\ a \in Nodes /\ Mark(a)
  BY DEF CallSlot
<1>2. Top \in Frame /\ a \in EqualRange(Top.emitter, Top.signal) /\ a \notin Top.called
  BY <1>1, TopMarks
<1>3. /\ f \in Frame
      /\ f.emitter = Top.emitter
      /\ f.signal = Top.signal
      /\ f.at = a
      /\ f.called = Top.called \cup {a}
  BY <1>2, InterconnectAssumption DEF Frame
<1>4. frames' = [frames EXCEPT ![Depth] = f]
  BY DEF CallSlot
<1> HIDE DEF f
<1>5. /\ Len(Emissions) = Depth
      /\ m = [emitter |-> Top.emitter, signal |-> Top.signal,
              running |-> Top.at, called |-> Top.called]
      /\ m.emitter = Top.emitter
      /\ m.signal = Top.signal
      /\ m.called = Top.called
      /\ m.running = Top.at
      /\ Emissions' = [Emissions EXCEPT ![Depth] =
            [emitter |-> f.emitter, signal |-> f.signal,
             running |-> f.at, called |-> f.called]]
  BY <1>1, <1>3, <1>4, TopOnBus
<1>6. [emitter |-> f.emitter, signal |-> f.signal,
       running |-> f.at, called |-> f.called]
            = [m EXCEPT !.running = a, !.called = @ \cup {a}]
  <2>1. [emitter |-> f.emitter, signal |-> f.signal, running |-> f.at, called |-> f.called]
            = [emitter |-> Top.emitter, signal |-> Top.signal, running |-> a,
               called |-> Top.called \cup {a}]
    BY <1>3, Zenon
  <2>2. [m EXCEPT !.running = a, !.called = @ \cup {a}]
            = [emitter |-> Top.emitter, signal |-> Top.signal, running |-> a,
               called |-> Top.called \cup {a}]
    <3> DEFINE k == [emitter |-> Top.emitter, signal |-> Top.signal, running |-> a,
                     called |-> Top.called]
    <3>1. [m EXCEPT !.running = a] = k
      BY <1>5
    <3>2. [k EXCEPT !.called = Top.called \cup {a}]
            = [emitter |-> Top.emitter, signal |-> Top.signal, running |-> a,
               called |-> Top.called \cup {a}]
      OBVIOUS
    <3>3. [m EXCEPT !.running = a, !.called = @ \cup {a}]
            = [[m EXCEPT !.running = a] EXCEPT !.called = m.called \cup {a}]
      OBVIOUS
    <3> HIDE DEF m, k
    <3> QED
      BY <1>5, <3>1, <3>2, <3>3, Zenon
  <2> QED
    BY <2>1, <2>2
<1>7. Depth \in DOMAIN Emissions
  BY <1>1, FramesTyped, TopTyped, EmissionsOfFrames
<1>8. Emissions' = [Emissions EXCEPT ![Depth].running = a, ![Depth].called = @ \cup {a}]
  BY <1>5, <1>6, <1>7
<1>9. Links' = Links
  <2>1. connections[a] \in ConnectionData /\ lastHandledSignal[Top.emitter] \in Counter
    BY <1>1, <1>2, NodeTyped DEF TypeOK, Frame
  <2>2. /\ connections'[a] # Freed /\ connections[a] # Freed
        /\ connections'[a].emitter = connections[a].emitter
        /\ connections'[a].signal = connections[a].signal
        /\ connections'[a].receiver = connections[a].receiver
        /\ \A b \in Addresses \ {a} : connections'[b] = connections[b]
    BY <1>1, <2>1, FreedIsNoNode DEF Mark, ConnectionData, TypeOK, Nodes
  <2> QED
    BY <2>2 DEF Links
<1> HIDE DEF m
<1>10. a \in Bus!Subscribed(m.emitter, m.signal) \ m.called
  BY <1>2, <1>5, LinksOfNodes
<1>11. m.running = NoNode
  BY <1>1, <1>5
<1> QED
  BY <1>1, <1>5, <1>8, <1>9, <1>10, <1>11, BusActions DEF m

\* Passing a marked node is no step of the bus.
LEMMA SkipStutters ==
    ASSUME TypeOK, NEW a \in Addresses, SkipNode(a)
    PROVE  UNCHANGED Bus!vars
<1> DEFINE f == [Top EXCEPT !.ahead = @ \ {a}]
<1>1. Depth > 0 /\ connections' = connections
  BY DEF SkipNode
<1>2. /\ f \in Frame
      /\ f.emitter = Top.emitter
      /\ f.signal = Top.signal
      /\ f.at = Top.at
      /\ f.called = Top.called
  BY <1>1, TopTyped DEF Frame
<1>3. frames' = [frames EXCEPT ![Depth] = f]
  BY DEF SkipNode, Top
<1> HIDE DEF f
<1>4. /\ DOMAIN frames' = DOMAIN frames
      /\ \A i \in DOMAIN frames : frames'[i] = IF i = Depth THEN f ELSE frames[i]
      /\ Depth \in DOMAIN frames /\ frames[Depth] = Top
  BY <1>1, <1>2, <1>3, TopBecomes
<1>5. ASSUME NEW i \in DOMAIN frames
      PROVE  /\ frames'[i].emitter = frames[i].emitter
             /\ frames'[i].signal = frames[i].signal
             /\ frames'[i].at = frames[i].at
             /\ frames'[i].called = frames[i].called
  BY <1>2, <1>4
<1>6. Emissions' = Emissions
  BY <1>4, <1>5 DEF Emissions
<1>7. Links' = Links
  BY <1>1 DEF Links
<1> QED
  BY <1>6, <1>7, BusActions

\* The slot returns, on the bus too.
LEMMA SlotReturnsOnBus ==
    ASSUME TypeOK, SlotReturns
    PROVE  Bus!SlotReturns
<1> DEFINE f == [Top EXCEPT !.at = NoNode, !.ahead = Refetch]
           m == Emissions[Depth]
<1>1. Depth > 0 /\ Top.at # NoNode /\ connections' = connections
  BY DEF SlotReturns
<1>2. Top \in Frame /\ Refetch \in SUBSET Addresses
  BY <1>1, TopTyped, NodeSets DEF Refetch, Frame
<1>3. /\ f \in Frame
      /\ f.emitter = Top.emitter
      /\ f.signal = Top.signal
      /\ f.at = NoNode
      /\ f.called = Top.called
  BY <1>2 DEF Frame
<1>4. frames' = [frames EXCEPT ![Depth] = f]
  BY DEF SlotReturns
<1> HIDE DEF f
<1>5. /\ Len(Emissions) = Depth
      /\ m = [emitter |-> Top.emitter, signal |-> Top.signal,
              running |-> Top.at, called |-> Top.called]
      /\ m.running = Top.at
      /\ Emissions' = [Emissions EXCEPT ![Depth] =
            [emitter |-> f.emitter, signal |-> f.signal,
             running |-> f.at, called |-> f.called]]
  BY <1>1, <1>3, <1>4, TopOnBus
<1>6. [emitter |-> f.emitter, signal |-> f.signal,
       running |-> f.at, called |-> f.called] = [m EXCEPT !.running = NoNode]
  <2>1. [emitter |-> f.emitter, signal |-> f.signal, running |-> f.at, called |-> f.called]
            = [emitter |-> Top.emitter, signal |-> Top.signal, running |-> NoNode,
               called |-> Top.called]
    BY <1>3, Zenon
  <2>2. [m EXCEPT !.running = NoNode]
            = [emitter |-> Top.emitter, signal |-> Top.signal, running |-> NoNode,
               called |-> Top.called]
    BY <1>5
  <2> QED
    BY <2>1, <2>2
<1>7. Depth \in DOMAIN Emissions
  BY <1>1, FramesTyped, TopTyped, EmissionsOfFrames
<1>8. Emissions' = [Emissions EXCEPT ![Depth].running = NoNode]
  BY <1>5, <1>6, <1>7
<1>9. Links' = Links
  BY <1>1 DEF Links
<1> HIDE DEF m
<1>10. m.running # NoNode
  BY <1>1, <1>5
<1> QED
  BY <1>1, <1>5, <1>8, <1>9, <1>10, BusActions DEF m

\* An emission ends when it has called everything connected.
LEMMA EmitReturnsEnds ==
    ASSUME TypeOK, Delivered, EmitReturns
    PROVE  Bus!EndEmission
<1>1. Depth > 0 /\ Top.at = NoNode /\ Top.ahead = {} /\ connections' = connections
  BY DEF EmitReturns
<1>2. EqualRange(Top.emitter, Top.signal) \subseteq Top.called
  BY <1>1 DEF Delivered
<1>3. Links' = Links
  BY <1>1 DEF Links
<1>4. /\ Depth \in DOMAIN frames /\ Depth \in Nat /\ Depth = Len(frames)
      /\ DOMAIN frames = 1 .. Depth
  BY <1>1, FramesTyped, TopTyped DEF Depth
<1>5. /\ Emissions \in Seq(Emission)
      /\ Len(Emissions) = Depth
      /\ DOMAIN Emissions = 1 .. Depth
      /\ \A i \in 1 .. Depth :
            /\ Emissions[i] \in Emission
            /\ Emissions[i] = [emitter |-> frames[i].emitter, signal |-> frames[i].signal,
                               running |-> frames[i].at, called |-> frames[i].called]
  BY <1>4, EmissionsOfFrames
<1>6. Emissions[Depth] = [emitter |-> Top.emitter, signal |-> Top.signal,
                          running |-> Top.at, called |-> Top.called]
  BY <1>4, <1>5 DEF Top
<1>7. /\ Emissions[Depth].emitter = Top.emitter
      /\ Emissions[Depth].signal = Top.signal
      /\ Emissions[Depth].called = Top.called
  BY <1>6
<1>8. Emissions[Depth].running = Top.at
  BY <1>4 DEF Emissions, Top
<1>9. /\ DOMAIN frames' = 1 .. Depth - 1
      /\ \A i \in 1 .. Depth - 1 : frames'[i] = frames[i]
  BY EmitReturnsPops
<1>10. Emissions' = [i \in 1 .. Depth - 1 |->
                      [emitter |-> frames'[i].emitter, signal |-> frames'[i].signal,
                       running |-> frames'[i].at, called |-> frames'[i].called]]
  BY <1>9 DEF Emissions
<1>11. /\ SubSeq(Emissions, 1, Depth - 1) \in Seq(Emission)
       /\ Len(SubSeq(Emissions, 1, Depth - 1)) = Depth - 1
       /\ \A i \in 1 .. Depth - 1 : SubSeq(Emissions, 1, Depth - 1)[i] = Emissions[i]
  BY <1>1, <1>4, <1>5, SubSeqProperties
<1>12. SubSeq(Emissions, 1, Depth - 1) \in [1 .. Depth - 1 -> Emission]
  BY <1>11, LenProperties
<1>13. ASSUME NEW i \in 1 .. Depth - 1 PROVE Emissions'[i] = SubSeq(Emissions, 1, Depth - 1)[i]
  <2>1. i \in 1 .. Depth
    BY <1>4
  <2> QED
    BY <1>5, <1>9, <1>10, <1>11, <2>1
<1>14. Emissions' = SubSeq(Emissions, 1, Depth - 1)
  BY <1>10, <1>12, <1>13
<1>15. Bus!Subscribed(Emissions[Depth].emitter, Emissions[Depth].signal) \subseteq Emissions[Depth].called
  BY <1>2, <1>7, LinksOfNodes
<1>16. Emissions[Depth].running = NoNode
  BY <1>1, <1>8
<1> QED
  BY <1>1, <1>3, <1>5, <1>14, <1>15, <1>16, BusActions


\* The code implements the abstract bus: each step of an operation or of the
\* emission loop is a step of the bus, or none.
THEOREM ImplementsBus ==
    ASSUME ~NestSameEmitter, ~WrapAround
    PROVE  Spec => ImplementsSignalBus
<1>1. Init => Bus!Init
  BY DEF Init, Bus!Init
<1>2. ASSUME TypeOK, TypeOK', Iterators, Marks, Delivered, [Next]_vars
      PROVE  [Bus!Next]_(Bus!vars)
  <2>1. ASSUME NEW A \in SUBSET Addresses, ApplicationRuns, Erase(A) PROVE Bus!Next
    BY <1>2, <2>1, EraseRemoves DEF Bus!Next
  <2>2. ASSUME NEW e \in Emitters, DestroyEmitter(e) \/ DisconnectAllSignals(e) PROVE Bus!Next
    BY <2>1, <2>2, NodeSets DEF DestroyEmitter, DisconnectAllSignals
  <2>3. ASSUME NEW r \in Receivers, DestroyReceiver(r) \/ DisconnectAllSlots(r) PROVE Bus!Next
    <3>1. {x.data : x \in Found(r)} \in SUBSET Addresses
      BY <1>2 DEF Found, TypeOK, Reference
    <3> QED
      BY <2>1, <2>3, <3>1 DEF DestroyReceiver, DisconnectAllSlots, ClearSlots
  <2>4. ASSUME NEW h \in handles, Disconnect(h) PROVE Bus!Next
    <3>1. {h.data} \in SUBSET Addresses
      BY <1>2 DEF TypeOK, Reference
    <3> QED
      BY <2>1, <2>4, <3>1 DEF Disconnect
  <2>5. ASSUME NEW e \in Emitters, NEW s \in Signals, DisconnectSignal(e, s) PROVE Bus!Next
    BY <2>1, <2>5, NodeSets DEF DisconnectSignal
  <2>6. CASE AnyConnect
    <3>1. PICK e \in Emitters, s \in Signals, r \in Receivers \cup {NoReceiver}, a \in Addresses :
              Connect(e, s, r, a)
      BY <2>6 DEF AnyConnect
    <3>2. Bus!Connect(a, e, s, r)
      BY <1>2, <3>1, ConnectConnects
    <3> QED
      BY <3>2 DEF Bus!Next
  <2>7. ASSUME NEW e \in Emitters, NEW s \in Signals, Emit(e, s) PROVE Bus!Next
    BY <1>2, <2>7, EmitBegins DEF Bus!Next
  <2>8. ASSUME NEW a \in Addresses, CallSlot(a) PROVE Bus!Next
    BY <1>2, <2>8, CallSlotCalls DEF Bus!Next
  <2>9. CASE SlotReturns
    BY <1>2, <2>9, SlotReturnsOnBus DEF Bus!Next
  <2>10. CASE EmitReturns
    BY <1>2, <2>10, EmitReturnsEnds DEF Bus!Next
  <2>11. ASSUME NEW e \in Emitters, ConstructEmitter(e) PROVE UNCHANGED Bus!vars
    BY <2>11, NoBusStep DEF ConstructEmitter
  <2>12. ASSUME NEW r \in Receivers, ConstructReceiver(r) PROVE UNCHANGED Bus!vars
    BY <2>12, NoBusStep DEF ConstructReceiver
  <2>13. ASSUME NEW a \in Addresses, SkipNode(a) PROVE UNCHANGED Bus!vars
    BY <1>2, <2>13, SkipStutters
  <2>14. CASE UNCHANGED vars
    BY <2>14, NoBusStep DEF vars
  <2> QED
    BY <1>2, <2>2, <2>3, <2>4, <2>5, <2>6, <2>7, <2>8, <2>9, <2>10, <2>11, <2>12, <2>13, <2>14
       DEF Next, EmissionLoop
<1>3. Spec => [](Ends /\ Iterators /\ Marks)
  BY IteratorsInvariant, MarksInvariant, PTL
<1>4. Ends => TypeOK
  BY DEF Ends
<1> QED
  BY <1>1, <1>2, <1>3, <1>4, AllDelivered, PTL DEF Spec, ImplementsSignalBus, Bus!Spec

-----------------------------------------------------------------------------
(***************************************************************************)
(* StateMachine.  The outermost step decides where the machine ends, for   *)
(* any states and inputs, any depth of steps nested in slots and any       *)
(* table.  The frame of the outermost step keeps the state it leads to,    *)
(* whatever happens above it, and is the last to set the current one.      *)
(***************************************************************************)

MachineTyped ==
    /\ transitions \in [States -> [Inputs -> States]]
    /\ current \in States
    /\ steps \in Seq(StepFrame)

\* The frame at the bottom is the one of the step that target is about.
BottomLeadsToTarget == ~Idle => steps[1].next = target

MachineInv ==
    /\ MachineTyped
    /\ BottomLeadsToTarget
    /\ OutermostStepWins

LEMMA MachineInvInit == MachineInit => MachineInv
BY MachineAssumption
   DEF MachineInit, MachineInv, MachineTyped, BottomLeadsToTarget, OutermostStepWins, Idle

\* A frame replaced by one that leads to the same state changes nothing at the bottom.
LEMMA BottomKept ==
    ASSUME NEW s \in Seq(StepFrame), NEW n \in 1 .. Len(s), NEW f \in StepFrame, f.next = s[n].next
    PROVE  /\ [s EXCEPT ![n] = f] \in Seq(StepFrame)
           /\ Len([s EXCEPT ![n] = f]) = Len(s)
           /\ [s EXCEPT ![n] = f][1].next = s[1].next
<1> DEFINE t == [s EXCEPT ![n] = f]
<1>1. /\ t \in Seq(StepFrame)
      /\ Len(t) = Len(s)
      /\ \A j \in 1 .. Len(s) : t[j] = IF j = n THEN f ELSE s[j]
  BY ExceptSeq
<1> HIDE DEF t
<1>2. t[1].next = s[1].next
  BY <1>1
<1> QED BY <1>1, <1>2 DEF t

\* The signal of the innermost frame is set, its state and the other steps stay.
LEMMA SignalSet ==
    ASSUME NEW signal \in {"exited", "stepped", "entered"},
           MachineInv, ~Idle, steps' = [steps EXCEPT ![Innermost].signal = signal],
           transitions' = transitions, current' = current, target' = target
    PROVE  MachineInv'
<1> DEFINE f == [next |-> steps[Len(steps)].next, signal |-> signal]
<1>1. steps \in Seq(StepFrame) /\ Len(steps) >= 1 /\ steps[Len(steps)] \in StepFrame
  BY DEF MachineInv, MachineTyped, Idle
<1>2. f \in StepFrame /\ f.next = steps[Len(steps)].next
  BY <1>1 DEF StepFrame
<1>3. [steps[Len(steps)] EXCEPT !.signal = signal] = f
  BY <1>1 DEF StepFrame
<1>4. steps' = [steps EXCEPT ![Len(steps)] = f]
  BY <1>3, Zenon DEF Innermost
<1> HIDE DEF f
<1>5. steps' \in Seq(StepFrame) /\ Len(steps') = Len(steps) /\ steps'[1].next = steps[1].next
  <2>1. /\ [steps EXCEPT ![Len(steps)] = f] \in Seq(StepFrame)
        /\ Len([steps EXCEPT ![Len(steps)] = f]) = Len(steps)
        /\ [steps EXCEPT ![Len(steps)] = f][1].next = steps[1].next
    BY <1>1, <1>2, Len(steps) \in 1 .. Len(steps), BottomKept
  <2> QED BY <1>4, <2>1, Zenon
<1>6. ~Idle'
  BY <1>1, <1>5 DEF Idle
<1> QED
  BY <1>5, <1>6 DEF MachineInv, MachineTyped, BottomLeadsToTarget, OutermostStepWins

\* Steps, nested ones and changes of the table keep it.
LEMMA MachineInvNext == MachineInv /\ [MachineNext]_machineVars => MachineInv'
<1> SUFFICES ASSUME MachineInv, [MachineNext]_machineVars PROVE MachineInv'
  OBVIOUS
<1>0. MachineTyped /\ Len(steps) \in Nat /\ (Idle <=> Len(steps) = 0)
  BY DEF MachineInv, MachineTyped, Idle
<1>1. ASSUME NEW from \in States, NEW to \in States, NEW input \in Inputs, AddTransition(from, input, to)
      PROVE  MachineInv'
  BY <1>1 DEF AddTransition, MachineInv, MachineTyped, BottomLeadsToTarget, OutermostStepWins, Idle
<1>2. ASSUME NEW input \in Inputs, StepStays(input) PROVE MachineInv'
  BY <1>2 DEF StepStays, MachineInv, MachineTyped, BottomLeadsToTarget, OutermostStepWins, Idle
<1>3. ASSUME NEW input \in Inputs, Step(input) PROVE MachineInv'
  <2> DEFINE next == transitions[current][input]
             f == [next |-> next, signal |-> "exited"]
  <2>1. f \in StepFrame
    BY <1>0 DEF MachineTyped, StepFrame
  <2>2. steps' \in Seq(StepFrame) /\ Len(steps') = Len(steps) + 1 /\ steps' = Append(steps, f)
    BY <2>1, <1>0, <1>3 DEF Step, MachineTyped
  <2>3. ~Idle'
    BY <2>2, <1>0 DEF Idle
  <2>4. steps'[1].next = target'
    <3>1. CASE Idle
      BY <3>1, <2>2, <1>0, <1>3 DEF Step, Idle
    <3>2. CASE ~Idle
      BY <3>2, <2>2, <1>0, <1>3 DEF Step, MachineTyped, MachineInv, BottomLeadsToTarget
    <3> QED BY <3>1, <3>2
  <2> QED
    BY <2>2, <2>3, <2>4, <1>0, <1>3 DEF Step, MachineInv, MachineTyped, BottomLeadsToTarget, OutermostStepWins
<1>4. CASE ExitedReturns
  BY <1>4, SignalSet DEF ExitedReturns
<1>5. CASE SteppedReturns
  BY <1>5, SignalSet DEF SteppedReturns
<1>6. CASE EnteredReturns
  <2>1. Len(steps) >= 1 /\ Innermost = Len(steps) /\ steps[Innermost] \in StepFrame
    BY <1>0, <1>6 DEF EnteredReturns, Idle, Innermost, MachineTyped
  <2>2. steps' \in Seq(StepFrame) /\ Len(steps') = Len(steps) - 1
    BY <2>1, <1>0, <1>6 DEF EnteredReturns, MachineTyped
  <2>3. current' \in States
    BY <2>1, <1>6 DEF EnteredReturns, StepFrame
  <2>4. ~Idle' => steps'[1] = steps[1]
    BY <2>1, <2>2, <1>0, <1>6 DEF EnteredReturns, Idle, MachineTyped
  <2>5. Idle' => current' = steps[1].next
    <3> SUFFICES ASSUME Idle' PROVE current' = steps[1].next
      OBVIOUS
    <3>1. Len(steps') = 0
      BY DEF Idle
    <3>2. Innermost = 1
      <4>1. Len(steps) - 1 = 0
        BY <3>1, <2>2
      <4> QED BY <4>1, <2>1, <1>0
    <3> QED BY <3>2, <1>6 DEF EnteredReturns
  <2>6. target' = target /\ steps[1].next = target /\ transitions' = transitions
    BY <1>6 DEF EnteredReturns, MachineInv, BottomLeadsToTarget
  <2> QED
    BY <2>2, <2>3, <2>4, <2>5, <2>6, <1>0
       DEF MachineInv, MachineTyped, BottomLeadsToTarget, OutermostStepWins
<1>7. CASE UNCHANGED machineVars
  BY <1>7 DEF machineVars, MachineInv, MachineTyped, BottomLeadsToTarget, OutermostStepWins, Idle
<1> QED BY <1>1, <1>2, <1>3, <1>4, <1>5, <1>6, <1>7 DEF MachineNext

(***************************************************************************)
(* When no step is in progress, the machine is where the outermost step    *)
(* called last led when it was called (StateMachine::step()).              *)
(***************************************************************************)
THEOREM OutermostStepAlwaysWins == MachineSpec => []OutermostStepWins
<1>1. MachineInv => OutermostStepWins
  BY DEF MachineInv
<1> QED BY MachineInvInit, MachineInvNext, <1>1, PTL DEF MachineSpec

-----------------------------------------------------------------------------
(***************************************************************************)
(* As long as no slot steps the machine, at most one step is in progress,  *)
(* and how many signals there are, modulo three, says how far it is.       *)
(***************************************************************************)

\* What entry k of the history has to be, by the entry before it.
TellsAt(k) ==
    /\ signals[k].previous # signals[k].next
    /\ signals[k].signal = CASE k % 3 = 1 -> "exited" [] k % 3 = 2 -> "stepped" [] OTHER -> "entered"
    /\ k % 3 # 1 => /\ signals[k].previous = signals[k - 1].previous
                    /\ signals[k].next = signals[k - 1].next
    /\ k % 3 = 1 => signals[k].previous = IF k = 1 THEN First ELSE signals[k - 1].next

\* How many signals of the step in progress have been emitted.
StepTold ==
    LET n == Len(signals) IN
    /\ Len(steps) <= 1
    /\ Idle => n % 3 = 0 /\ current = IF n = 0 THEN First ELSE signals[n].next
    /\ ~Idle => /\ n > 0
                /\ signals[n].previous = current
                /\ signals[n].next = steps[1].next
                /\ steps[1].signal = "exited" => n % 3 = 1
                /\ steps[1].signal = "stepped" => n % 3 = 2
                /\ steps[1].signal = "entered" => n % 3 = 0

PathInv ==
    /\ signals \in Seq(Signal)
    /\ nested \in BOOLEAN
    /\ ~nested => StepTold /\ \A k \in DOMAIN signals : TellsAt(k)

LEMMA PathInvInit == MachineInit => PathInv
<1> SUFFICES ASSUME MachineInit PROVE PathInv
  OBVIOUS
<1>1. signals = <<>> /\ steps = <<>> /\ current = First /\ nested = FALSE
  BY DEF MachineInit
<1>2. /\ signals \in Seq(Signal) /\ Len(signals) = 0 /\ Len(steps) = 0
      /\ \A k \in DOMAIN signals : FALSE
  BY <1>1
<1>3. Len(signals) % 3 = 0
  BY <1>2
<1>4. StepTold
  BY <1>1, <1>2, <1>3 DEF StepTold, Idle
<1> QED
  BY <1>1, <1>2, <1>4, Zenon DEF PathInv

\* A step that emits nothing changes no entry.
LEMMA SameSignalsTell ==
    ASSUME signals' = signals, \A k \in DOMAIN signals : TellsAt(k)
    PROVE  \A k \in DOMAIN signals' : TellsAt(k)'
BY DEF TellsAt

\* One more signal, which fits the one before it.
LEMMA SignalAppended ==
    ASSUME signals \in Seq(Signal), NEW m \in Signal, signals' = Append(signals, m),
           NEW n, n = Len(signals) + 1
    PROVE  /\ signals' \in Seq(Signal)
           /\ Len(signals') = Len(signals) + 1
           /\ signals'[n] = m
           /\ Len(signals) # 0 => signals'[n - 1] = signals[n - 1]
           /\ (\A k \in DOMAIN signals : TellsAt(k)) /\ TellsAt(n)'
                => \A k \in DOMAIN signals' : TellsAt(k)'
<1>1. /\ signals' \in Seq(Signal)
      /\ Len(signals') = Len(signals) + 1
      /\ Len(signals) \in Nat
      /\ DOMAIN signals = 1 .. Len(signals)
      /\ DOMAIN signals' = 1 .. Len(signals) + 1
      /\ \A k \in 1 .. Len(signals) : signals'[k] = signals[k]
      /\ signals'[Len(signals) + 1] = m
  BY AppendProperties, LenProperties
<1>2. ASSUME \A k \in DOMAIN signals : TellsAt(k), TellsAt(n)', NEW k \in DOMAIN signals'
      PROVE  TellsAt(k)'
  <2>1. CASE k = n
    BY <1>2, <2>1
  <2>2. CASE k # n
    <3>1. k \in 1 .. Len(signals) /\ TellsAt(k) /\ signals'[k] = signals[k]
      BY <1>1, <1>2, <2>2
    <3>2. k # 1 => signals'[k - 1] = signals[k - 1]
      BY <1>1, <3>1
    <3>3. k % 3 # 1 => k # 1
      BY <3>1
    <3> QED
      BY <3>1, <3>2, <3>3 DEF TellsAt
  <2> QED
    BY <2>1, <2>2
<1>3. ASSUME Len(signals) # 0 PROVE signals'[n - 1] = signals[n - 1]
  <2>1. n - 1 \in 1 .. Len(signals)
    BY <1>1, <1>3
  <2> QED
    BY <1>1, <2>1
<1> QED
  BY <1>1, <1>2, <1>3

LEMMA PathInvNext == MachineInv /\ PathInv /\ [MachineNext]_machineVars => PathInv'
<1> SUFFICES ASSUME MachineInv, PathInv, [MachineNext]_machineVars PROVE PathInv'
  OBVIOUS
<1> PICK n : n = Len(signals) + 1
  OBVIOUS
<1>0. /\ MachineTyped
      /\ Len(steps) \in Nat /\ (Idle <=> Len(steps) = 0)
      /\ Len(signals) \in Nat /\ DOMAIN signals = 1 .. Len(signals)
      /\ \A k \in 1 .. Len(signals) : signals[k] \in Signal
      /\ signals \in Seq(Signal)
  BY LenProperties, ElementOfSeq DEF MachineInv, MachineTyped, PathInv, Idle
<1>1. ASSUME UNCHANGED <<current, steps, signals, nested>> PROVE PathInv'
  BY <1>1 DEF PathInv, StepTold, TellsAt, Idle
<1>2. ASSUME NEW input \in Inputs, Step(input) PROVE PathInv'
  <2> DEFINE next == transitions[current][input]
             m == [signal |-> "exited", previous |-> current, next |-> next]
             f == [next |-> next, signal |-> "exited"]
  <2>1. /\ next \in States /\ next # current
        /\ m \in Signal /\ f \in StepFrame
        /\ signals' = Append(signals, m)
        /\ steps' = Append(steps, f)
        /\ nested' = (nested \/ ~Idle)
        /\ current' = current
    BY <1>0, <1>2 DEF Step, EmitSignal, MachineTyped, Signal, StepFrame
  <2>2. /\ signals' \in Seq(Signal)
        /\ Len(signals') = Len(signals) + 1
        /\ signals'[n] = m
        /\ Len(signals) # 0 => signals'[n - 1] = signals[n - 1]
        /\ (\A k \in DOMAIN signals : TellsAt(k)) /\ TellsAt(n)'
                => \A k \in DOMAIN signals' : TellsAt(k)'
    BY <1>0, <2>1, SignalAppended
  <2>3. nested' \in BOOLEAN
    BY <2>1
  <2>4. ASSUME ~nested' PROVE StepTold' /\ \A k \in DOMAIN signals' : TellsAt(k)'
    <3>1. ~nested /\ Idle /\ Len(steps) = 0
      BY <2>1, <2>4, <1>0
    <3>2. Len(signals) % 3 = 0 /\ current = IF Len(signals) = 0 THEN First ELSE signals[Len(signals)].next
      BY <3>1 DEF PathInv, StepTold
    <3>3. n % 3 = 1
      BY <3>2, <1>0
    <3>4. Len(signals) # 0 => signals'[Len(signals)] = signals[Len(signals)]
      BY <1>0, <2>2
    <3>5. TellsAt(n)'
      <4>1. /\ signals'[n].signal = "exited"
            /\ signals'[n].previous = current
            /\ signals'[n].next = next
        BY <2>2
      <4>2. n % 3 = 1 /\ n - 1 = Len(signals) /\ (n = 1 <=> Len(signals) = 0)
        BY <3>3, <1>0
      <4>3. signals'[n].previous = IF n = 1 THEN First ELSE signals'[n - 1].next
        BY <3>2, <3>4, <4>1, <4>2
      <4> HIDE DEF next, m
      <4>4. /\ signals'[n].previous # signals'[n].next
            /\ signals'[n].signal = CASE n % 3 = 1 -> "exited" [] n % 3 = 2 -> "stepped" [] OTHER -> "entered"
            /\ n % 3 # 1 => /\ signals'[n].previous = signals'[n - 1].previous
                            /\ signals'[n].next = signals'[n - 1].next
            /\ n % 3 = 1 => signals'[n].previous = IF n = 1 THEN First ELSE signals'[n - 1].next
        <5>1. signals'[n].previous # signals'[n].next
          BY <2>1, <4>1
        <5>2. signals'[n].signal = CASE n % 3 = 1 -> "exited" [] n % 3 = 2 -> "stepped" [] OTHER -> "entered"
          BY <4>1, <4>2
        <5> QED
          BY <4>2, <4>3, <5>1, <5>2
      <4> QED
        BY <4>4, <2>2 DEF TellsAt
    <3>6. /\ Len(steps') = 1
          /\ steps'[1].next = next
          /\ steps'[1].signal = "exited"
      BY <1>0, <2>1, <3>1, AppendProperties DEF MachineTyped
    <3>7. StepTold'
      <4>1. ~Idle'
        BY <1>0, <2>1, <3>6 DEF Idle, MachineTyped
      <4>2. /\ signals'[n].previous = current'
            /\ signals'[n].next = steps'[1].next
            /\ Len(signals') = n
        BY <2>1, <2>2, <3>6
      <4>3. n > 0
        BY <1>0
      <4> HIDE DEF next, m, f
      <4> QED
        BY <3>3, <3>6, <4>1, <4>2, <4>3 DEF StepTold
    <3> QED
      BY <2>2, <3>1, <3>5, <3>7 DEF PathInv
  <2> QED
    BY <2>2, <2>3, <2>4 DEF PathInv
<1>3. ASSUME NEW was \in {"exited", "stepped"}, NEW signal \in {"stepped", "entered"},
             (was = "exited" /\ signal = "stepped") \/ (was = "stepped" /\ signal = "entered"),
             ~Idle, steps[Innermost].signal = was,
             steps' = [steps EXCEPT ![Innermost].signal = signal],
             EmitSignal(signal, current, steps[Innermost].next),
             UNCHANGED <<current, nested>>
      PROVE  PathInv'
  <2> DEFINE m == [signal |-> signal, previous |-> current, next |-> steps[Innermost].next]
             f == [next |-> steps[Innermost].next, signal |-> signal]
  <2>1. Len(steps) >= 1 /\ Innermost = Len(steps) /\ steps[Innermost] \in StepFrame
    BY <1>0, <1>3 DEF Idle, Innermost, MachineTyped
  <2>2. m \in Signal /\ signals' = Append(signals, m)
    BY <1>0, <1>3, <2>1 DEF EmitSignal, Signal, StepFrame, MachineTyped
  <2>3. /\ signals' \in Seq(Signal)
        /\ Len(signals') = Len(signals) + 1
        /\ signals'[n] = m
        /\ Len(signals) # 0 => signals'[n - 1] = signals[n - 1]
        /\ (\A k \in DOMAIN signals : TellsAt(k)) /\ TellsAt(n)'
                => \A k \in DOMAIN signals' : TellsAt(k)'
    BY <1>0, <2>2, SignalAppended
  <2>4. ASSUME ~nested PROVE StepTold' /\ \A k \in DOMAIN signals' : TellsAt(k)'
    <3>1. StepTold /\ \A k \in DOMAIN signals : TellsAt(k)
      BY <2>4 DEF PathInv
    <3>2. Innermost = 1 /\ Len(steps) = 1
      BY <1>0, <2>1, <3>1 DEF StepTold
    <3>3. /\ Len(signals) > 0
          /\ signals[Len(signals)].previous = current
          /\ signals[Len(signals)].next = steps[1].next
          /\ (was = "exited" => Len(signals) % 3 = 1)
          /\ (was = "stepped" => Len(signals) % 3 = 2)
      BY <1>3, <3>1, <3>2 DEF StepTold
    <3>4. (signal = "stepped" => n % 3 = 2) /\ (signal = "entered" => n % 3 = 0)
      <4>1. CASE was = "exited"
        BY <1>0, <1>3, <3>3, <4>1
      <4>2. CASE was = "stepped"
        BY <1>0, <1>3, <3>3, <4>2
      <4> QED
        BY <4>1, <4>2
    <3>5. signals'[Len(signals)] = signals[Len(signals)]
      BY <1>0, <2>3, <3>3
    <3>6. signals[Len(signals)].previous # signals[Len(signals)].next
      BY <1>0, <3>1, <3>3 DEF TellsAt
    <3>7. /\ signals'[n].signal = signal
          /\ signals'[n].previous = current
          /\ signals'[n].next = steps[1].next
      BY <2>3, <3>2
    <3>8. n - 1 = Len(signals) /\ n % 3 # 1
      BY <1>0, <3>4
    <3>9. TellsAt(n)'
      <4> HIDE DEF m
      <4>1. signals'[n].signal = CASE n % 3 = 1 -> "exited" [] n % 3 = 2 -> "stepped" [] OTHER -> "entered"
        <5>1. CASE signal = "stepped"
          BY <3>4, <3>7, <5>1
        <5>2. CASE signal = "entered"
          BY <3>4, <3>7, <5>2
        <5> QED
          BY <5>1, <5>2
      <4>2. /\ signals'[n].previous # signals'[n].next
            /\ n % 3 # 1 => /\ signals'[n].previous = signals'[n - 1].previous
                            /\ signals'[n].next = signals'[n - 1].next
            /\ n % 3 = 1 => signals'[n].previous = IF n = 1 THEN First ELSE signals'[n - 1].next
        BY <3>3, <3>5, <3>6, <3>7, <3>8
      <4> QED
        BY <4>1, <4>2 DEF TellsAt
    <3>10. /\ Len(steps') = 1 /\ steps' \in Seq(StepFrame)
           /\ steps'[1].next = steps[1].next
           /\ steps'[1].signal = signal
      <4>1. steps' = [steps EXCEPT ![1] = [steps[1] EXCEPT !.signal = signal]] /\ steps[1] \in StepFrame
        BY <1>3, <2>1, <3>2
      <4>2. steps \in Seq(StepFrame) /\ [steps[1] EXCEPT !.signal = signal] \in StepFrame
        BY <1>0, <4>1 DEF MachineTyped, StepFrame
      <4>3. Len(steps') = 1 /\ steps' \in Seq(StepFrame) /\ steps'[1] = [steps[1] EXCEPT !.signal = signal]
        <5>1. PICK s \in Seq(StepFrame), q \in StepFrame :
                  s = steps /\ q = [steps[1] EXCEPT !.signal = signal]
          BY <4>2
        <5>2. steps' = [s EXCEPT ![1] = q] /\ 1 \in 1 .. Len(s) /\ Len(s) = 1
          BY <3>2, <4>1, <5>1
        <5>3. Len(steps') = 1 /\ steps' \in Seq(StepFrame) /\ steps'[1] = q
          BY SMTT(30), <5>2, ExceptSeq
        <5> QED
          BY <5>1, <5>3
      <4>4. steps'[1].next = steps[1].next /\ steps'[1].signal = signal
        BY <4>1, <4>3 DEF StepFrame
      <4> QED
        BY <4>3, <4>4
    <3>11. StepTold'
      <4>1. ~Idle'
        <5>1. \A s \in Seq(StepFrame) : Len(s) = 1 => s # <<>>
          OBVIOUS
        <5> HIDE DEF m, f
        <5> QED
          BY <3>10, <5>1, Zenon DEF Idle
      <4>2. /\ signals'[n].previous = current'
            /\ signals'[n].next = steps'[1].next
            /\ Len(signals') = n
        BY <1>3, <2>3, <3>7, <3>10
      <4>3. n > 0
        BY <1>0
      <4> HIDE DEF m, f
      <4> QED
        BY <3>4, <3>10, <4>1, <4>2, <4>3 DEF StepTold
    <3> QED
      BY <2>3, <3>1, <3>9, <3>11
  <2> QED
    BY <1>3, <2>3, <2>4 DEF PathInv
<1>4. CASE ExitedReturns
  BY <1>3, <1>4 DEF ExitedReturns
<1>5. CASE SteppedReturns
  BY <1>3, <1>5 DEF SteppedReturns
<1>6. CASE EnteredReturns
  <2>1. Len(steps) >= 1 /\ Innermost = Len(steps)
    BY <1>0, <1>6 DEF EnteredReturns, Idle, Innermost
  <2>2. signals' = signals /\ nested' = nested /\ current' = steps[Innermost].next
    BY <1>6 DEF EnteredReturns
  <2>3. ASSUME ~nested PROVE StepTold' /\ \A k \in DOMAIN signals' : TellsAt(k)'
    <3>1. StepTold /\ \A k \in DOMAIN signals : TellsAt(k)
      BY <2>3 DEF PathInv
    <3>2. Innermost = 1 /\ Len(steps) = 1
      BY <1>0, <2>1, <3>1 DEF StepTold
    <3>3. steps' = <<>>
      BY <1>6, <3>2, <1>0 DEF EnteredReturns, MachineTyped
    <3>4. /\ Len(signals) > 0
          /\ signals[Len(signals)].next = steps[1].next
          /\ Len(signals) % 3 = 0
      BY <1>0, <1>6, <3>1, <3>2 DEF StepTold, EnteredReturns
    <3>5. StepTold'
      BY <2>2, <3>2, <3>3, <3>4 DEF StepTold, Idle
    <3> QED
      BY <2>2, <3>1, <3>5, SameSignalsTell
  <2> QED
    BY <2>2, <2>3 DEF PathInv
<1>7. CASE UNCHANGED machineVars
  BY <1>1, <1>7 DEF machineVars
<1>8. ASSUME NEW from \in States, NEW to \in States, NEW input \in Inputs, AddTransition(from, input, to)
      PROVE  PathInv'
  BY <1>1, <1>8 DEF AddTransition
<1>9. ASSUME NEW input \in Inputs, StepStays(input) PROVE PathInv'
  BY <1>1, <1>9 DEF StepStays
<1> QED BY <1>2, <1>4, <1>5, <1>6, <1>7, <1>8, <1>9 DEF MachineNext

(***************************************************************************)
(* The signals tell the machine's path: what the application learns from   *)
(* exited(), stepped() and entered() is where the machine was and is, for  *)
(* as long as no slot steps it (StateMachine::step()).             *)
(***************************************************************************)
THEOREM SignalsAlwaysTellPath == MachineSpec => []SignalsTellPath
<1>1. PathInv => SignalsTellPath
  <2> SUFFICES ASSUME PathInv, ~nested PROVE SignalsTellPath
    BY DEF SignalsTellPath
  <2>1. StepTold /\ \A k \in DOMAIN signals : TellsAt(k)
    BY DEF PathInv
  <2>2. Len(signals) = 0 <=> signals = <<>>
    BY DEF PathInv
  <2>3. Idle => current = IF signals = <<>> THEN First ELSE signals[Len(signals)].next
    BY <2>1, <2>2 DEF StepTold
  <2> QED
    BY <2>1, <2>3 DEF SignalsTellPath, TellsAt
<1> QED BY MachineInvInit, MachineInvNext, PathInvInit, PathInvNext, <1>1, PTL DEF MachineSpec
=============================================================================
