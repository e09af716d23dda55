------------------------ MODULE PluginManagerProofs ------------------------
(***************************************************************************)
(* Proofs about PluginManager.                                             *)
(*                                                                         *)
(* Whatever plugin files, managers and calls: an alias never leads to a    *)
(* plugin that is gone, and a plugin with an instance that must not be     *)
(* deleted stays (ManagerInv).                                             *)
(*                                                                         *)
(* Where no name is of two managers and there is no cycle: what a plugin   *)
(* was linked to stays, and unloading finds just that again (UsesInv).     *)
(* Where dependents also come first: the lists of users are exact and the  *)
(* destructor leaves no plugin loaded (UsersInv).                          *)
(***************************************************************************)
EXTENDS PluginManager, SequenceTheorems, FiniteSetTheorems, WellFoundedInduction, TLAPS

IsPlugin(p) ==
    /\ p = [metadata |-> p.metadata, loadState |-> p.loadState, usedBy |-> p.usedBy,
            uses |-> p.uses, instances |-> p.instances]
    /\ p.metadata \in Metadata
    /\ p.instances \in Nat

Typed ==
    /\ managers \subseteq Managers
    /\ DOMAIN plugins = Managers
    /\ DOMAIN aliases = Managers
    /\ externalManagers \in [Managers -> SUBSET Managers]
    /\ \A o \in DOMAIN objects : o \in Objects /\ IsPlugin(objects[o])

\* A manager's map of plugins leads to objects of that manager and name.
RegistrySound ==
    \A m \in Managers : \A n \in DOMAIN plugins[m] :
        LET o == plugins[m][n] IN o \in DOMAIN objects /\ o.manager = m /\ o.name = n

\* The promise of aliases, about managers that are not alive, too.
AliasesLead ==
    \A m \in Managers : \A x \in DOMAIN aliases[m] :
        LET o == aliases[m][x] IN
        /\ o.manager = m
        /\ Registered(o)
        /\ x = o.name \/ x \in objects[o].metadata.provides

NothingBefore == \A m \in Managers \ managers : DOMAIN plugins[m] = {}

\* Only the outermost load() is of a plugin that is not registered, and the one
\* of its name that is has no instance.
LoadsSound ==
    /\ stack \in Seq(Frame)
    /\ \A i \in 1 .. Len(stack) :
            /\ stack[i].object \in DOMAIN objects
            /\ i > 1 => Registered(stack[i].object)
    /\ stack # <<>> => LET o == stack[1].object IN
            /\ o.manager \in managers
            /\ ~Registered(o) /\ o.name \in DOMAIN plugins[o.manager] =>
                    objects[plugins[o.manager][o.name]].instances = 0

\* Who has instances is loaded and registered.
InstancesHeld ==
    \A o \in DOMAIN objects : objects[o].instances > 0 => Registered(o) /\ IsLoaded(o)

\* A manager that is being destroyed has no instances it must not delete.
DestructionSound ==
    destroying # None =>
        /\ stack = <<>>
        /\ destroying.manager \in Managers
        /\ destroying = [manager |-> destroying.manager, left |-> destroying.left, at |-> destroying.at]
        /\ \A o \in DOMAIN objects : o.manager = destroying.manager /\ objects[o].instances > 0 =>
                objects[o].metadata.deletable

ManagerInv ==
    /\ Typed
    /\ RegistrySound
    /\ AliasesLead
    /\ NothingBefore
    /\ LoadsSound
    /\ InstancesHeld
    /\ DestructionSound

\* What InstancesKept says of a step.
KeepsInstances ==
    \A o \in DOMAIN objects :
        objects[o].instances > 0 /\ ~objects[o].metadata.deletable =>
            o \in DOMAIN objects' /\ Registered(o)' /\ IsLoaded(o)'

-----------------------------------------------------------------------------
\* Operators

\* The least of some numbers.
LEMMA MinIsLeast ==
    ASSUME NEW S \in SUBSET Nat, S # {}
    PROVE  Min(S) \in S /\ \A k \in S : Min(S) <= k
<1>1. OpToRel(<, Nat) = {ss \in Nat \X Nat : ss[1] < ss[2]}
  BY DEF OpToRel
<1>2. \E m \in S : \A k \in S : ~(<<k, m>> \in OpToRel(<, Nat))
  BY NatLessThanWellFounded, WFMin
<1>3. PICK m \in S : \A k \in S : ~(<<k, m>> \in {ss \in Nat \X Nat : ss[1] < ss[2]})
  BY <1>1, <1>2, Zenon
<1>4. \A k \in S : m <= k
  <2>1. TAKE k \in S
  <2>2. <<k, m>> \in Nat \X Nat /\ <<k, m>>[1] = k /\ <<k, m>>[2] = m
    BY SMT
  <2>3. ~(k < m)
    BY <1>3, <2>2, Zenon
  <2> QED BY <2>3, SMT
<1> QED BY <1>4 DEF Min

LEMMA MinIsMember ==
    ASSUME NEW S \in SUBSET Nat, S # {}
    PROVE  Min(S) \in S
  BY MinIsLeast

\* An alias that was added leads to a plugin that provides it.
LEMMA AliasesAdded ==
    ASSUME NEW map, NEW metadata, NEW object, DOMAIN metadata \subseteq Nat,
           NEW x \in DOMAIN AddAliases(map, metadata, object)
    PROVE  \/ x \in DOMAIN map /\ AddAliases(map, metadata, object)[x] = map[x]
           \/ \E n \in DOMAIN metadata :
                x \in metadata[n].provides /\ AddAliases(map, metadata, object)[x] = object[n]
<1> DEFINE S == {n \in DOMAIN metadata : x \in metadata[n].provides}
           new == [y \in UNION {metadata[n].provides : n \in DOMAIN metadata} |->
                    object[Min({n \in DOMAIN metadata : y \in metadata[n].provides})]]
<1>1. CASE x \in DOMAIN map
  BY <1>1 DEF AddAliases, Over
<1>2. CASE x \notin DOMAIN map
  <2>1. x \in UNION {metadata[n].provides : n \in DOMAIN metadata}
    BY <1>2 DEF AddAliases, Over
  <2>2. S # {} /\ S \in SUBSET Nat
    BY <2>1
  <2>3. Min(S) \in S
    BY <2>2, MinIsMember
  <2>4. AddAliases(map, metadata, object)[x] = object[Min(S)]
    BY <1>2, <2>1 DEF AddAliases, Over
  <2> QED BY <2>3, <2>4
<1> QED BY <1>1, <1>2

\* Where a dependency's name leads is registered.
LEMMA ResolveSound ==
    ASSUME Typed, RegistrySound, NEW m \in Managers, NEW n, Resolve(m, n) # None
    PROVE  Resolve(m, n) \in DOMAIN objects /\ Registered(Resolve(m, n))
<1> DEFINE others == {k \in externalManagers[m] : n \in DOMAIN plugins[k]}
<1>1. CASE n \in DOMAIN plugins[m]
  BY <1>1 DEF Resolve, RegistrySound, Registered
<1>2. CASE n \notin DOMAIN plugins[m] /\ others # {}
  <2>1. others \in SUBSET Nat /\ others \subseteq Managers
    BY PluginManagerAssumption DEF Typed
  <2>2. Min(others) \in others
    BY <1>2, <2>1, MinIsMember
  <2>3. Resolve(m, n) = plugins[Min(others)][n]
    BY <1>2 DEF Resolve
  <2> QED BY <2>1, <2>2, <2>3 DEF RegistrySound, Registered
<1>3. CASE n \notin DOMAIN plugins[m] /\ others = {}
  BY <1>3 DEF Resolve
<1> QED BY <1>1, <1>2, <1>3

LEMMA RegisteredType ==
    ASSUME Typed, RegistrySound, AliasesLead, NEW m \in Managers
    PROVE  /\ DOMAIN plugins[m] \subseteq Names
           /\ \A n \in DOMAIN plugins[m] : Registered(plugins[m][n])
           /\ \A x \in DOMAIN aliases[m] :
                aliases[m][x] \in DOMAIN objects /\ aliases[m][x] \in Objects
<1>1. DOMAIN plugins[m] \subseteq Names
  BY DEF Typed, RegistrySound, Objects
<1>2. \A n \in DOMAIN plugins[m] : Registered(plugins[m][n])
  BY DEF RegistrySound, Registered
<1>3. \A x \in DOMAIN aliases[m] : aliases[m][x] \in DOMAIN objects
  BY DEF AliasesLead, RegistrySound, Registered
<1> QED BY <1>1, <1>2, <1>3 DEF Typed

\* The innermost call.
LEMMA TopSound ==
    ASSUME Typed, LoadsSound, stack # <<>>
    PROVE  /\ Len(stack) \in Nat \ {0}
           /\ DOMAIN stack = 1 .. Len(stack)
           /\ Top \in Frame
           /\ Top.object \in DOMAIN objects
           /\ Top.object \in Objects
           /\ ~Registered(Top.object) => Len(stack) = 1
<1>1. /\ Len(stack) \in Nat \ {0}
      /\ DOMAIN stack = 1 .. Len(stack)
  BY EmptySeq, LenProperties DEF LoadsSound
<1>2. Top \in Frame
  BY <1>1, ElementOfSeq DEF LoadsSound, Top
<1>3. /\ Top.object \in DOMAIN objects
      /\ ~Registered(Top.object) => Len(stack) = 1
  BY <1>1 DEF LoadsSound, Top
<1> QED BY <1>1, <1>2, <1>3 DEF Typed

-----------------------------------------------------------------------------
\* Steps that change neither plugins nor aliases.

\* As long as registered objects stay with their metadata, the maps are right.
LEMMA MapsKept ==
    ASSUME ManagerInv, UNCHANGED <<managers, plugins, aliases>>,
           \A o \in DOMAIN objects : Registered(o) =>
                o \in DOMAIN objects' /\ objects'[o].metadata = objects[o].metadata
    PROVE  RegistrySound' /\ AliasesLead' /\ NothingBefore'
<1>1. RegistrySound'
  BY RegisteredType DEF ManagerInv, RegistrySound
<1>2. AliasesLead'
  BY RegisteredType DEF ManagerInv, AliasesLead, Registered
<1>3. NothingBefore'
  BY DEF ManagerInv, NothingBefore
<1> QED BY <1>1, <1>2, <1>3

\* A step that leaves the objects alone as well.
LEMMA ObjectsKept ==
    ASSUME ManagerInv, UNCHANGED <<managers, plugins, aliases, externalManagers, objects>>
    PROVE  /\ Typed' /\ RegistrySound' /\ AliasesLead' /\ NothingBefore' /\ InstancesHeld'
           /\ KeepsInstances
<1>1. Typed'
  BY DEF ManagerInv, Typed
<1>2. RegistrySound' /\ AliasesLead' /\ NothingBefore'
  BY MapsKept
<1>3. InstancesHeld'
  BY DEF ManagerInv, InstancesHeld, Registered, IsLoaded
<1>4. KeepsInstances
  BY DEF ManagerInv, InstancesHeld, KeepsInstances, Registered, IsLoaded
<1> QED BY <1>1, <1>2, <1>3, <1>4

-----------------------------------------------------------------------------
\* The calls that only read the plugins, and load() up to opening a module.

LEMMA PreferredStep ==
    ASSUME ManagerInv, NEW m \in Managers, NEW x, NEW n, SetPreferredPlugins(m, x, n)
    PROVE  ManagerInv' /\ KeepsInstances
<1>1. Typed' /\ RegistrySound' /\ NothingBefore'
  BY DEF SetPreferredPlugins, ManagerInv, Typed, RegistrySound, NothingBefore
<1>2. AliasesLead'
  <2> SUFFICES ASSUME NEW k \in Managers, NEW y \in DOMAIN aliases'[k]
               PROVE  LET o == aliases'[k][y] IN
                        /\ o.manager = k
                        /\ o.name \in DOMAIN plugins[o.manager] /\ plugins[o.manager][o.name] = o
                        /\ y = o.name \/ y \in objects[o].metadata.provides
    BY DEF SetPreferredPlugins, AliasesLead, Registered
  <2>1. y \in DOMAIN aliases[k]
    BY DEF SetPreferredPlugins, ManagerInv, Typed
  <2>2. CASE k = m /\ y = x
    <3>1. aliases'[k][y] = plugins[m][n]
      BY <2>1, <2>2 DEF SetPreferredPlugins, ManagerInv, Typed
    <3>2. plugins[m][n].manager = m /\ plugins[m][n].name = n
      BY DEF SetPreferredPlugins, ManagerInv, RegistrySound
    <3> QED BY <2>2, <3>1, <3>2 DEF SetPreferredPlugins
  <2>3. CASE ~(k = m /\ y = x)
    <3>1. aliases'[k][y] = aliases[k][y]
      BY <2>1, <2>3 DEF SetPreferredPlugins, ManagerInv, Typed
    <3> QED BY <2>1, <3>1 DEF ManagerInv, AliasesLead, Registered
  <2> QED BY <2>2, <2>3
<1>3. LoadsSound' /\ DestructionSound'
  BY DEF SetPreferredPlugins, ManagerInv, LoadsSound, DestructionSound, Registered
<1>4. InstancesHeld' /\ KeepsInstances
  BY DEF SetPreferredPlugins, ManagerInv, InstancesHeld, KeepsInstances, Registered, IsLoaded
<1> QED BY <1>1, <1>2, <1>3, <1>4 DEF ManagerInv

LEMMA ExternalStep ==
    ASSUME ManagerInv, NEW m \in Managers, NEW k \in Managers, RegisterExternalManager(m, k)
    PROVE  ManagerInv' /\ KeepsInstances
<1>1. Typed' /\ RegistrySound' /\ NothingBefore' /\ AliasesLead'
  BY DEF RegisterExternalManager, ManagerInv, Typed, RegistrySound, NothingBefore, AliasesLead, Registered
<1>2. LoadsSound' /\ DestructionSound'
  BY DEF RegisterExternalManager, ManagerInv, LoadsSound, DestructionSound, Registered
<1>3. InstancesHeld' /\ KeepsInstances
  BY DEF RegisterExternalManager, ManagerInv, InstancesHeld, KeepsInstances, Registered, IsLoaded
<1> QED BY <1>1, <1>2, <1>3 DEF ManagerInv

\* As long as the calls are of the same objects and the objects the same.
LEMMA CallsKept ==
    ASSUME ManagerInv, UNCHANGED <<managers, plugins, objects>>, stack # <<>>,
           stack' \in Seq(Frame), Len(stack') = Len(stack),
           \A j \in 1 .. Len(stack) : stack'[j].object = stack[j].object
    PROVE  LoadsSound'
<1>1. Len(stack) \in Nat \ {0}
  BY TopSound DEF ManagerInv
<1>2. stack'[1].object = stack[1].object
  BY <1>1
<1>3. ASSUME NEW i \in 1 .. Len(stack')
      PROVE  (stack[i].object \in DOMAIN objects /\ (i > 1 => Registered(stack[i].object)))'
  BY DEF ManagerInv, LoadsSound, Registered
<1>4. (LET o == stack[1].object IN
        /\ o.manager \in managers
        /\ ~Registered(o) /\ o.name \in DOMAIN plugins[o.manager] =>
                objects[plugins[o.manager][o.name]].instances = 0)'
  BY <1>2 DEF ManagerInv, LoadsSound, Registered
<1> QED BY <1>3, <1>4 DEF LoadsSound

LEMMA LoadStep ==
    ASSUME ManagerInv, NEW m \in Managers, NEW x, Load(m, x)
    PROVE  ManagerInv' /\ KeepsInstances
<1>0. PICK o : o = aliases[m][x]
  OBVIOUS
<1> DEFINE call == Call(o, objects[o].metadata)
<1>1. /\ UNCHANGED <<managers, plugins, aliases, externalManagers, objects, destroying>>
      /\ Idle /\ m \in managers
      /\ x \in DOMAIN aliases[m]
      /\ stack' = <<call>>
  BY <1>0 DEF Load
<1>2. o \in DOMAIN objects /\ o \in Objects /\ Registered(o) /\ o.manager = m
  BY <1>0, <1>1, RegisteredType DEF ManagerInv, AliasesLead
<1>3. call \in Frame /\ call.object = o
  BY <1>2 DEF ManagerInv, Typed, IsPlugin, Metadata, Call, Frame
<1> HIDE DEF call
<1>4. LoadsSound'
  <2>1. stack' \in Seq(Frame) /\ Len(stack') = 1 /\ stack'[1] = call
    BY <1>1, <1>3
  <2>2. Registered(o)'
    BY <1>1, <1>2 DEF Registered
  <2>3. \A i \in 1 .. Len(stack') : i = 1
    BY <2>1
  <2>4. stack'[1].object = o /\ o \in DOMAIN objects' /\ o.manager \in managers'
    BY <1>1, <1>2, <1>3, <2>1
  <2> QED BY <2>1, <2>2, <2>3, <2>4 DEF LoadsSound
<1>5. DestructionSound'
  BY <1>1 DEF Idle, DestructionSound
<1> QED BY <1>1, <1>4, <1>5, ObjectsKept DEF ManagerInv

LEMMA RecordStep ==
    ASSUME ManagerInv, RecordDependency
    PROVE  ManagerInv' /\ KeepsInstances
<1>0. PICK frame : frame = [Top EXCEPT !.left = Tail(Top.left), !.found = Top.found \cup {Dependency}]
  OBVIOUS
<1>1. /\ UNCHANGED <<managers, plugins, aliases, externalManagers, objects, destroying>>
      /\ stack # <<>> /\ Dependency # None
      /\ stack' = [stack EXCEPT ![Len(stack)] = frame]
  BY <1>0 DEF RecordDependency
<1>2. /\ Len(stack) \in Nat \ {0} /\ Top \in Frame /\ stack \in Seq(Frame)
      /\ Top.object \in Objects
  BY <1>1, TopSound DEF ManagerInv, LoadsSound
<1>3. Dependency \in Objects /\ Top.left # <<>>
  BY <1>1, <1>2, ResolveSound DEF Dependency, ManagerInv, Typed, Objects
<1>4. frame \in Frame /\ frame.object = Top.object
  <2>1. /\ Top.object \in Objects /\ Top.left \in Seq(Names) /\ Top.found \in SUBSET Objects
        /\ Top = [object |-> Top.object, left |-> Top.left, found |-> Top.found]
    BY <1>2 DEF Frame
  <2>2. Tail(Top.left) \in Seq(Names)
    BY <1>3, <2>1, HeadTailProperties
  <2>3. frame = [object |-> Top.object, left |-> Tail(Top.left), found |-> Top.found \cup {Dependency}]
    BY <1>0, <2>1, Zenon
  <2> QED BY <1>3, <2>1, <2>2, <2>3 DEF Frame
<1>5. /\ stack' \in Seq(Frame) /\ Len(stack') = Len(stack)
      /\ \A j \in 1 .. Len(stack) : stack'[j] = IF j = Len(stack) THEN frame ELSE stack[j]
  BY <1>1, <1>2, <1>4, ExceptSeq
<1>6. \A j \in 1 .. Len(stack) : stack'[j].object = stack[j].object
  BY <1>4, <1>5 DEF Top
<1>7. LoadsSound'
  BY <1>1, <1>2, <1>5, <1>6, CallsKept
<1>8. DestructionSound'
  BY <1>1 DEF ManagerInv, DestructionSound
<1> QED BY <1>1, <1>7, <1>8, ObjectsKept DEF ManagerInv

LEMMA DescendStep ==
    ASSUME ManagerInv, LoadDependency
    PROVE  ManagerInv' /\ KeepsInstances
<1>0. PICK o : o = Dependency
  OBVIOUS
<1> DEFINE call == Call(o, objects[o].metadata)
<1>1. /\ UNCHANGED <<managers, plugins, aliases, externalManagers, objects, destroying>>
      /\ stack # <<>> /\ o # None
      /\ stack' = Append(stack, call)
  BY <1>0 DEF LoadDependency
<1>2. Len(stack) \in Nat \ {0} /\ stack \in Seq(Frame) /\ Top.object \in Objects
  BY <1>1, TopSound DEF ManagerInv, LoadsSound
<1>3. o \in DOMAIN objects /\ o \in Objects /\ Registered(o)
  BY <1>0, <1>1, <1>2, ResolveSound DEF Dependency, ManagerInv, Typed, Objects
<1>4. call \in Frame /\ call.object = o
  BY <1>3 DEF ManagerInv, Typed, IsPlugin, Metadata, Call, Frame
<1> HIDE DEF call
<1>5. /\ stack' \in Seq(Frame) /\ Len(stack') = Len(stack) + 1
      /\ \A j \in 1 .. Len(stack) : stack'[j] = stack[j]
      /\ stack'[Len(stack) + 1] = call
  BY <1>1, <1>2, <1>4, AppendProperties
<1>6. Registered(o)'
  BY <1>1, <1>3 DEF Registered
<1>7. LoadsSound'
  <2>1. ASSUME NEW i \in 1 .. Len(stack')
        PROVE  (stack[i].object \in DOMAIN objects /\ (i > 1 => Registered(stack[i].object)))'
    BY <1>1, <1>2, <1>3, <1>4, <1>5, <1>6 DEF ManagerInv, LoadsSound, Registered
  <2> QED BY SMTT(30), <1>1, <1>2, <1>5, <2>1 DEF ManagerInv, LoadsSound, Registered
<1>8. DestructionSound'
  BY <1>1 DEF ManagerInv, DestructionSound
<1> QED BY <1>1, <1>7, <1>8, ObjectsKept DEF ManagerInv

LEMMA FailStep ==
    ASSUME ManagerInv, FailLoad
    PROVE  ManagerInv' /\ KeepsInstances
<1>1. /\ UNCHANGED <<managers, plugins, aliases, externalManagers, destroying>>
      /\ stack # <<>> /\ stack' = <<>>
      /\ DOMAIN objects' = {o \in DOMAIN objects : Registered(o)}
      /\ \A o \in DOMAIN objects' : objects'[o] = objects[o]
  BY DEF FailLoad, Restrict
<1>2. Typed'
  BY <1>1 DEF ManagerInv, Typed
<1>3. RegistrySound' /\ AliasesLead' /\ NothingBefore'
  BY <1>1, MapsKept
<1>4. LoadsSound'
  BY <1>1 DEF LoadsSound
<1>5. InstancesHeld' /\ KeepsInstances
  BY <1>1 DEF ManagerInv, InstancesHeld, KeepsInstances, Registered, IsLoaded
<1>6. DestructionSound'
  BY <1>1 DEF ManagerInv, DestructionSound
<1> QED BY <1>2, <1>3, <1>4, <1>5, <1>6 DEF ManagerInv

-----------------------------------------------------------------------------
\* Steps that change what the objects contain.

\* What becomes of a plugin's content.
LEMMA InstancesSet ==
    ASSUME NEW p, IsPlugin(p), NEW k \in Nat, NEW r, r = [p EXCEPT !.instances = k]
    PROVE  /\ IsPlugin(r)
           /\ r.metadata = p.metadata
           /\ r.loadState = p.loadState
           /\ r.instances = k
<1>1. /\ p = [metadata |-> p.metadata, loadState |-> p.loadState, usedBy |-> p.usedBy,
              uses |-> p.uses, instances |-> p.instances]
      /\ p.metadata \in Metadata /\ p.instances \in Nat
  BY DEF IsPlugin
<1>2. r = [metadata |-> p.metadata, loadState |-> p.loadState, usedBy |-> p.usedBy,
         uses |-> p.uses, instances |-> k]
  BY <1>1, Zenon
<1> QED BY <1>1, <1>2 DEF IsPlugin

\* A user more or less.
LEMMA UsersSet ==
    ASSUME NEW p, IsPlugin(p), NEW users, NEW r, r = [p EXCEPT !.usedBy = users]
    PROVE  /\ IsPlugin(r)
           /\ r.metadata = p.metadata
           /\ r.loadState = p.loadState
           /\ r.instances = p.instances
<1>1. /\ p = [metadata |-> p.metadata, loadState |-> p.loadState, usedBy |-> p.usedBy,
              uses |-> p.uses, instances |-> p.instances]
      /\ p.metadata \in Metadata /\ p.instances \in Nat
  BY DEF IsPlugin
<1>2. r = [metadata |-> p.metadata, loadState |-> p.loadState, usedBy |-> users,
         uses |-> p.uses, instances |-> p.instances]
  BY <1>1, Zenon
<1> QED BY <1>1, <1>2 DEF IsPlugin

\* Loaded.
LEMMA LoadedSet ==
    ASSUME NEW p, IsPlugin(p), NEW used, NEW r, r = [p EXCEPT !.loadState = "Loaded", !.uses = used]
    PROVE  /\ IsPlugin(r)
           /\ r.metadata = p.metadata
           /\ r.loadState = "Loaded"
           /\ r.instances = p.instances
<1>1. /\ p = [metadata |-> p.metadata, loadState |-> p.loadState, usedBy |-> p.usedBy,
              uses |-> p.uses, instances |-> p.instances]
      /\ p.metadata \in Metadata /\ p.instances \in Nat
  BY DEF IsPlugin
<1>2. r = [metadata |-> p.metadata, loadState |-> "Loaded", usedBy |-> p.usedBy,
         uses |-> used, instances |-> p.instances]
  BY <1>1, Zenon
<1> QED BY <1>1, <1>2 DEF IsPlugin

\* Unloaded.
LEMMA UnloadedSet ==
    ASSUME NEW p, IsPlugin(p), NEW r, r = [p EXCEPT !.loadState = "NotLoaded", !.uses = {}, !.instances = 0]
    PROVE  /\ IsPlugin(r)
           /\ r.metadata = p.metadata
           /\ r.instances = 0
<1>1. /\ p = [metadata |-> p.metadata, loadState |-> p.loadState, usedBy |-> p.usedBy,
              uses |-> p.uses, instances |-> p.instances]
      /\ p.metadata \in Metadata /\ p.instances \in Nat
  BY DEF IsPlugin
<1>2. r = [metadata |-> p.metadata, loadState |-> "NotLoaded", usedBy |-> p.usedBy,
         uses |-> {}, instances |-> 0]
  BY <1>1, Zenon
<1>3. 0 \in Nat
  OBVIOUS
<1> QED BY <1>1, <1>2, <1>3, Zenon DEF IsPlugin

\* Objects stay and keep their metadata.
LEMMA ContentsKept ==
    ASSUME ManagerInv, UNCHANGED <<managers, plugins, aliases, externalManagers>>,
           DOMAIN objects' = DOMAIN objects,
           \A o \in DOMAIN objects :
                IsPlugin(objects'[o]) /\ objects'[o].metadata = objects[o].metadata
    PROVE  Typed' /\ RegistrySound' /\ AliasesLead' /\ NothingBefore'
<1>1. Typed'
  BY DEF ManagerInv, Typed
<1>2. RegistrySound' /\ AliasesLead' /\ NothingBefore'
  BY MapsKept
<1> QED BY <1>1, <1>2

\* An instance more or less of a plugin that is loaded.
LEMMA InstanceStep ==
    ASSUME ManagerInv, Idle, NEW o \in DOMAIN objects, NEW k \in Nat, Instances(o, k),
           Registered(o), IsLoaded(o),
           UNCHANGED <<managers, plugins, aliases, externalManagers, stack, destroying>>
    PROVE  ManagerInv' /\ KeepsInstances
<1>1. PICK p : p = objects[o]
  OBVIOUS
<1>2. PICK r : r = [p EXCEPT !.instances = k]
  OBVIOUS
<1>3. \A q \in DOMAIN objects : IsPlugin(objects[q])
  BY DEF ManagerInv, Typed
<1>4. IsPlugin(r) /\ r.metadata = p.metadata /\ r.loadState = p.loadState
  <2>1. IsPlugin(p)
    BY <1>1, <1>3, Zenon
  <2> QED BY <1>2, <2>1, InstancesSet, Zenon
<1>5. objects' = [objects EXCEPT ![o] = r]
  BY <1>1, <1>2, Zenon DEF Instances
<1>6. /\ DOMAIN objects' = DOMAIN objects
      /\ \A q \in DOMAIN objects : objects'[q] = IF q = o THEN r ELSE objects[q]
  BY <1>5, Zenon
<1>7. /\ r.metadata = objects[o].metadata
      /\ r.loadState = objects[o].loadState
      /\ IsPlugin(r)
  BY <1>1, <1>4, Zenon
<1>8. Typed' /\ RegistrySound' /\ AliasesLead' /\ NothingBefore'
  BY <1>3, <1>6, <1>7, ContentsKept
<1>9. LoadsSound' /\ DestructionSound'
  BY DEF ManagerInv, Idle, LoadsSound, DestructionSound
<1>10. InstancesHeld'
  BY <1>6, <1>7 DEF ManagerInv, InstancesHeld, Registered, IsLoaded
<1>11. KeepsInstances
  BY <1>6, <1>7 DEF ManagerInv, InstancesHeld, KeepsInstances, Registered, IsLoaded
<1> QED BY <1>8, <1>9, <1>10, <1>11 DEF ManagerInv

\* Unloading a plugin whose instances may be deleted, by unload() or by the
\* destructor of its manager.
LEMMA UnloadStep ==
    ASSUME ManagerInv, stack = <<>>, NEW o, CanUnload(o), objects' = Unloaded(o),
           UNCHANGED <<managers, plugins, aliases, externalManagers, stack>>
    PROVE  /\ Typed' /\ RegistrySound' /\ AliasesLead' /\ NothingBefore'
           /\ LoadsSound' /\ InstancesHeld' /\ KeepsInstances
           /\ \A q \in DOMAIN objects' :
                /\ q \in DOMAIN objects
                /\ objects'[q].metadata = objects[q].metadata
                /\ objects'[q].instances > 0 => objects[q].instances > 0
<1>1. /\ DOMAIN objects' = DOMAIN objects
      /\ \A q \in DOMAIN objects : objects'[q] =
            IF q = o
            THEN [objects[q] EXCEPT !.loadState = "NotLoaded", !.uses = {}, !.instances = 0]
            ELSE IF q \in Dependencies(o)
            THEN [objects[q] EXCEPT !.usedBy = RemoveFirst(@, o.name)]
            ELSE objects[q]
  BY Zenon DEF Unloaded
<1>2. \A q \in DOMAIN objects : IsPlugin(objects[q]) /\ objects[q].instances \in Nat
  BY DEF ManagerInv, Typed, IsPlugin
<1>3. ASSUME NEW q \in DOMAIN objects
      PROVE  /\ IsPlugin(objects'[q]) /\ objects'[q].metadata = objects[q].metadata
             /\ q = o => objects'[q].instances = 0
             /\ q # o => /\ objects'[q].loadState = objects[q].loadState
                         /\ objects'[q].instances = objects[q].instances
  <2>1. CASE q = o
    <3>1. objects'[q] = [objects[q] EXCEPT !.loadState = "NotLoaded", !.uses = {}, !.instances = 0]
      BY <1>1, <2>1, Zenon
    <3>2. /\ IsPlugin(objects'[q]) /\ objects'[q].metadata = objects[q].metadata
          /\ objects'[q].instances = 0
      BY <1>2, <3>1, UnloadedSet, Zenon
    <3> QED BY <2>1, <3>2
  <2>2. CASE q # o /\ q \in Dependencies(o)
    <3>1. objects'[q] = [objects[q] EXCEPT !.usedBy = RemoveFirst(objects[q].usedBy, o.name)]
      BY <1>1, <2>2, Zenon
    <3>2. PICK users : users = RemoveFirst(objects[q].usedBy, o.name)
      OBVIOUS
    <3>3. PICK p : p = objects[q]
      OBVIOUS
    <3>4. PICK r : r = objects'[q]
      OBVIOUS
    <3>5. r = [p EXCEPT !.usedBy = users] /\ IsPlugin(p)
      BY <1>2, <3>1, <3>2, <3>3, <3>4, Zenon
    <3>6. /\ IsPlugin(r) /\ r.metadata = p.metadata
          /\ r.loadState = p.loadState /\ r.instances = p.instances
      BY <3>5, UsersSet, Zenon
    <3>7. /\ IsPlugin(objects'[q]) /\ objects'[q].metadata = objects[q].metadata
          /\ objects'[q].loadState = objects[q].loadState
          /\ objects'[q].instances = objects[q].instances
      BY <3>3, <3>4, <3>6, Zenon
    <3> QED BY <2>2, <3>7
  <2>3. CASE q # o /\ q \notin Dependencies(o)
    <3>1. objects'[q] = objects[q]
      BY <1>1, <2>3, Zenon
    <3> QED BY <1>2, <2>3, <3>1
  <2> QED BY <2>1, <2>2, <2>3
<1>4. DOMAIN objects' = DOMAIN objects
  BY <1>1
<1>5. Typed' /\ RegistrySound' /\ AliasesLead' /\ NothingBefore'
  BY <1>3, <1>4, ContentsKept
<1>6. LoadsSound'
  BY DEF ManagerInv, LoadsSound
<1>7. InstancesHeld'
  BY <1>3, <1>4 DEF ManagerInv, InstancesHeld, Registered, IsLoaded
<1>8. KeepsInstances
  BY <1>3, <1>4 DEF ManagerInv, InstancesHeld, KeepsInstances, Registered, IsLoaded, CanUnload
<1> QED BY <1>2, <1>3, <1>4, <1>5, <1>6, <1>7, <1>8

-----------------------------------------------------------------------------
\* Opening modules.

\* A plugin whose metadata was read.
LEMMA NewIsPlugin ==
    ASSUME NEW metadata \in Metadata
    PROVE  /\ IsPlugin(NewPlugin(metadata)) /\ NewPlugin(metadata).metadata = metadata
           /\ NewPlugin(metadata).instances = 0
           /\ IsPlugin(NewStaticPlugin(metadata)) /\ NewStaticPlugin(metadata).metadata = metadata
           /\ NewStaticPlugin(metadata).instances = 0
<1> DEFINE state == IF metadata.valid THEN "NotLoaded" ELSE "WrongMetadataFile"
<1>0. NewPlugin(metadata) =
        [metadata |-> metadata, loadState |-> state, usedBy |-> <<>>, uses |-> {}, instances |-> 0]
  BY Zenon DEF NewPlugin
<1> HIDE DEF state
<1>1. /\ IsPlugin(NewPlugin(metadata)) /\ NewPlugin(metadata).metadata = metadata
      /\ NewPlugin(metadata).instances = 0
  BY <1>0 DEF IsPlugin
<1>2. NewStaticPlugin(metadata) =
        [metadata |-> metadata, loadState |-> "Static", usedBy |-> <<>>, uses |-> {}, instances |-> 0]
  <2>1. PICK p : p = NewPlugin(metadata)
    OBVIOUS
  <2>2. p = [metadata |-> metadata, loadState |-> state, usedBy |-> <<>>, uses |-> {}, instances |-> 0]
    BY <1>0, <2>1, Zenon
  <2>3. NewStaticPlugin(metadata) = [p EXCEPT !.loadState = "Static"]
    BY <2>1, Zenon DEF NewStaticPlugin
  <2> QED BY <2>2, <2>3, Zenon
<1>3. /\ IsPlugin(NewStaticPlugin(metadata)) /\ NewStaticPlugin(metadata).metadata = metadata
      /\ NewStaticPlugin(metadata).instances = 0
  BY <1>2 DEF IsPlugin
<1> QED BY <1>1, <1>3

LEMMA FreshUnregistered ==
    ASSUME NEW m \in Managers, NEW n \in Names
    PROVE  /\ Fresh(m, n) \in Objects /\ Fresh(m, n).manager = m /\ Fresh(m, n).name = n
           /\ ~Registered(Fresh(m, n))
BY DEF Fresh, Objects, Registered

LEMMA PathStep ==
    ASSUME ManagerInv, NEW m \in Managers, NEW d \in Directories, NEW n \in Names, LoadPath(m, d, n)
    PROVE  ManagerInv' /\ KeepsInstances
<1>1. PICK o : o = Fresh(m, n)
  OBVIOUS
<1>2. PICK p : p = NewPlugin(Catalog[m][d][n])
  OBVIOUS
<1>3. PICK call : call = Call(o, Catalog[m][d][n])
  OBVIOUS
<1>4. /\ Idle /\ m \in managers
      /\ n \in DOMAIN plugins[m] => ~IsLoaded(plugins[m][n])
      /\ objects' = Over([q \in {o} |-> p], objects)
      /\ stack' = <<call>>
      /\ UNCHANGED <<managers, plugins, aliases, externalManagers, destroying>>
  BY <1>1, <1>2, <1>3 DEF LoadPath
<1>5. Catalog[m][d][n] \in Metadata
  BY PluginManagerAssumption DEF LoadPath, Files
<1>6. o \in Objects /\ o.manager = m /\ o.name = n /\ ~Registered(o)
  BY <1>1, FreshUnregistered
<1>7. IsPlugin(p) /\ p.metadata = Catalog[m][d][n] /\ p.instances = 0
  BY <1>2, <1>5, NewIsPlugin
<1>8. /\ DOMAIN objects' = DOMAIN objects \cup {o}
      /\ \A q \in DOMAIN objects' : objects'[q] = IF q = o THEN p ELSE objects[q]
  BY <1>4 DEF Over
<1>9. Typed'
  BY <1>4, <1>6, <1>7, <1>8 DEF ManagerInv, Typed
<1>10. RegistrySound' /\ AliasesLead' /\ NothingBefore'
  BY <1>4, <1>6, <1>8, MapsKept
<1>11. InstancesHeld' /\ KeepsInstances
  <2>1. \A q \in DOMAIN objects : objects[q].instances > 0 => q # o /\ objects'[q] = objects[q]
    BY <1>6, <1>8 DEF ManagerInv, InstancesHeld
  <2>2. \A q \in DOMAIN objects' : objects'[q].instances > 0 =>
            q \in DOMAIN objects /\ q # o /\ objects'[q] = objects[q]
    BY <1>7, <1>8
  <2>3. InstancesHeld'
    BY <1>4, <2>2 DEF ManagerInv, InstancesHeld, Registered, IsLoaded
  <2>4. KeepsInstances
    BY <1>4, <1>8, <2>1 DEF ManagerInv, InstancesHeld, KeepsInstances, Registered, IsLoaded
  <2> QED BY <2>3, <2>4
<1>12. LoadsSound'
  <2>1. call \in Frame /\ call.object = o
    BY <1>3, <1>5, <1>6 DEF Call, Frame, Metadata
  <2>2. stack' \in Seq(Frame) /\ Len(stack') = 1 /\ stack'[1] = call
    BY <1>4, <2>1
  <2>3. n \in DOMAIN plugins[m] => objects'[plugins[m][n]].instances = 0
    <3>1. SUFFICES ASSUME n \in DOMAIN plugins[m]
                   PROVE  objects'[plugins[m][n]].instances = 0
      OBVIOUS
    <3>2. plugins[m][n] \in DOMAIN objects
      BY <3>1 DEF ManagerInv, RegistrySound
    <3>3. objects[plugins[m][n]].instances = 0
      BY <1>4, <3>1, <3>2 DEF ManagerInv, InstancesHeld, Typed, IsPlugin
    <3> QED BY <1>7, <1>8, <3>2, <3>3
  <2>4. \A i \in 1 .. Len(stack') : i = 1
    BY <2>2
  <2> QED BY <1>4, <1>6, <1>8, <2>1, <2>2, <2>3, <2>4 DEF LoadsSound
<1>13. DestructionSound'
  BY <1>4 DEF Idle, DestructionSound
<1> QED BY <1>9, <1>10, <1>11, <1>12, <1>13 DEF ManagerInv

\* The objects once o is loaded.
LEMMA LinkedObjects ==
    ASSUME Typed, NEW o, NEW found
    PROVE  /\ DOMAIN Linked(o, found) = DOMAIN objects
           /\ \A q \in DOMAIN objects :
                /\ IsPlugin(Linked(o, found)[q])
                /\ Linked(o, found)[q].metadata = objects[q].metadata
                /\ Linked(o, found)[q].instances = objects[q].instances
                /\ Linked(o, found)[q].loadState = IF q = o THEN "Loaded" ELSE objects[q].loadState
<1>1. DOMAIN Linked(o, found) = DOMAIN objects
  BY Zenon DEF Linked
<1>2. ASSUME NEW q \in DOMAIN objects
      PROVE  /\ IsPlugin(Linked(o, found)[q])
             /\ Linked(o, found)[q].metadata = objects[q].metadata
             /\ Linked(o, found)[q].instances = objects[q].instances
             /\ Linked(o, found)[q].loadState = IF q = o THEN "Loaded" ELSE objects[q].loadState
  <2>1. PICK p : p = objects[q]
    OBVIOUS
  <2>2. PICK r : r = Linked(o, found)[q]
    OBVIOUS
  <2>3. IsPlugin(p)
    BY <2>1, Zenon DEF Typed
  <2>4. CASE q = o
    <3>1. r = [p EXCEPT !.loadState = "Loaded", !.uses = found]
      BY <2>1, <2>2, <2>4, Zenon DEF Linked
    <3>2. /\ IsPlugin(r) /\ r.metadata = p.metadata
          /\ r.loadState = "Loaded" /\ r.instances = p.instances
      BY <2>3, <3>1, LoadedSet, ZenonT(30)
    <3> QED BY <2>1, <2>2, <2>4, <3>2, Zenon
  <2>5. CASE q # o /\ q \in found
    <3>1. PICK users : users = Append(p.usedBy, o.name)
      OBVIOUS
    <3>2. r = [p EXCEPT !.usedBy = users]
      BY <2>1, <2>2, <2>5, <3>1, Zenon DEF Linked
    <3>3. /\ IsPlugin(r) /\ r.metadata = p.metadata
          /\ r.loadState = p.loadState /\ r.instances = p.instances
      BY <2>3, <3>2, UsersSet, Zenon
    <3> QED BY <2>1, <2>2, <2>5, <3>3, Zenon
  <2>6. CASE q # o /\ q \notin found
    <3>1. r = p
      BY <2>1, <2>2, <2>6, Zenon DEF Linked
    <3> QED BY <2>1, <2>2, <2>3, <2>6, <3>1, Zenon
  <2> QED BY <2>4, <2>5, <2>6
<1> QED BY <1>1, <1>2

LEMMA FrontProperties ==
    ASSUME NEW S, NEW s \in Seq(S), s # <<>>
    PROVE  /\ Front(s) \in Seq(S)
           /\ Len(Front(s)) = Len(s) - 1
           /\ \A i \in 1 .. Len(s) - 1 : Front(s)[i] = s[i]
<1>1. Len(s) \in Nat \ {0}
  BY EmptySeq, LenProperties
<1>2. PICK n \in Nat : n = Len(s) - 1
  BY <1>1
<1>3. \A i \in 1 .. n : s[i] \in S
  BY <1>1, <1>2, ElementOfSeq
<1>4. /\ SubSeq(s, 1, n) \in Seq(S)
      /\ Len(SubSeq(s, 1, n)) = IF 1 <= n THEN n - 1 + 1 ELSE 0
      /\ \A i \in 1 .. n - 1 + 1 : SubSeq(s, 1, n)[i] = s[1 + i - 1]
  BY <1>3, SubSeqProperties
<1>5. Front(s) = SubSeq(s, 1, n)
  BY <1>2, Zenon DEF Front
<1>6. n - 1 + 1 = n /\ \A i \in 1 .. n : 1 + i - 1 = i
  OBVIOUS
<1> QED BY <1>2, <1>4, <1>5, <1>6

LEMMA OpenStep ==
    ASSUME ManagerInv, OpenModule
    PROVE  ManagerInv' /\ KeepsInstances
<1>1. PICK o : o = Top.object
  OBVIOUS
<1>2. /\ stack # <<>> /\ Registered(o)
      /\ objects' = Linked(o, Top.found)
      /\ stack' = Front(stack)
      /\ UNCHANGED <<managers, plugins, aliases, externalManagers, destroying>>
  BY <1>1 DEF OpenModule
<1>3. /\ DOMAIN objects' = DOMAIN objects
      /\ \A q \in DOMAIN objects :
            /\ IsPlugin(objects'[q])
            /\ objects'[q].metadata = objects[q].metadata
            /\ objects'[q].instances = objects[q].instances
            /\ objects'[q].loadState = IF q = o THEN "Loaded" ELSE objects[q].loadState
  BY <1>2, LinkedObjects DEF ManagerInv
<1>4. Typed' /\ RegistrySound' /\ AliasesLead' /\ NothingBefore'
  BY <1>2, <1>3, ContentsKept
<1>5. InstancesHeld' /\ KeepsInstances
  BY <1>2, <1>3 DEF ManagerInv, InstancesHeld, KeepsInstances, Registered, IsLoaded
<1>6. LoadsSound'
  <2>1. Len(stack) \in Nat \ {0} /\ stack \in Seq(Frame)
    BY <1>2, TopSound DEF ManagerInv, LoadsSound
  <2>2. \A i \in 1 .. Len(stack) - 1 : stack[i] \in Frame
    BY <2>1, ElementOfSeq
  <2>3. /\ stack' \in Seq(Frame)
        /\ Len(stack') = Len(stack) - 1
        /\ \A i \in 1 .. Len(stack') : stack'[i] = stack[i]
    BY <1>2, FrontProperties DEF ManagerInv, LoadsSound
  <2>4. ASSUME NEW i \in 1 .. Len(stack')
        PROVE  (stack[i].object \in DOMAIN objects /\ (i > 1 => Registered(stack[i].object)))'
    <3>1. i \in 1 .. Len(stack) /\ stack'[i] = stack[i]
      BY <2>1, <2>3
    <3>2. stack[i].object \in DOMAIN objects /\ (i > 1 => Registered(stack[i].object))
      BY <3>1 DEF ManagerInv, LoadsSound
    <3> QED BY <1>2, <1>3, <3>1, <3>2 DEF Registered
  <2>5. ASSUME stack' # <<>>
        PROVE  (LET q == stack[1].object IN
                 /\ q.manager \in managers
                 /\ ~Registered(q) /\ q.name \in DOMAIN plugins[q.manager] =>
                        objects[plugins[q.manager][q.name]].instances = 0)'
    <3>1. 1 \in 1 .. Len(stack') /\ stack'[1] = stack[1]
      BY <2>1, <2>3, <2>5, EmptySeq
    <3>2. stack[1].object \in Objects
      BY <1>2, <2>1 DEF ManagerInv, LoadsSound, Typed
    <3>3. stack[1].object.manager \in Managers
      BY <3>2 DEF Objects
    <3>4. PICK first : first = stack[1].object
      OBVIOUS
    <3>5. first = stack'[1].object /\ first.manager \in Managers /\ first.manager \in managers
      BY <1>2, <3>1, <3>3, <3>4 DEF ManagerInv, LoadsSound
    <3>6. ASSUME ~Registered(first), first.name \in DOMAIN plugins[first.manager]
          PROVE  /\ plugins[first.manager][first.name] \in DOMAIN objects
                 /\ objects[plugins[first.manager][first.name]].instances = 0
      BY <1>2, <3>4, <3>5, <3>6 DEF ManagerInv, LoadsSound, RegistrySound
    <3> QED BY <1>2, <1>3, <3>5, <3>6 DEF Registered
  <2> QED BY <2>3, <2>4, <2>5 DEF LoadsSound
<1>7. DestructionSound'
  BY <1>2 DEF ManagerInv, DestructionSound
<1> QED BY <1>4, <1>5, <1>6, <1>7 DEF ManagerInv

\* The plugin loaded from a path takes the place of the one of its name.
LEMMA ReplaceStep ==
    ASSUME ManagerInv, OpenModuleAtPath
    PROVE  ManagerInv' /\ KeepsInstances
<1>1. PICK o : o = Top.object
  OBVIOUS
<1>2. PICK m : m = o.manager
  OBVIOUS
<1>3. PICK own : own = [n \in {o.name} |-> o]
  OBVIOUS
<1>4. PICK file : file = [n \in {o.name} |-> objects[o].metadata]
  OBVIOUS
<1>5. PICK map : map = Register(Replaced(m, o.name), file, own)
  OBVIOUS
<1>6. /\ stack # <<>> /\ ~Registered(o)
      /\ objects' = Restrict(Linked(o, Top.found),
                {q \in DOMAIN objects : q = o \/ q.manager # m \/ q.name # o.name})
      /\ plugins' = [plugins EXCEPT ![m] = Over(own, plugins[m])]
      /\ aliases' = [aliases EXCEPT ![m] = map]
      /\ stack' = Front(stack)
      /\ UNCHANGED <<managers, externalManagers, destroying>>
  BY <1>1, <1>2, <1>3, <1>4, <1>5, Zenon DEF OpenModuleAtPath
<1>7. /\ o \in DOMAIN objects /\ o \in Objects /\ m \in Managers /\ o.name \in Names
      /\ m \in managers /\ Len(stack) = 1 /\ stack[1].object = o
      /\ o.name \in DOMAIN plugins[m] => objects[plugins[m][o.name]].instances = 0
  <2>1. o \in DOMAIN objects /\ o \in Objects /\ Len(stack) = 1 /\ stack[1].object = o
    BY <1>1, <1>6, TopSound DEF ManagerInv, Top
  <2> QED BY <1>2, <1>6, <2>1 DEF ManagerInv, LoadsSound, Objects
<1>8. \A q \in DOMAIN objects' :
        /\ q \in DOMAIN objects
        /\ q = o \/ q.manager # m \/ q.name # o.name
        /\ IsPlugin(objects'[q])
        /\ objects'[q].metadata = objects[q].metadata
        /\ objects'[q].instances = objects[q].instances
        /\ objects'[q].loadState = IF q = o THEN "Loaded" ELSE objects[q].loadState
  BY <1>6, LinkedObjects DEF ManagerInv, Restrict
<1>9. \A q \in DOMAIN objects : q = o \/ q.manager # m \/ q.name # o.name => q \in DOMAIN objects'
  BY <1>6 DEF Restrict
<1>10. /\ DOMAIN plugins' = Managers
       /\ \A k \in Managers : k # m => plugins'[k] = plugins[k]
       /\ DOMAIN plugins'[m] = DOMAIN plugins[m] \cup {o.name}
       /\ \A n \in DOMAIN plugins'[m] : plugins'[m][n] = IF n = o.name THEN o ELSE plugins[m][n]
  BY <1>3, <1>6, <1>7 DEF Over, ManagerInv, Typed
<1>11. /\ DOMAIN aliases' = Managers
       /\ \A k \in Managers : k # m => aliases'[k] = aliases[k]
       /\ aliases'[m] = map
  BY <1>6, <1>7 DEF ManagerInv, Typed
<1>12. Typed'
  BY <1>6, <1>8, <1>10, <1>11 DEF ManagerInv, Typed
<1>13. RegistrySound'
  BY <1>2, <1>7, <1>9, <1>10 DEF ManagerInv, RegistrySound
<1>14. NothingBefore'
  BY <1>6, <1>7, <1>10 DEF ManagerInv, NothingBefore
\* Whoever was registered, but under that name, still is.
<1>15. \A q \in DOMAIN objects : q.manager \in Managers /\ Registered(q) =>
            (q.manager = m /\ q.name = o.name) \/ Registered(q)'
  BY <1>10 DEF Registered
<1>16. Registered(o)' /\ o \in DOMAIN objects' /\ objects'[o].metadata = objects[o].metadata
  BY <1>2, <1>7, <1>8, <1>9, <1>10 DEF Registered
<1>17. AliasesLead'
  <2> SUFFICES ASSUME NEW k \in Managers, NEW x \in DOMAIN aliases'[k], NEW q, q = aliases'[k][x]
               PROVE  /\ q.manager = k
                      /\ Registered(q)'
                      /\ x = q.name \/ x \in objects'[q].metadata.provides
    BY DEF AliasesLead, Registered
  \* An alias that was left.
  <2>1. ASSUME x \in DOMAIN aliases[k], q = aliases[k][x], q.manager # m \/ q.name # o.name
        PROVE  /\ q.manager = k
               /\ Registered(q)'
               /\ x = q.name \/ x \in objects'[q].metadata.provides
    <3>1. /\ q.manager = k /\ Registered(q) /\ q \in DOMAIN objects
          /\ x = q.name \/ x \in objects[q].metadata.provides
      BY <2>1, RegisteredType DEF ManagerInv, AliasesLead
    <3> QED BY <1>8, <1>9, <1>15, <2>1, <3>1
  <2>2. CASE k # m
    BY <1>11, <2>1, <2>2 DEF ManagerInv, AliasesLead
  <2>3. CASE k = m
    <3>1. map = AddAliases(Over(own, Replaced(m, o.name)), file, own)
      BY <1>5, Zenon DEF Register
    <3>2. DOMAIN file \subseteq Nat /\ DOMAIN file = {o.name} /\ file[o.name] = objects[o].metadata
      BY <1>4, <1>7, PluginManagerAssumption
    <3>3. \/ x \in DOMAIN Over(own, Replaced(m, o.name)) /\ q = Over(own, Replaced(m, o.name))[x]
          \/ \E n \in DOMAIN file : x \in file[n].provides /\ q = own[n]
      BY <1>11, <2>3, <3>1, <3>2, AliasesAdded
    <3>4. CASE x = o.name /\ q = o
      BY <1>2, <1>16, <2>3, <3>4
    <3>5. CASE x \in objects[o].metadata.provides /\ q = o
      BY <1>2, <1>16, <2>3, <3>5
    <3>6. CASE x \in DOMAIN Replaced(m, o.name) /\ q = Replaced(m, o.name)[x]
      <4>1. /\ x \in DOMAIN aliases[m] /\ q = aliases[m][x]
            /\ o.name \in DOMAIN plugins[m] => q # plugins[m][o.name]
        BY <3>6 DEF Replaced, Restrict
      <4>2. q.manager = m /\ Registered(q)
        BY <1>7, <4>1 DEF ManagerInv, AliasesLead
      <4>3. q.name # o.name
        BY <4>1, <4>2 DEF Registered
      <4> QED BY <2>1, <2>3, <4>1, <4>3
    <3>7. x \in DOMAIN Over(own, Replaced(m, o.name)) /\ q = Over(own, Replaced(m, o.name))[x] =>
            \/ x = o.name /\ q = o
            \/ x \in DOMAIN Replaced(m, o.name) /\ q = Replaced(m, o.name)[x]
      BY <1>3 DEF Over
    <3>8. ASSUME NEW n \in DOMAIN file, x \in file[n].provides, q = own[n]
          PROVE  x \in objects[o].metadata.provides /\ q = o
      BY <1>3, <3>2, <3>8
    <3> QED BY <3>3, <3>4, <3>5, <3>6, <3>7, <3>8
  <2> QED BY <2>2, <2>3
\* The one that is replaced has no instance.
<1>18. \A q \in DOMAIN objects : objects[q].instances > 0 =>
            q \in DOMAIN objects' /\ Registered(q)'
  <2>1. ASSUME NEW q \in DOMAIN objects, objects[q].instances > 0
        PROVE  q \in DOMAIN objects' /\ Registered(q)'
    <3>1. Registered(q) /\ q \in Objects
      BY <2>1 DEF ManagerInv, InstancesHeld, Typed
    <3>2. q.manager \in Managers
      BY <3>1 DEF Objects
    <3>3. ~(q.manager = m /\ q.name = o.name)
      BY <1>7, <2>1, <3>1 DEF Registered
    <3> QED BY <1>9, <1>15, <3>1, <3>2, <3>3
  <2> QED BY <2>1
<1>19. InstancesHeld' /\ KeepsInstances
  BY <1>8, <1>18 DEF ManagerInv, InstancesHeld, KeepsInstances, IsLoaded
<1>20. LoadsSound'
  <2>1. stack' \in Seq(Frame) /\ Len(stack') = 0
    BY <1>6, <1>7, FrontProperties DEF ManagerInv, LoadsSound
  <2> QED BY <2>1, EmptySeq DEF LoadsSound
<1>21. DestructionSound'
  BY <1>6 DEF ManagerInv, DestructionSound
<1> QED BY <1>12, <1>13, <1>14, <1>17, <1>19, <1>20, <1>21 DEF ManagerInv

-----------------------------------------------------------------------------
\* unload(), the instances and the destructor.

LEMMA UnloadCall ==
    ASSUME ManagerInv, NEW m \in Managers, NEW x, Unload(m, x)
    PROVE  ManagerInv' /\ KeepsInstances
<1>1. PICK o : o = aliases[m][x]
  OBVIOUS
<1>2. /\ Idle /\ CanUnload(o) /\ objects' = Unloaded(o)
      /\ UNCHANGED <<managers, plugins, aliases, externalManagers, stack, destroying>>
  BY <1>1, Zenon DEF Unload
<1>3. DestructionSound'
  BY <1>2 DEF Idle, DestructionSound
<1> QED BY <1>2, <1>3, UnloadStep DEF ManagerInv, Idle

LEMMA InstantiateCall ==
    ASSUME ManagerInv, NEW m \in Managers, NEW x, Instantiate(m, x)
    PROVE  ManagerInv' /\ KeepsInstances
<1>1. PICK o : o = aliases[m][x]
  OBVIOUS
<1>2. PICK k : k = objects[o].instances + 1
  OBVIOUS
<1>3. /\ Idle /\ x \in DOMAIN aliases[m] /\ IsLoaded(o) /\ Instances(o, k)
      /\ UNCHANGED <<managers, plugins, aliases, externalManagers, stack, destroying>>
  BY <1>1, <1>2, Zenon DEF Instantiate
<1>4. o \in DOMAIN objects /\ Registered(o)
  BY <1>1, <1>3, RegisteredType DEF ManagerInv, AliasesLead
<1>5. k \in Nat
  BY <1>2, <1>4 DEF ManagerInv, Typed, IsPlugin
<1> QED BY <1>3, <1>4, <1>5, InstanceStep

LEMMA DeleteCall ==
    ASSUME ManagerInv, NEW o \in DOMAIN objects, DeleteInstance(o)
    PROVE  ManagerInv' /\ KeepsInstances
<1>1. PICK k : k = objects[o].instances - 1
  OBVIOUS
<1>2. /\ Idle /\ objects[o].instances > 0 /\ Instances(o, k) /\ Registered(o)
      /\ UNCHANGED <<managers, plugins, aliases, externalManagers, stack, destroying>>
  BY <1>1, Zenon DEF DeleteInstance
<1>3. k \in Nat
  BY <1>1, <1>2 DEF ManagerInv, Typed, IsPlugin
<1>4. IsLoaded(o)
  BY <1>2 DEF ManagerInv, InstancesHeld
<1> QED BY <1>2, <1>3, <1>4, InstanceStep

LEMMA BeginStep ==
    ASSUME ManagerInv, NEW m \in Managers, BeginDestruction(m)
    PROVE  ManagerInv' /\ KeepsInstances
<1>1. /\ UNCHANGED <<managers, plugins, aliases, externalManagers, objects, stack>>
      /\ Idle
      /\ destroying' = [manager |-> m, left |-> DOMAIN plugins[m], at |-> None]
      /\ \A o \in Range(plugins[m]) : objects[o].instances > 0 => objects[o].metadata.deletable
  BY DEF BeginDestruction
<1>2. DestructionSound'
  <2>1. /\ destroying'.manager = m
        /\ destroying' = [manager |-> destroying'.manager, left |-> destroying'.left,
                          at |-> destroying'.at]
    BY <1>1
  <2>2. ASSUME NEW o \in DOMAIN objects, o.manager = m, objects[o].instances > 0
        PROVE  objects[o].metadata.deletable
    <3>1. Registered(o)
      BY <2>2 DEF ManagerInv, InstancesHeld
    <3>2. o \in Range(plugins[m])
      BY <2>2, <3>1 DEF Registered, Range
    <3> QED BY <1>1, <2>2, <3>2
  <2> QED BY <1>1, <2>1, <2>2 DEF Idle, DestructionSound
<1>3. LoadsSound'
  BY <1>1 DEF ManagerInv, LoadsSound, Registered
<1> QED BY <1>1, <1>2, <1>3, ObjectsKept DEF ManagerInv

\* The loop of the destructor moves on.
LEMMA DestructionMoves ==
    ASSUME ManagerInv, destroying # None, NEW d, destroying' = d,
           d = [manager |-> destroying.manager, left |-> d.left, at |-> d.at],
           UNCHANGED <<managers, plugins, aliases, externalManagers, objects, stack>>
    PROVE  ManagerInv' /\ KeepsInstances
<1>1. d.manager = destroying.manager
  OBVIOUS
<1>2. DestructionSound'
  BY <1>1 DEF ManagerInv, DestructionSound
<1>3. LoadsSound'
  BY DEF ManagerInv, LoadsSound, Registered
<1> QED BY <1>2, <1>3, ObjectsKept DEF ManagerInv

LEMMA VisitStep ==
    ASSUME ManagerInv, VisitPlugin
    PROVE  ManagerInv' /\ KeepsInstances
<1>1. PICK left : left = destroying.left \ {NextName}
  OBVIOUS
<1>2. PICK at : at = plugins[destroying.manager][NextName]
  OBVIOUS
<1>3. PICK old : old = destroying
  OBVIOUS
<1>4. PICK d : d = [old EXCEPT !.left = left, !.at = at]
  OBVIOUS
<1>5. /\ UNCHANGED <<managers, plugins, aliases, externalManagers, objects, stack>>
      /\ destroying # None /\ destroying' = d
  BY <1>1, <1>2, <1>3, <1>4, Zenon DEF VisitPlugin
<1>6. old = [manager |-> old.manager, left |-> old.left, at |-> old.at]
  BY <1>3, <1>5, Zenon DEF ManagerInv, DestructionSound
<1>7. d = [manager |-> old.manager, left |-> left, at |-> at]
  BY <1>4, <1>6, Zenon
<1>8. d = [manager |-> destroying.manager, left |-> d.left, at |-> d.at]
  BY <1>3, <1>7, Zenon
<1> QED BY <1>5, <1>8, DestructionMoves

LEMMA DescendUserStep ==
    ASSUME ManagerInv, DescendToUser
    PROVE  ManagerInv' /\ KeepsInstances
<1>1. PICK at : at = plugins[destroying.manager][Head(objects[destroying.at].usedBy)]
  OBVIOUS
<1>2. PICK old : old = destroying
  OBVIOUS
<1>3. PICK d : d = [old EXCEPT !.at = at]
  OBVIOUS
<1>4. /\ UNCHANGED <<managers, plugins, aliases, externalManagers, objects, stack>>
      /\ destroying # None /\ destroying' = d
  BY <1>1, <1>2, <1>3, Zenon DEF DescendToUser
<1>5. old = [manager |-> old.manager, left |-> old.left, at |-> old.at]
  BY <1>2, <1>4, Zenon DEF ManagerInv, DestructionSound
<1>6. d = [manager |-> old.manager, left |-> old.left, at |-> at]
  BY <1>3, <1>5, Zenon
<1>7. d = [manager |-> destroying.manager, left |-> d.left, at |-> d.at]
  BY <1>2, <1>6, Zenon
<1> QED BY <1>4, <1>7, DestructionMoves

LEMMA UnloadVisitedStep ==
    ASSUME ManagerInv, UnloadVisited
    PROVE  ManagerInv' /\ KeepsInstances
<1>1. PICK old : old = destroying
  OBVIOUS
<1>2. PICK d : d = [old EXCEPT !.at = None]
  OBVIOUS
<1>3. /\ UNCHANGED <<managers, plugins, aliases, externalManagers, stack>>
      /\ destroying # None /\ destroying' = d
      /\ \/ CanUnload(destroying.at) /\ objects' = Unloaded(destroying.at)
         \/ UNCHANGED objects
  BY <1>1, <1>2, Zenon DEF UnloadVisited
<1>4. /\ old = [manager |-> old.manager, left |-> old.left, at |-> old.at]
      /\ stack = <<>> /\ old.manager \in Managers
  BY <1>1, <1>3, Zenon DEF ManagerInv, DestructionSound
<1>5. d = [manager |-> old.manager, left |-> old.left, at |-> None]
  BY <1>2, <1>4, Zenon
<1>6. d = [manager |-> destroying.manager, left |-> d.left, at |-> d.at]
  BY <1>1, <1>5, Zenon
<1>7. CASE UNCHANGED objects
  BY <1>3, <1>6, <1>7, DestructionMoves
<1>8. CASE CanUnload(destroying.at) /\ objects' = Unloaded(destroying.at)
  <2>1. /\ Typed' /\ RegistrySound' /\ AliasesLead' /\ NothingBefore'
        /\ LoadsSound' /\ InstancesHeld' /\ KeepsInstances
        /\ \A q \in DOMAIN objects' :
                /\ q \in DOMAIN objects
                /\ objects'[q].metadata = objects[q].metadata
                /\ objects'[q].instances > 0 => objects[q].instances > 0
    BY <1>3, <1>4, <1>8, UnloadStep
  <2>2. d.manager = destroying.manager
    BY <1>6
  <2>3. DestructionSound'
    BY <1>3, <1>6, <2>1, <2>2 DEF ManagerInv, DestructionSound
  <2> QED BY <2>1, <2>3 DEF ManagerInv
<1> QED BY <1>3, <1>7, <1>8

LEMMA EndStep ==
    ASSUME ManagerInv, EndDestruction
    PROVE  ManagerInv' /\ KeepsInstances
<1>1. PICK m : m = destroying.manager
  OBVIOUS
<1>2. PICK empty : empty = <<>> /\ DOMAIN empty = {}
  OBVIOUS
<1>3. /\ destroying # None /\ destroying' = None /\ UNCHANGED stack
      /\ managers' = managers \ {m}
      /\ plugins' = [plugins EXCEPT ![m] = empty]
      /\ aliases' = [aliases EXCEPT ![m] = empty]
      /\ externalManagers' = [externalManagers EXCEPT ![m] = {}]
      /\ DOMAIN objects' = {o \in DOMAIN objects : o.manager # m}
      /\ \A o \in DOMAIN objects' : objects'[o] = objects[o]
  BY <1>1, <1>2 DEF EndDestruction, Restrict
<1>4. /\ stack = <<>> /\ m \in Managers
      /\ \A o \in DOMAIN objects : o.manager = m /\ objects[o].instances > 0 =>
                objects[o].metadata.deletable
  BY <1>1, <1>3 DEF ManagerInv, DestructionSound
<1>5. /\ DOMAIN plugins' = Managers
      /\ \A k \in Managers : plugins'[k] = IF k = m THEN empty ELSE plugins[k]
      /\ DOMAIN aliases' = Managers
      /\ \A k \in Managers : aliases'[k] = IF k = m THEN empty ELSE aliases[k]
  BY <1>3, <1>4 DEF ManagerInv, Typed
<1>6. Typed'
  BY <1>3, <1>4, <1>5 DEF ManagerInv, Typed
<1>7. RegistrySound'
  BY <1>2, <1>3, <1>5 DEF ManagerInv, RegistrySound
<1>8. NothingBefore'
  BY <1>2, <1>3, <1>5 DEF ManagerInv, NothingBefore
<1>9. \A o \in DOMAIN objects : o.manager \in Managers \ {m} /\ Registered(o) =>
            o \in DOMAIN objects' /\ Registered(o)'
  BY <1>3, <1>5 DEF Registered
<1>10. AliasesLead'
  <2> SUFFICES ASSUME NEW k \in Managers, NEW x \in DOMAIN aliases'[k], NEW o, o = aliases'[k][x]
               PROVE  /\ o.manager = k
                      /\ Registered(o)'
                      /\ x = o.name \/ x \in objects'[o].metadata.provides
    BY DEF AliasesLead, Registered
  <2>1. k # m /\ x \in DOMAIN aliases[k] /\ o = aliases[k][x]
    BY <1>2, <1>5
  <2>2. /\ o \in DOMAIN objects /\ o.manager = k /\ Registered(o)
        /\ x = o.name \/ x \in objects[o].metadata.provides
    BY <2>1, RegisteredType DEF ManagerInv, AliasesLead
  <2> QED BY <1>3, <1>9, <2>1, <2>2
<1>11. InstancesHeld' /\ KeepsInstances
  <2>1. \A o \in DOMAIN objects : o.manager \in Managers
    BY DEF ManagerInv, Typed, Objects
  <2> QED BY <1>3, <1>4, <1>9, <2>1 DEF ManagerInv, InstancesHeld, KeepsInstances, IsLoaded
<1>12. LoadsSound' /\ DestructionSound'
  <2>1. stack' \in Seq(Frame) /\ stack' = <<>> /\ Len(stack') = 0
    BY <1>3, <1>4
  <2> QED BY <1>3, <2>1 DEF LoadsSound, DestructionSound
<1> QED BY <1>6, <1>7, <1>8, <1>10, <1>11, <1>12 DEF ManagerInv

-----------------------------------------------------------------------------
\* Scanning a directory.

\* What setPluginDirectory() keeps: plugins with their content, all that have
\* instances, and the aliases of those.
KeptSound(m, kept, keptAliases, content) ==
    /\ \A n \in DOMAIN kept :
            /\ kept[n] \in Objects /\ kept[n].manager = m /\ kept[n].name = n
            /\ IsPlugin(content[n])
            /\ content[n].instances > 0 => content[n].loadState \in {"Static", "Loaded"}
    /\ \A x \in DOMAIN keptAliases :
            LET o == keptAliases[x] IN
            /\ o.name \in DOMAIN kept /\ kept[o.name] = o
            /\ x = o.name \/ x \in content[o.name].metadata.provides
    /\ \A o \in DOMAIN objects : o.manager = m /\ objects[o].instances > 0 =>
            o.name \in DOMAIN kept /\ kept[o.name] = o /\ content[o.name] = objects[o]

LEMMA PopulateStep ==
    ASSUME ManagerInv, Idle, NEW m \in Managers, NEW d \in Directories,
           NEW kept, NEW keptAliases, NEW content,
           Populate(m, d, kept, keptAliases, content), KeptSound(m, kept, keptAliases, content),
           managers' = managers \cup {m},
           UNCHANGED <<externalManagers, stack, destroying>>
    PROVE  ManagerInv' /\ KeepsInstances
<1> DEFINE new == DOMAIN Catalog[m][d] \ DOMAIN kept
           own == [n \in new |-> Fresh(m, n)]
           file == [n \in new |-> Catalog[m][d][n]]
           known == Over(file, [n \in DOMAIN kept |-> content[n].metadata])
           registry == Over(own, kept)
           registered == Register(keptAliases, file, own)
           map == AddAliases(registered, known, registry)
<1>8. /\ plugins' = [plugins EXCEPT ![m] = registry]
      /\ objects' = Over([o \in Range(own) |-> NewPlugin(file[o.name])],
                     Over([o \in Range(kept) |-> content[o.name]],
                          Restrict(objects, {o \in DOMAIN objects : o.manager # m})))
      /\ aliases' = [aliases EXCEPT ![m] = map]
  BY Zenon DEF Populate
<1>1. new = DOMAIN Catalog[m][d] \ DOMAIN kept
  OBVIOUS
<1> HIDE DEF new
<1>2. own = [n \in new |-> Fresh(m, n)]
  OBVIOUS
<1>3. file = [n \in new |-> Catalog[m][d][n]]
  OBVIOUS
<1> HIDE DEF own, file
<1>4. known = Over(file, [n \in DOMAIN kept |-> content[n].metadata])
  OBVIOUS
<1>5. registry = Over(own, kept)
  OBVIOUS
<1>6. registered = Register(keptAliases, file, own)
  OBVIOUS
<1> HIDE DEF known, registry, registered
<1>7. map = AddAliases(registered, known, registry)
  OBVIOUS
<1> HIDE DEF map
\* The names, and the plugins of other managers.
<1>9. /\ DOMAIN own = new /\ DOMAIN file = new
      /\ \A n \in new : n \in Names /\ n \notin DOMAIN kept /\ file[n] \in Metadata
  BY <1>1, <1>2, <1>3, PluginManagerAssumption DEF Files
<1>10. \A n \in new : own[n] \in Objects /\ own[n].manager = m /\ own[n].name = n
  BY <1>2, <1>9, FreshUnregistered
<1>11. \A n \in DOMAIN kept : /\ kept[n] \in Objects /\ kept[n].manager = m /\ kept[n].name = n
                              /\ n \in Names
  BY DEF KeptSound, Objects
<1>12. /\ DOMAIN registry = new \cup DOMAIN kept
       /\ \A n \in new : registry[n] = own[n]
       /\ \A n \in DOMAIN kept : registry[n] = kept[n]
  BY <1>5, <1>9 DEF Over
<1>13. /\ DOMAIN known = new \cup DOMAIN kept
       /\ \A n \in new : known[n] = file[n]
       /\ \A n \in DOMAIN kept : known[n] = content[n].metadata
  BY <1>4, <1>9 DEF Over
<1>14. /\ DOMAIN plugins' = Managers
       /\ \A k \in Managers : plugins'[k] = IF k = m THEN registry ELSE plugins[k]
       /\ DOMAIN aliases' = Managers
       /\ \A k \in Managers : aliases'[k] = IF k = m THEN map ELSE aliases[k]
  BY <1>8 DEF ManagerInv, Typed
\* The objects.
<1>15. DOMAIN objects' = Range(own) \cup Range(kept) \cup {o \in DOMAIN objects : o.manager # m}
  BY <1>8 DEF Over, Restrict
<1>16. \A n \in new : own[n] \in DOMAIN objects' /\ objects'[own[n]] = NewPlugin(file[n])
  <2>1. ASSUME NEW n \in new
        PROVE  own[n] \in DOMAIN objects' /\ objects'[own[n]] = NewPlugin(file[n])
    <3>1. own[n] \in Range(own)
      BY <1>9 DEF Range
    <3>2. objects'[own[n]] = NewPlugin(file[own[n].name])
      BY <1>8, <3>1 DEF Over
    <3> QED BY <1>10, <1>15, <3>1, <3>2
  <2> QED BY <2>1
<1>17. \A n \in DOMAIN kept : kept[n] \in DOMAIN objects' /\ objects'[kept[n]] = content[n]
  <2>1. ASSUME NEW n \in DOMAIN kept
        PROVE  kept[n] \in DOMAIN objects' /\ objects'[kept[n]] = content[n]
    <3>1. kept[n] \in Range(kept) /\ kept[n] \notin Range(own)
      BY <1>9, <1>10, <1>11 DEF Range
    <3>2. objects'[kept[n]] = content[kept[n].name]
      BY <1>8, <3>1 DEF Over
    <3> QED BY <1>11, <1>15, <3>1, <3>2
  <2> QED BY <2>1
<1>18. \A o \in DOMAIN objects : o.manager # m => o \in DOMAIN objects' /\ objects'[o] = objects[o]
  <2>1. ASSUME NEW o \in DOMAIN objects, o.manager # m
        PROVE  o \in DOMAIN objects' /\ objects'[o] = objects[o]
    <3>1. o \notin Range(own) /\ o \notin Range(kept)
      BY <1>9, <1>10, <1>11, <2>1 DEF Range
    <3> QED BY <1>8, <1>15, <2>1, <3>1 DEF Over, Restrict
  <2> QED BY <2>1
<1>19. ASSUME NEW o \in DOMAIN objects'
       PROVE  \/ \E n \in new : o = own[n]
              \/ \E n \in DOMAIN kept : o = kept[n]
              \/ o \in DOMAIN objects /\ o.manager # m
  BY <1>9, <1>15 DEF Range
\* What is in the objects.
<1>20. \A n \in new : /\ IsPlugin(objects'[own[n]]) /\ objects'[own[n]].metadata = file[n]
                      /\ objects'[own[n]].instances = 0
  BY <1>9, <1>16, NewIsPlugin
<1>21. \A n \in DOMAIN kept :
          /\ IsPlugin(objects'[kept[n]])
          /\ objects'[kept[n]].metadata = content[n].metadata
          /\ objects'[kept[n]].instances > 0 => objects'[kept[n]].loadState \in {"Static", "Loaded"}
  BY <1>17 DEF KeptSound
<1>22. Typed'
  <2>1. \A o \in DOMAIN objects' : o \in Objects /\ IsPlugin(objects'[o])
    BY <1>10, <1>11, <1>18, <1>19, <1>20, <1>21 DEF ManagerInv, Typed
  <2> QED BY <1>14, <2>1 DEF ManagerInv, Typed
<1>23. RegistrySound'
  <2>1. ASSUME NEW k \in Managers, NEW n \in DOMAIN plugins'[k]
        PROVE  /\ plugins'[k][n] \in DOMAIN objects'
               /\ plugins'[k][n].manager = k /\ plugins'[k][n].name = n
    <3>1. CASE k = m
      BY <1>10, <1>11, <1>12, <1>14, <1>16, <1>17, <2>1, <3>1
    <3>2. CASE k # m
      BY <1>14, <1>18, <2>1, <3>2 DEF ManagerInv, RegistrySound
    <3> QED BY <3>1, <3>2
  <2> QED BY <2>1 DEF RegistrySound
<1>24. NothingBefore'
  BY <1>14 DEF ManagerInv, NothingBefore
<1>25. /\ \A n \in new : n \in DOMAIN plugins'[m] /\ plugins'[m][n] = own[n]
       /\ \A n \in DOMAIN kept : n \in DOMAIN plugins'[m] /\ plugins'[m][n] = kept[n]
       /\ \A o \in DOMAIN objects : o.manager # m /\ Registered(o) => Registered(o)'
  <2>1. \A o \in DOMAIN objects : o.manager \in Managers
    BY DEF ManagerInv, Typed, Objects
  <2> QED BY <1>10, <1>11, <1>12, <1>14, <2>1 DEF Registered
<1>26. AliasesLead'
  <2> SUFFICES ASSUME NEW k \in Managers, NEW x \in DOMAIN aliases'[k], NEW q, q = aliases'[k][x]
               PROVE  /\ q.manager = k
                      /\ Registered(q)'
                      /\ x = q.name \/ x \in objects'[q].metadata.provides
    BY DEF AliasesLead, Registered
  <2>1. CASE k # m
    <3>1. x \in DOMAIN aliases[k] /\ q = aliases[k][x]
      BY <1>14, <2>1
    <3>2. /\ q \in DOMAIN objects /\ q.manager = k /\ Registered(q)
          /\ x = q.name \/ x \in objects[q].metadata.provides
      BY <3>1, RegisteredType DEF ManagerInv, AliasesLead
    <3> QED BY <1>18, <1>25, <2>1, <3>2
  <2>2. CASE k = m
    \* The alias of a plugin file,
    <3>1. ASSUME NEW n \in new, q = own[n], x = n \/ x \in file[n].provides
          PROVE  /\ q.manager = k
                 /\ Registered(q)'
                 /\ x = q.name \/ x \in objects'[q].metadata.provides
      BY <1>10, <1>20, <1>25, <2>2, <3>1 DEF Registered
    \* and of a plugin that was kept.
    <3>2. ASSUME NEW n \in DOMAIN kept, q = kept[n], x = n \/ x \in content[n].metadata.provides
          PROVE  /\ q.manager = k
                 /\ Registered(q)'
                 /\ x = q.name \/ x \in objects'[q].metadata.provides
      BY <1>11, <1>21, <1>25, <2>2, <3>2 DEF Registered
    <3>3. DOMAIN known \subseteq Nat /\ DOMAIN file \subseteq Nat
      BY <1>9, <1>11, <1>13, PluginManagerAssumption
    <3>4. x \in DOMAIN map /\ q = map[x]
      BY <1>14, <2>2
    <3>5. \/ x \in DOMAIN registered /\ q = registered[x]
          \/ \E n \in DOMAIN known : x \in known[n].provides /\ q = registry[n]
      BY <1>7, <3>3, <3>4, AliasesAdded
    <3>6. CASE \E n \in DOMAIN known : x \in known[n].provides /\ q = registry[n]
      BY <1>12, <1>13, <3>1, <3>2, <3>6
    <3>7. CASE x \in DOMAIN registered /\ q = registered[x]
      <4>1. registered = AddAliases(Over(own, keptAliases), file, own)
        BY <1>6, Zenon DEF Register
      <4>2. \/ x \in DOMAIN Over(own, keptAliases) /\ q = Over(own, keptAliases)[x]
            \/ \E n \in DOMAIN file : x \in file[n].provides /\ q = own[n]
        BY <3>3, <3>7, <4>1, AliasesAdded
      <4>3. CASE \E n \in DOMAIN file : x \in file[n].provides /\ q = own[n]
        BY <1>9, <3>1, <4>3
      <4>4. CASE x \in DOMAIN Over(own, keptAliases) /\ q = Over(own, keptAliases)[x]
        <5>1. CASE x \in new
          <6>1. q = own[x]
            BY <1>9, <4>4, <5>1 DEF Over
          <6> QED BY <3>1, <5>1, <6>1
        <5>2. CASE x \notin new
          <6>1. x \in DOMAIN keptAliases /\ q = keptAliases[x]
            BY <1>9, <4>4, <5>2 DEF Over
          <6>2. /\ q.name \in DOMAIN kept /\ q = kept[q.name]
                /\ x = q.name \/ x \in content[q.name].metadata.provides
            BY <6>1 DEF KeptSound
          <6> QED BY <3>2, <6>2
        <5> QED BY <5>1, <5>2
      <4> QED BY <4>2, <4>3, <4>4
    <3> QED BY <3>5, <3>6, <3>7
  <2> QED BY <2>1, <2>2
<1>27. InstancesHeld'
  <2> SUFFICES ASSUME NEW o \in DOMAIN objects', objects'[o].instances > 0
               PROVE  Registered(o)' /\ objects'[o].loadState \in {"Static", "Loaded"}
    BY DEF InstancesHeld, Registered, IsLoaded
  <2>1. CASE \E n \in new : o = own[n]
    BY <1>20, <2>1
  <2>2. CASE \E n \in DOMAIN kept : o = kept[n]
    BY <1>11, <1>21, <1>25, <2>2 DEF Registered
  <2>3. CASE o \in DOMAIN objects /\ o.manager # m
    BY <1>18, <1>25, <2>3 DEF ManagerInv, InstancesHeld, IsLoaded
  <2> QED BY <1>19, <2>1, <2>2, <2>3
<1>28. KeepsInstances
  <2>1. ASSUME NEW o \in DOMAIN objects, objects[o].instances > 0
        PROVE  o \in DOMAIN objects' /\ Registered(o)' /\ objects'[o] = objects[o]
    <3>1. CASE o.manager = m
      BY <1>11, <1>17, <1>25, <2>1, <3>1 DEF KeptSound, Registered
    <3>2. CASE o.manager # m
      BY <1>18, <1>25, <2>1, <3>2 DEF ManagerInv, InstancesHeld
    <3> QED BY <3>1, <3>2
  <2> QED BY <2>1 DEF ManagerInv, InstancesHeld, KeepsInstances, IsLoaded
<1>29. LoadsSound' /\ DestructionSound'
  <2>1. stack' = <<>> /\ destroying' = None /\ stack' \in Seq(Frame) /\ Len(stack') = 0
    BY DEF Idle, ManagerInv, LoadsSound
  <2> QED BY <2>1 DEF LoadsSound, DestructionSound
<1> QED BY <1>22, <1>23, <1>24, <1>26, <1>27, <1>28, <1>29 DEF ManagerInv

LEMMA DirectoryStep ==
    ASSUME ManagerInv, NEW m \in Managers, NEW d \in Directories, SetPluginDirectory(m, d)
    PROVE  ManagerInv' /\ KeepsInstances
<1>1. PICK kept : kept = KeptPlugins(m)
  OBVIOUS
<1>2. PICK keptAliases : keptAliases = KeptAliases(m)
  OBVIOUS
<1>3. PICK content : content = [n \in DOMAIN KeptPlugins(m) |-> objects[plugins[m][n]]]
  OBVIOUS
<1>4. /\ Idle /\ Populate(m, d, kept, keptAliases, content)
      /\ managers' = managers \cup {m}
      /\ UNCHANGED <<externalManagers, stack, destroying>>
  <2>1. /\ Idle /\ m \in managers /\ UNCHANGED <<managers, externalManagers, stack, destroying>>
        /\ Populate(m, d, KeptPlugins(m), KeptAliases(m),
                    [n \in DOMAIN KeptPlugins(m) |-> objects[plugins[m][n]]])
    BY Zenon DEF SetPluginDirectory
  <2>2. Populate(m, d, kept, keptAliases, content)
    BY <1>1, <1>2, <1>3, <2>1, Zenon
  <2>3. managers' = managers \cup {m}
    BY <2>1
  <2> QED BY <2>1, <2>2, <2>3
<1>5. /\ DOMAIN kept = {n \in DOMAIN plugins[m] : ~Removable(plugins[m][n])}
      /\ \A n \in DOMAIN kept : kept[n] = plugins[m][n] /\ content[n] = objects[plugins[m][n]]
      /\ DOMAIN keptAliases = {x \in DOMAIN aliases[m] : ~Removable(aliases[m][x])}
      /\ \A x \in DOMAIN keptAliases : keptAliases[x] = aliases[m][x]
  BY <1>1, <1>2, <1>3 DEF KeptPlugins, KeptAliases, Restrict
<1>6. KeptSound(m, kept, keptAliases, content)
  <2>1. ASSUME NEW n \in DOMAIN kept
        PROVE  /\ kept[n] \in Objects /\ kept[n].manager = m /\ kept[n].name = n
               /\ IsPlugin(content[n])
               /\ content[n].instances > 0 => content[n].loadState \in {"Static", "Loaded"}
    BY <1>5 DEF ManagerInv, Typed, RegistrySound, InstancesHeld, IsLoaded
  <2>2. ASSUME NEW x \in DOMAIN keptAliases, NEW o, o = keptAliases[x]
        PROVE  /\ o.name \in DOMAIN kept /\ kept[o.name] = o
               /\ x = o.name \/ x \in content[o.name].metadata.provides
    <3>1. x \in DOMAIN aliases[m] /\ o = aliases[m][x] /\ ~Removable(o)
      BY <1>5, <2>2
    <3>2. /\ o.name \in DOMAIN plugins[m] /\ plugins[m][o.name] = o
          /\ x = o.name \/ x \in objects[o].metadata.provides
      BY <3>1 DEF ManagerInv, AliasesLead, Registered
    <3> QED BY <1>5, <3>1, <3>2
  <2>3. ASSUME NEW o \in DOMAIN objects, o.manager = m, objects[o].instances > 0
        PROVE  o.name \in DOMAIN kept /\ kept[o.name] = o /\ content[o.name] = objects[o]
    <3>1. Registered(o) /\ ~Removable(o)
      BY <2>3 DEF ManagerInv, InstancesHeld, IsLoaded, Removable
    <3> QED BY <1>5, <2>3, <3>1 DEF Registered
  <2> QED BY <2>1, <2>2, <2>3 DEF KeptSound
<1> QED BY <1>4, <1>6, PopulateStep

LEMMA ConstructStep ==
    ASSUME ManagerInv, NEW m \in Managers, NEW d \in Directories, ConstructManager(m, d)
    PROVE  ManagerInv' /\ KeepsInstances
<1> DEFINE names == DOMAIN StaticPlugins[m]
           static == [n \in names |-> Fresh(m, n)]
<1>1. PICK kept : kept = static
  OBVIOUS
<1>2. PICK keptAliases : keptAliases = Register(<<>>, StaticPlugins[m], static)
  OBVIOUS
<1>3. PICK content : content = [n \in DOMAIN static |-> NewStaticPlugin(StaticPlugins[m][n])]
  OBVIOUS
<1>4. /\ Idle /\ m \notin managers /\ managers' = managers \cup {m}
      /\ UNCHANGED <<externalManagers, stack, destroying>>
      /\ Populate(m, d, static, Register(<<>>, StaticPlugins[m], static),
                  [n \in DOMAIN static |-> NewStaticPlugin(StaticPlugins[m][n])])
  BY Zenon DEF ConstructManager
<1>5. /\ DOMAIN kept = names /\ names \subseteq Names /\ names \subseteq Nat
      /\ \A n \in names : kept[n] = Fresh(m, n)
      /\ \A n \in names : StaticPlugins[m][n] \in Metadata
      /\ \A n \in names : content[n] = NewStaticPlugin(StaticPlugins[m][n])
  BY <1>1, <1>3, PluginManagerAssumption DEF Files
<1> HIDE DEF static
<1>6. Populate(m, d, kept, keptAliases, content)
  BY <1>1, <1>2, <1>3, <1>4, Zenon
<1>7. KeptSound(m, kept, keptAliases, content)
  <2>1. ASSUME NEW n \in DOMAIN kept
        PROVE  /\ kept[n] \in Objects /\ kept[n].manager = m /\ kept[n].name = n
               /\ IsPlugin(content[n]) /\ content[n].instances = 0
               /\ content[n].metadata = StaticPlugins[m][n]
    BY <1>5, FreshUnregistered, NewIsPlugin
  <2>2. ASSUME NEW x \in DOMAIN keptAliases, NEW o, o = keptAliases[x]
        PROVE  /\ o.name \in DOMAIN kept /\ kept[o.name] = o
               /\ x = o.name \/ x \in content[o.name].metadata.provides
    <3>1. keptAliases = AddAliases(Over(kept, <<>>), StaticPlugins[m], kept)
      BY <1>1, <1>2, Zenon DEF Register
    <3>2. \/ x \in DOMAIN Over(kept, <<>>) /\ o = Over(kept, <<>>)[x]
          \/ \E n \in names : x \in StaticPlugins[m][n].provides /\ o = kept[n]
      BY <1>5, <2>2, <3>1, AliasesAdded
    <3>3. CASE \E n \in names : x \in StaticPlugins[m][n].provides /\ o = kept[n]
      BY <1>5, <2>1, <3>3
    <3>4. CASE x \in DOMAIN Over(kept, <<>>) /\ o = Over(kept, <<>>)[x]
      <4>1. PICK empty : empty = <<>> /\ DOMAIN empty = {}
        OBVIOUS
      <4>2. x \in DOMAIN Over(kept, empty) /\ o = Over(kept, empty)[x]
        BY <3>4, <4>1, Zenon
      <4>3. x \in DOMAIN kept /\ o = kept[x]
        BY <4>1, <4>2 DEF Over
      <4> QED BY <2>1, <4>3
    <3> QED BY <3>2, <3>3, <3>4
  <2>3. ASSUME NEW o \in DOMAIN objects, o.manager = m, objects[o].instances > 0
        PROVE  FALSE
    <3>1. Registered(o)
      BY <2>3 DEF ManagerInv, InstancesHeld
    <3> QED BY <1>4, <2>3, <3>1 DEF ManagerInv, NothingBefore, Registered
  <2>4. \A n \in DOMAIN kept : ~(content[n].instances > 0)
    BY <2>1
  <2> QED BY <2>1, <2>2, <2>3, <2>4 DEF KeptSound
<1> QED BY <1>4, <1>6, <1>7, PopulateStep

-----------------------------------------------------------------------------

LEMMA InitSound == Init => ManagerInv
<1>1. SUFFICES ASSUME Init PROVE ManagerInv
  OBVIOUS
<1>2. PICK empty : empty = <<>> /\ DOMAIN empty = {}
  OBVIOUS
<1>3. /\ managers = {} /\ destroying = None /\ stack = <<>>
      /\ plugins = [m \in Managers |-> empty] /\ aliases = [m \in Managers |-> empty]
      /\ externalManagers = [m \in Managers |-> {}]
      /\ objects = empty
  BY <1>1, <1>2 DEF Init
<1>4. stack \in Seq(Frame) /\ Len(stack) = 0
  BY <1>3
<1> QED BY <1>2, <1>3, <1>4 DEF ManagerInv, Typed, RegistrySound, AliasesLead, NothingBefore,
            LoadsSound, InstancesHeld, DestructionSound

LEMMA StutterSound ==
    ASSUME ManagerInv, UNCHANGED vars
    PROVE  ManagerInv' /\ KeepsInstances
<1>1. LoadsSound' /\ DestructionSound'
  BY DEF vars, ManagerInv, LoadsSound, DestructionSound, Registered
<1> QED BY <1>1, ObjectsKept DEF vars, ManagerInv

LEMMA NextSound ==
    ASSUME ManagerInv, [Next]_vars
    PROVE  ManagerInv' /\ KeepsInstances
<1>1. CASE UNCHANGED vars
  BY <1>1, StutterSound
<1>2. CASE \E m \in Managers, d \in Directories : ConstructManager(m, d)
  BY <1>2, ConstructStep
<1>3. CASE \E m \in Managers, d \in Directories : SetPluginDirectory(m, d)
  BY <1>3, DirectoryStep
<1>4. CASE \E m \in Managers, x \in Names, n \in Names : SetPreferredPlugins(m, x, n)
  BY <1>4, PreferredStep
<1>5. CASE \E m \in Managers, k \in Managers : RegisterExternalManager(m, k)
  BY <1>5, ExternalStep
<1>6. CASE \E m \in Managers, x \in Names : Load(m, x)
  BY <1>6, LoadStep
<1>7. CASE \E m \in Managers, d \in Directories, n \in Names : LoadPath(m, d, n)
  BY <1>7, PathStep
<1>8. CASE RecordDependency
  BY <1>8, RecordStep
<1>9. CASE LoadDependency
  BY <1>9, DescendStep
<1>10. CASE FailLoad
  BY <1>10, FailStep
<1>11. CASE OpenModule
  BY <1>11, OpenStep
<1>12. CASE OpenModuleAtPath
  BY <1>12, ReplaceStep
<1>13. CASE \E m \in Managers, x \in Names : Unload(m, x)
  BY <1>13, UnloadCall
<1>14. CASE \E m \in Managers, x \in Names : Instantiate(m, x)
  BY <1>14, InstantiateCall
<1>15. CASE \E o \in DOMAIN objects : DeleteInstance(o)
  BY <1>15, DeleteCall
<1>16. CASE \E m \in Managers : BeginDestruction(m)
  BY <1>16, BeginStep
<1>17. CASE VisitPlugin
  BY <1>17, VisitStep
<1>18. CASE DescendToUser
  BY <1>18, DescendUserStep
<1>19. CASE UnloadVisited
  BY <1>19, UnloadVisitedStep
<1>20. CASE EndDestruction
  BY <1>20, EndStep
<1> QED BY <1>1, <1>2, <1>3, <1>4, <1>5, <1>6, <1>7, <1>8, <1>9, <1>10, <1>11, <1>12, <1>13,
           <1>14, <1>15, <1>16, <1>17, <1>18, <1>19, <1>20 DEF Next

LEMMA ManagerInvHolds == Spec => []ManagerInv
<1>1. ManagerInv /\ [Next]_vars => ManagerInv'
  BY NextSound
<1> QED BY <1>1, InitSound, PTL DEF Spec

\* An alias leads to a registered plugin that has this name or provides it,
\* after any sequence of loads, replacements, unloads and changes of directory.
THEOREM AliasesAlwaysSound == Spec => []AliasesSound
<1>1. ManagerInv => AliasesSound
  BY RegisteredType DEF ManagerInv, Typed, AliasesLead, AliasesSound
<1> QED BY <1>1, ManagerInvHolds, PTL

\* No load, replacement, unload, change of directory or destruction of a manager
\* takes away a plugin with an instance that the manager must not delete.
THEOREM InstancesAlwaysKept == Spec => InstancesKept
<1>1. ManagerInv /\ [Next]_vars => [KeepsInstances]_vars
  BY NextSound
<1>2. Spec => [][KeepsInstances]_vars
  BY <1>1, ManagerInvHolds, PTL DEF Spec
<1> QED BY <1>2 DEF KeepsInstances, InstancesKept

-----------------------------------------------------------------------------
\* Some ranks.
Rank == CHOOSE rank \in [Names -> Nat] : Ranks(rank)

-----------------------------------------------------------------------------
\* The invariant of what plugins use.

\* Where a manager looks for the plugins that its own depend on.
Reaches(m, k) == k = m \/ k \in externalManagers[m]

\* o can be relied on by plugins of m.
Serves(o, m) ==
    /\ o \in DOMAIN objects
    /\ Registered(o)
    /\ IsLoaded(o)
    /\ Reaches(m, o.manager)

\* A plugin is static by its name, or it is what a file says.
FromFile(o) ==
    IF o.name \in DOMAIN StaticPlugins[o.manager] THEN objects[o].loadState = "Static"
    ELSE /\ objects[o].loadState \in {"Loaded", "NotLoaded", "WrongMetadataFile"}
         /\ \E d \in Directories : /\ o.name \in DOMAIN Catalog[o.manager][d]
                                   /\ objects[o].metadata = Catalog[o.manager][d][o.name]

FilesSound ==
    /\ \A o \in DOMAIN objects : FromFile(o)
    /\ \A m \in managers : DOMAIN StaticPlugins[m] \subseteq DOMAIN plugins[m]

NamesIn(plugs) == {q.name : q \in plugs}

\* Loaded plugins are registered and use what their metadata name, which serves
\* them and knows them as its users.  Others use none.
UsesSound ==
    \A o \in DOMAIN objects :
        /\ objects[o].usedBy \in Seq(Names)
        /\ IsLoaded(o) => Registered(o)
        /\ IF objects[o].loadState = "Loaded"
           THEN NamesIn(objects[o].uses) = ToSet(objects[o].metadata.depends)
           ELSE objects[o].uses = {}
        /\ \A q \in objects[o].uses :
                Serves(q, o.manager) /\ o.name \in ToSet(objects[q].usedBy)

\* A load() has found what its plugin depends on, but for what is left.
FrameSound(f) ==
    /\ objects[f.object].loadState = "NotLoaded"
    /\ NamesIn(f.found) \cup ToSet(f.left) = ToSet(objects[f.object].metadata.depends)
    /\ \A q \in f.found : Serves(q, f.object.manager)

\* The namesake of a plugin that is loaded by path is not loaded meanwhile,
\* because what is being loaded ranks below.
FramesSound ==
    /\ \A i \in 1 .. Len(stack) : FrameSound(stack[i])
    /\ \A i, j \in 1 .. Len(stack) :
            i < j => Rank[stack[j].object.name] < Rank[stack[i].object.name]
    /\ stack # <<>> =>
            LET o == stack[1].object IN
            ~Registered(o) /\ o.name \in DOMAIN plugins[o.manager] =>
                ~IsLoaded(plugins[o.manager][o.name])

\* Nobody needs a manager that is being destroyed, and the loop of its
\* destructor is at a plugin and among its plugins.
LoopSound ==
    destroying # None =>
        /\ ~Needed(destroying.manager)
        /\ destroying.left \subseteq DOMAIN plugins[destroying.manager]
        /\ destroying.at # None => destroying.at \in DOMAIN objects

UsesInv == ManagerInv /\ FilesSound /\ UsesSound /\ FramesSound /\ LoopSound

\* usedBy has no plugin twice, and none that does not use this one.
UsersExact ==
    \A q \in DOMAIN objects :
        /\ IsInjective(objects[q].usedBy)
        /\ \A n \in ToSet(objects[q].usedBy) :
                \E o \in DOMAIN objects : o.name = n /\ q \in objects[o].uses

\* What the destructor has visited is unloaded, or about to be.
VisitedUnloaded ==
    destroying # None =>
        \A o \in DOMAIN objects : o.manager = destroying.manager /\ objects[o].loadState = "Loaded" =>
            \/ o.name \in destroying.left
            \/ destroying.at # None /\ o = destroying.at /\ objects[o].usedBy = <<>>

UsersInv == UsesInv /\ UsersExact /\ VisitedUnloaded

-----------------------------------------------------------------------------
\* Names and what they lead to.

\* The ranks there are.
LEMMA RankFacts ==
    ASSUME NoCycles
    PROVE  Rank \in [Names -> Nat] /\ Ranks(Rank)
  BY DEF NoCycles, Rank

\* What is known of every object.
LEMMA ObjectFacts ==
    ASSUME ManagerInv, FilesSound, NEW o \in DOMAIN objects
    PROVE  /\ o.manager \in Managers /\ o.name \in Names /\ o \in Objects
           /\ o.name \in NamesOf(o.manager)
           /\ objects[o].metadata \in Metadata
           /\ objects[o].metadata.depends \in Seq(Names)
<1>1. o \in Objects /\ objects[o].metadata \in Metadata
  BY DEF ManagerInv, Typed, IsPlugin
<1>2. FromFile(o)
  BY DEF FilesSound
<1> QED BY <1>1, <1>2 DEF Objects, Metadata, FromFile, NamesOf

\* Two registered objects have different names, whatever their managers.
LEMMA OneOfName ==
    ASSUME NamesDistinct, ManagerInv, FilesSound,
           NEW o \in DOMAIN objects, NEW p \in DOMAIN objects,
           Registered(o), Registered(p), o.name = p.name
    PROVE  o = p
<1>1. o.manager = p.manager
  BY ObjectFacts DEF NamesDistinct
<1> QED BY <1>1 DEF Registered

\* A dependency that is found has the name that is looked for.
LEMMA FoundByName ==
    ASSUME ManagerInv, NEW m \in Managers, NEW n, NEW q, q = Resolve(m, n), q # None
    PROVE  q \in DOMAIN objects /\ Registered(q) /\ q.name = n /\ Reaches(m, q.manager)
<1> DEFINE others == {k \in externalManagers[m] : n \in DOMAIN plugins[k]}
<1>1. CASE n \in DOMAIN plugins[m]
  BY <1>1 DEF Resolve, ManagerInv, RegistrySound, Registered, Reaches
<1>2. CASE n \notin DOMAIN plugins[m] /\ others # {}
  <2>1. others \in SUBSET Nat /\ others \subseteq Managers
    BY PluginManagerAssumption DEF ManagerInv, Typed
  <2>2. Min(others) \in others
    BY <1>2, <2>1, MinIsMember
  <2>3. q = plugins[Min(others)][n]
    BY <1>2 DEF Resolve
  <2> QED BY <2>1, <2>2, <2>3 DEF ManagerInv, RegistrySound, Registered, Reaches
<1>3. CASE n \notin DOMAIN plugins[m] /\ others = {}
  BY <1>3 DEF Resolve
<1> QED BY <1>1, <1>2, <1>3

\* Whoever serves a manager is found by it under its name.
LEMMA ServedByName ==
    ASSUME NamesDistinct, ManagerInv, FilesSound, NEW m \in Managers, NEW q, Serves(q, m)
    PROVE  Resolve(m, q.name) = q
<1> DEFINE others == {k \in externalManagers[m] : q.name \in DOMAIN plugins[k]}
<1>1. /\ q \in DOMAIN objects /\ q.manager \in Managers
      /\ q.name \in DOMAIN plugins[q.manager] /\ plugins[q.manager][q.name] = q
  BY ObjectFacts DEF Serves, Registered
<1>2. ASSUME NEW k \in Managers, q.name \in DOMAIN plugins[k]
      PROVE  k = q.manager
  <2>1. /\ plugins[k][q.name] \in DOMAIN objects
        /\ plugins[k][q.name].manager = k /\ plugins[k][q.name].name = q.name
    BY <1>2 DEF ManagerInv, RegistrySound
  <2> QED BY <1>1, <2>1, ObjectFacts DEF NamesDistinct
<1>3. CASE q.manager = m
  BY <1>1, <1>3 DEF Resolve
<1>4. CASE q.manager # m
  <2>1. q.name \notin DOMAIN plugins[m] /\ q.manager \in externalManagers[m]
    BY <1>2, <1>4 DEF Serves, Reaches
  <2>2. others = {q.manager}
    BY <1>1, <1>2, <2>1 DEF ManagerInv, Typed
  <2>3. Min(others) \in others
    <3>1. others \in SUBSET Nat
      BY <1>1, <2>2, PluginManagerAssumption
    <3> QED BY <2>2, <3>1, MinIsMember
  <2>4. Resolve(m, q.name) = plugins[Min(others)][q.name]
    BY <2>1, <2>2 DEF Resolve
  <2> QED BY <1>1, <2>2, <2>3, <2>4
<1> QED BY <1>3, <1>4

\* By name, a loaded plugin finds what it was linked to.
LEMMA DependenciesAreUses ==
    ASSUME NamesDistinct, ManagerInv, FilesSound, UsesSound,
           NEW o \in DOMAIN objects, objects[o].loadState = "Loaded"
    PROVE  Dependencies(o) = objects[o].uses
<1>1. /\ NamesIn(objects[o].uses) = ToSet(objects[o].metadata.depends)
      /\ \A q \in objects[o].uses : Serves(q, o.manager)
  BY DEF UsesSound
<1>2. \A q \in objects[o].uses : Resolve(o.manager, q.name) = q
  BY <1>1, ObjectFacts, ServedByName
<1>3. Dependencies(o) = {Resolve(o.manager, n) : n \in NamesIn(objects[o].uses)}
  BY <1>1, Zenon DEF Dependencies
<1> QED BY <1>2, <1>3 DEF NamesIn

-----------------------------------------------------------------------------
\* Steps that link and unlink nothing.

\* What a plugin is, with its instances aside, is what it was.
Same(o) ==
    /\ o \in DOMAIN objects
    /\ objects'[o].metadata = objects[o].metadata
    /\ objects'[o].loadState = objects[o].loadState
    /\ objects'[o].usedBy = objects[o].usedBy
    /\ objects'[o].uses = objects[o].uses

\* A plugin that nobody uses or has loaded.
New(o) ==
    /\ objects'[o].loadState # "Loaded"
    /\ objects'[o].usedBy = <<>>
    /\ objects'[o].uses = {}
    /\ IsLoaded(o)' => Registered(o)'

Quiet ==
    /\ \A o \in DOMAIN objects' : Same(o) \/ New(o)
    /\ \A o \in DOMAIN objects : IsLoaded(o) /\ Registered(o) =>
            o \in DOMAIN objects' /\ Same(o) /\ Registered(o)'
    /\ \A m, k \in Managers : Reaches(m, k) => Reaches(m, k)'

\* What served a manager still does.
LEMMA ServesKept ==
    ASSUME ManagerInv, FilesSound, Quiet, NEW m \in Managers, NEW q, Serves(q, m)
    PROVE  Serves(q, m)'
<1>1. q \in DOMAIN objects /\ Registered(q) /\ IsLoaded(q) /\ Reaches(m, q.manager)
  BY DEF Serves
<1>2. q.manager \in Managers
  BY <1>1, ObjectFacts
<1>3. q \in DOMAIN objects' /\ Registered(q)' /\ objects'[q].loadState = objects[q].loadState
  BY <1>1 DEF Quiet, Same
<1>4. Reaches(m, q.manager)'
  BY <1>1, <1>2 DEF Quiet
<1> QED BY <1>1, <1>3, <1>4 DEF Serves, IsLoaded

\* Who uses what, in a quiet step.
LEMMA UsesKept ==
    ASSUME ManagerInv, FilesSound, UsesSound, Quiet
    PROVE  UsesSound'
<1> SUFFICES ASSUME NEW o \in DOMAIN objects'
             PROVE  /\ objects'[o].usedBy \in Seq(Names)
                    /\ IsLoaded(o)' => Registered(o)'
                    /\ IF objects'[o].loadState = "Loaded"
                       THEN NamesIn(objects'[o].uses) = ToSet(objects'[o].metadata.depends)
                       ELSE objects'[o].uses = {}
                    /\ \A q \in objects'[o].uses :
                            Serves(q, o.manager)' /\ o.name \in ToSet(objects'[q].usedBy)
  BY DEF UsesSound
<1>1. CASE New(o)
  BY <1>1 DEF New
<1>2. CASE Same(o)
  <2>1. /\ o \in DOMAIN objects /\ o.manager \in Managers
        /\ objects[o].usedBy \in Seq(Names)
        /\ IsLoaded(o) => Registered(o)
        /\ IF objects[o].loadState = "Loaded"
           THEN NamesIn(objects[o].uses) = ToSet(objects[o].metadata.depends)
           ELSE objects[o].uses = {}
        /\ \A q \in objects[o].uses :
                Serves(q, o.manager) /\ o.name \in ToSet(objects[q].usedBy)
    BY <1>2, ObjectFacts DEF UsesSound, Same
  <2>2. IsLoaded(o)' => Registered(o)'
    BY <1>2, <2>1 DEF Same, IsLoaded, Quiet
  <2>3. ASSUME NEW q \in objects[o].uses
        PROVE  Serves(q, o.manager)' /\ o.name \in ToSet(objects'[q].usedBy)
    <3>1. Serves(q, o.manager) /\ o.name \in ToSet(objects[q].usedBy)
      BY <2>1
    <3>2. objects'[q].usedBy = objects[q].usedBy
      BY <3>1 DEF Serves, Quiet, Same
    <3> QED BY <2>1, <3>1, <3>2, ServesKept
  <2> QED BY <1>2, <2>1, <2>2, <2>3 DEF Same
<1> QED BY <1>1, <1>2 DEF Quiet

\* The users of a plugin, in a quiet step.
LEMMA UsersKept ==
    ASSUME ManagerInv, FilesSound, UsesSound, Quiet, UsersExact
    PROVE  UsersExact'
<1> SUFFICES ASSUME NEW q \in DOMAIN objects'
             PROVE  /\ IsInjective(objects'[q].usedBy)
                    /\ \A n \in ToSet(objects'[q].usedBy) :
                            \E o \in DOMAIN objects' : o.name = n /\ q \in objects'[o].uses
  BY DEF UsersExact
<1>1. CASE New(q)
  BY <1>1 DEF New, IsInjective, ToSet
<1>2. CASE Same(q)
  <2>1. ASSUME NEW n \in ToSet(objects[q].usedBy)
        PROVE  \E o \in DOMAIN objects' : o.name = n /\ q \in objects'[o].uses
    <3>1. PICK o \in DOMAIN objects : o.name = n /\ q \in objects[o].uses
      BY <1>2, <2>1 DEF UsersExact, Same
    <3>2. IsLoaded(o) /\ Registered(o)
      BY <3>1 DEF UsesSound, IsLoaded
    <3> QED BY <3>1, <3>2 DEF Quiet, Same
  <2> QED BY <1>2, <2>1 DEF UsersExact, Same
<1> QED BY <1>1, <1>2 DEF Quiet

\* Without a load() there is nothing to be sound.
LEMMA NoFrames ==
    ASSUME stack' = <<>>
    PROVE  FramesSound'
<1>1. Len(stack') = 0
  OBVIOUS
<1> QED BY <1>1 DEF FramesSound

\* A step on which nothing but one of the calls changes.
Alike == UNCHANGED <<managers, plugins, externalManagers, objects>>

\* A step that changes nothing of the plugins is a quiet one.
LEMMA AlikeQuiet ==
    ASSUME ManagerInv, FilesSound, UsesSound, Alike
    PROVE  /\ Quiet /\ FilesSound' /\ UsesSound'
           /\ UsersExact => UsersExact'
           /\ \A f : FrameSound(f) => FrameSound(f)'
<1>1. Quiet
  BY DEF Alike, Quiet, Same, Registered, Reaches
<1>2. FilesSound'
  BY DEF Alike, FilesSound, FromFile
<1>3. \A f : FrameSound(f) => FrameSound(f)'
  BY DEF Alike, FrameSound, Serves, Registered, IsLoaded, Reaches
<1> QED BY <1>1, <1>2, <1>3, UsesKept, UsersKept

\* The calls that only read the plugins.
LEMMA PreferredUses ==
    ASSUME UsesInv, NEW m, NEW x, NEW n, SetPreferredPlugins(m, x, n)
    PROVE  FilesSound' /\ UsesSound' /\ FramesSound' /\ LoopSound' /\ (UsersExact => UsersExact')
<1>1. Alike /\ stack' = <<>> /\ destroying' = None
  BY DEF SetPreferredPlugins, Alike, Idle
<1> QED BY <1>1, AlikeQuiet, NoFrames DEF UsesInv, LoopSound

\* registerExternalManager() only adds to where dependencies are looked for.
LEMMA ExternalUses ==
    ASSUME UsesInv, NEW m \in Managers, NEW k \in Managers, RegisterExternalManager(m, k)
    PROVE  FilesSound' /\ UsesSound' /\ FramesSound' /\ LoopSound' /\ (UsersExact => UsersExact')
<1>1. /\ UNCHANGED <<managers, plugins, objects>> /\ stack' = <<>> /\ destroying' = None
      /\ \A i \in Managers : externalManagers[i] \subseteq externalManagers'[i]
  BY DEF RegisterExternalManager, Idle, UsesInv, ManagerInv, Typed
<1>2. Quiet
  BY <1>1 DEF Quiet, Same, Registered, Reaches
<1>3. FilesSound'
  BY <1>1 DEF UsesInv, FilesSound, FromFile
<1> QED BY <1>1, <1>2, <1>3, UsesKept, UsersKept, NoFrames DEF UsesInv, LoopSound

-----------------------------------------------------------------------------
\* load() up to opening a module.

\* A call that has only begun.
LEMMA CallSound ==
    ASSUME ManagerInv, FilesSound, NEW o \in DOMAIN objects, objects[o].loadState = "NotLoaded",
           NEW call, call = Call(o, objects[o].metadata)
    PROVE  FrameSound(call) /\ call.object = o /\ call.left = objects[o].metadata.depends
  BY ObjectFacts DEF Call, FrameSound, NamesIn

\* load() by name has only begun.
LEMMA LoadUses ==
    ASSUME UsesInv, NEW m \in Managers, NEW x, Load(m, x)
    PROVE  FilesSound' /\ UsesSound' /\ FramesSound' /\ LoopSound' /\ (UsersExact => UsersExact')
<1>1. PICK o : o = aliases[m][x]
  OBVIOUS
<1>2. PICK call : call = Call(o, objects[o].metadata)
  OBVIOUS
<1>3. /\ Alike /\ destroying' = None /\ stack' = <<call>>
      /\ x \in DOMAIN aliases[m] /\ objects[o].loadState = "NotLoaded"
  BY <1>1, <1>2 DEF Load, Alike, Idle
<1>4. o \in DOMAIN objects /\ Registered(o)
  BY <1>1, <1>3, RegisteredType DEF UsesInv, ManagerInv, AliasesLead
<1>5. FrameSound(call)' /\ call.object = o
  BY <1>2, <1>3, <1>4, CallSound, AlikeQuiet DEF UsesInv
<1>6. Len(stack') = 1 /\ stack'[1] = call /\ \A i \in 1 .. 1 : i = 1
  BY <1>3
<1>7. Registered(o)'
  BY <1>3, <1>4 DEF Alike, Registered
<1>8. FramesSound'
  BY <1>5, <1>6, <1>7 DEF FramesSound
<1> QED BY <1>3, <1>8, AlikeQuiet DEF UsesInv, LoopSound

\* The dependency that a load() is at, if its name leads somewhere.
LEMMA DependencyFacts ==
    ASSUME ManagerInv, FilesSound, FramesSound, stack # <<>>, NEW q, q = Dependency, q # None
    PROVE  /\ q \in DOMAIN objects /\ Registered(q) /\ Reaches(Top.object.manager, q.manager)
           /\ Top.left \in Seq(Names) /\ Top.left # <<>> /\ q.name = Head(Top.left)
           /\ q.name \in ToSet(objects[Top.object].metadata.depends)
           /\ FrameSound(Top) /\ Top.object \in DOMAIN objects /\ Top \in Frame
<1>1. /\ Top \in Frame /\ Top.object \in DOMAIN objects
      /\ Len(stack) \in Nat \ {0}
  BY TopSound DEF ManagerInv
<1>2. FrameSound(Top)
  BY <1>1 DEF FramesSound, Top
<1>3. Top.left \in Seq(Names) /\ Top.left # <<>> /\ q = Resolve(Top.object.manager, Head(Top.left))
  BY <1>1 DEF Dependency, Frame
<1>4. Top.object.manager \in Managers
  BY <1>1, ObjectFacts
<1>5. /\ q \in DOMAIN objects /\ Registered(q) /\ Reaches(Top.object.manager, q.manager)
      /\ q.name = Head(Top.left)
  BY <1>3, <1>4, FoundByName
<1>6. Head(Top.left) \in ToSet(Top.left)
  <2>1. Len(Top.left) \in Nat \ {0} /\ DOMAIN Top.left = 1 .. Len(Top.left) /\ Head(Top.left) = Top.left[1]
    BY <1>3, EmptySeq, LenProperties, HeadTailProperties
  <2> QED BY <2>1 DEF ToSet
<1> QED BY <1>1, <1>2, <1>3, <1>5, <1>6 DEF FrameSound

\* What is in a sequence is its first element or in the rest.
LEMMA HeadAndTail ==
    ASSUME NEW S, NEW s \in Seq(S), s # <<>>
    PROVE  ToSet(s) = {Head(s)} \cup ToSet(Tail(s))
<1>1. /\ Len(s) \in Nat \ {0} /\ DOMAIN s = 1 .. Len(s) /\ Head(s) = s[1]
      /\ Tail(s) \in Seq(S) /\ Len(Tail(s)) = Len(s) - 1
      /\ \A i \in 1 .. Len(Tail(s)) : Tail(s)[i] = s[i + 1]
  BY EmptySeq, LenProperties, HeadTailProperties
<1>2. DOMAIN Tail(s) = 1 .. Len(s) - 1
  BY <1>1, LenProperties
<1>3. ASSUME NEW i \in DOMAIN s
      PROVE  s[i] \in {Head(s)} \cup ToSet(Tail(s))
  <2>1. CASE i = 1
    BY <1>1, <2>1
  <2>2. CASE i # 1
    <3>1. i - 1 \in DOMAIN Tail(s) /\ Tail(s)[i - 1] = s[i]
      BY <1>1, <1>2, <2>2
    <3> QED BY <3>1 DEF ToSet
  <2> QED BY <2>1, <2>2
<1>4. ASSUME NEW i \in DOMAIN Tail(s)
      PROVE  Tail(s)[i] \in ToSet(s)
  <2>1. i + 1 \in DOMAIN s /\ Tail(s)[i] = s[i + 1]
    BY <1>1, <1>2
  <2> QED BY <2>1 DEF ToSet
<1>5. Head(s) \in ToSet(s)
  BY <1>1 DEF ToSet
<1> QED BY <1>3, <1>4, <1>5 DEF ToSet

\* A dependency that is loaded already serves whoever needs it.
LEMMA RecordUses ==
    ASSUME UsesInv, RecordDependency
    PROVE  FilesSound' /\ UsesSound' /\ FramesSound' /\ LoopSound' /\ (UsersExact => UsersExact')
<1>1. PICK q : q = Dependency
  OBVIOUS
<1>2. PICK top : top = Top
  OBVIOUS
<1>3. PICK frame : frame = [top EXCEPT !.left = Tail(top.left), !.found = top.found \cup {q}]
  OBVIOUS
<1>4. /\ Alike /\ UNCHANGED destroying
      /\ stack # <<>> /\ q # None /\ IsLoaded(q)
      /\ stack' = [stack EXCEPT ![Len(stack)] = frame]
  BY <1>1, <1>2, <1>3, Zenon DEF RecordDependency, Alike
<1>5. /\ q \in DOMAIN objects /\ Registered(q) /\ Reaches(top.object.manager, q.manager)
      /\ top.left \in Seq(Names) /\ top.left # <<>> /\ q.name = Head(top.left)
      /\ FrameSound(top) /\ top.object \in DOMAIN objects /\ top \in Frame
  BY <1>1, <1>2, <1>4, DependencyFacts DEF UsesInv
<1>6. Serves(q, top.object.manager)
  BY <1>4, <1>5 DEF Serves
<1>7. top = [object |-> top.object, left |-> top.left, found |-> top.found]
  BY <1>5 DEF Frame
<1>8. frame = [object |-> top.object, left |-> Tail(top.left), found |-> top.found \cup {q}]
  BY <1>3, <1>7, Zenon
<1>9. frame.object = top.object /\ frame.left = Tail(top.left) /\ frame.found = top.found \cup {q}
  BY <1>8
<1>10. FrameSound(frame)
  <2>1. ToSet(top.left) = {q.name} \cup ToSet(frame.left)
    BY <1>5, <1>9, HeadAndTail
  <2>2. NamesIn(frame.found) = NamesIn(top.found) \cup {q.name}
    BY <1>9 DEF NamesIn
  <2> QED BY <1>5, <1>6, <1>9, <2>1, <2>2 DEF FrameSound
<1>11. Len(stack) \in Nat \ {0} /\ stack \in Seq(Frame) /\ DOMAIN stack = 1 .. Len(stack)
  BY <1>4, TopSound DEF UsesInv, ManagerInv, LoadsSound
<1>12. /\ Len(stack') = Len(stack)
       /\ \A i \in 1 .. Len(stack) : stack'[i] = IF i = Len(stack) THEN frame ELSE stack[i]
  <2>1. DOMAIN stack' = 1 .. Len(stack) /\ Len(stack') = Len(stack)
    BY <1>4, <1>11
  <2> QED BY <1>4, <1>11, <2>1
<1>13. \A i \in 1 .. Len(stack) : stack'[i].object = stack[i].object
  BY <1>2, <1>9, <1>12 DEF Top
<1>14. ASSUME NEW i \in 1 .. Len(stack')
       PROVE  FrameSound(stack[i])'
  <2>1. PICK f : f = stack'[i]
    OBVIOUS
  <2>2. FrameSound(f)
    BY <1>10, <1>12, <2>1 DEF UsesInv, FramesSound
  <2>3. FrameSound(f)'
    BY <1>4, <2>2, AlikeQuiet DEF UsesInv
  <2> QED BY <2>1, <2>3 DEF FrameSound
<1>15. (LET o == stack[1].object IN
            ~Registered(o) /\ o.name \in DOMAIN plugins[o.manager] =>
                ~IsLoaded(plugins[o.manager][o.name]))'
  <2>1. stack'[1].object = stack[1].object
    BY <1>11, <1>13
  <2> QED BY <1>4, <2>1 DEF UsesInv, FramesSound, Alike, Registered, IsLoaded
<1>16. \A i, j \in 1 .. Len(stack') :
            i < j => Rank[stack'[j].object.name] < Rank[stack'[i].object.name]
  BY <1>12, <1>13 DEF UsesInv, FramesSound
<1>17. FramesSound'
  BY <1>14, <1>15, <1>16 DEF FramesSound
<1>18. LoopSound'
  BY <1>4 DEF UsesInv, LoopSound, Alike, Needed
<1> QED BY <1>4, <1>17, <1>18, AlikeQuiet DEF UsesInv

\* What is loaded for another plugin ranks below it.
LEMMA RanksBelow ==
    ASSUME NamesDistinct, NoCycles, ManagerInv, FilesSound,
           NEW o \in DOMAIN objects, objects[o].loadState = "NotLoaded",
           NEW q \in DOMAIN objects, objects[q].loadState = "NotLoaded",
           q.name \in ToSet(objects[o].metadata.depends)
    PROVE  Rank[q.name] < Rank[o.name]
<1>1. FromFile(o) /\ FromFile(q)
  BY DEF FilesSound
<1>2. PICK d \in Directories : /\ o.name \in DOMAIN Catalog[o.manager][d]
                               /\ objects[o].metadata = Catalog[o.manager][d][o.name]
  BY <1>1 DEF FromFile
<1>3. IsStatic(q.name) \/ Rank[q.name] < Rank[o.name]
  BY <1>2, ObjectFacts, RankFacts DEF Ranks
<1>4. ~IsStatic(q.name)
  <2> SUFFICES ASSUME NEW k \in Managers, q.name \in DOMAIN StaticPlugins[k]
               PROVE  FALSE
    BY DEF IsStatic
  <2>1. q.name \in NamesOf(k) /\ q.name \in NamesOf(q.manager) /\ q.manager \in Managers
    BY ObjectFacts DEF NamesOf
  <2>2. k = q.manager
    BY <2>1 DEF NamesDistinct
  <2> QED BY <1>1, <2>2 DEF FromFile
<1> QED BY <1>3, <1>4

\* A dependency that is not loaded is, first.
LEMMA DescendUses ==
    ASSUME NamesDistinct, NoCycles, UsesInv, LoadDependency
    PROVE  FilesSound' /\ UsesSound' /\ FramesSound' /\ LoopSound' /\ (UsersExact => UsersExact')
<1>1. PICK q : q = Dependency
  OBVIOUS
<1>2. PICK call : call = Call(q, objects[q].metadata)
  OBVIOUS
<1>3. /\ Alike /\ UNCHANGED destroying
      /\ stack # <<>> /\ q # None /\ objects[q].loadState = "NotLoaded"
      /\ stack' = Append(stack, call)
  BY <1>1, <1>2, Zenon DEF LoadDependency, Alike
<1>4. /\ q \in DOMAIN objects
      /\ q.name \in ToSet(objects[Top.object].metadata.depends)
      /\ FrameSound(Top) /\ Top.object \in DOMAIN objects
  BY <1>1, <1>3, DependencyFacts DEF UsesInv
<1>5. FrameSound(call)' /\ call.object = q
  BY <1>2, <1>3, <1>4, CallSound, AlikeQuiet DEF UsesInv
<1>6. Rank[q.name] < Rank[Top.object.name]
  BY <1>3, <1>4, RanksBelow DEF UsesInv, FrameSound
<1>7. Len(stack) \in Nat \ {0} /\ stack \in Seq(Frame)
  BY <1>3, TopSound DEF UsesInv, ManagerInv, LoadsSound
<1>8. /\ Len(stack') = Len(stack) + 1
      /\ \A i \in 1 .. Len(stack) : stack'[i] = stack[i]
      /\ stack'[Len(stack) + 1] = call
  <2>1. stack \in Seq(Frame \cup {call}) /\ call \in Frame \cup {call}
    BY <1>7, SeqMonotonic
  <2> QED BY <1>3, <2>1, AppendProperties
<1>9. ASSUME NEW i \in 1 .. Len(stack')
      PROVE  FrameSound(stack[i])'
  <2>1. PICK f : f = stack'[i]
    OBVIOUS
  <2>2. FrameSound(f)'
    <3>1. CASE i \in 1 .. Len(stack)
      BY <1>3, <1>8, <2>1, <3>1, AlikeQuiet DEF UsesInv, FramesSound
    <3>2. CASE i = Len(stack) + 1
      BY <1>5, <1>8, <2>1, <3>2
    <3> QED BY <1>7, <1>8, <3>1, <3>2
  <2> QED BY <2>1, <2>2 DEF FrameSound
<1>10. ASSUME NEW i \in 1 .. Len(stack'), NEW j \in 1 .. Len(stack'), i < j
       PROVE  Rank[stack'[j].object.name] < Rank[stack'[i].object.name]
  <2>1. i \in 1 .. Len(stack) /\ stack'[i] = stack[i]
    BY <1>7, <1>8, <1>10
  <2>2. CASE j \in 1 .. Len(stack)
    BY <1>8, <1>10, <2>1, <2>2 DEF UsesInv, FramesSound
  <2>3. CASE j = Len(stack) + 1
    <3>1. stack'[j].object = q
      BY <1>5, <1>8, <2>3
    <3>2. i = Len(stack) \/ Rank[Top.object.name] < Rank[stack[i].object.name]
      BY <1>7, <2>1 DEF UsesInv, FramesSound, Top
    <3>3. /\ Rank[q.name] \in Nat /\ Rank[Top.object.name] \in Nat
          /\ Rank[stack[i].object.name] \in Nat
      <4>1. stack[i].object \in DOMAIN objects
        BY <2>1 DEF UsesInv, ManagerInv, LoadsSound
      <4> QED BY <1>4, <4>1, ObjectFacts, RankFacts DEF UsesInv
    <3>4. i = Len(stack) => stack[i].object.name = Top.object.name
      BY DEF Top
    <3> QED BY <1>6, <2>1, <3>1, <3>2, <3>3, <3>4
  <2> QED BY <1>7, <1>8, <2>2, <2>3
<1>11. (LET o == stack[1].object IN
            ~Registered(o) /\ o.name \in DOMAIN plugins[o.manager] =>
                ~IsLoaded(plugins[o.manager][o.name]))'
  <2>1. stack'[1] = stack[1]
    BY <1>7, <1>8
  <2> QED BY <1>3, <2>1 DEF UsesInv, FramesSound, Alike, Registered, IsLoaded
<1>12. FramesSound'
  BY <1>9, <1>10, <1>11 DEF FramesSound
<1>13. LoopSound'
  BY <1>3 DEF UsesInv, LoopSound, Alike, Needed
<1> QED BY <1>3, <1>12, <1>13, AlikeQuiet DEF UsesInv

\* A load() that fails has linked nothing.
LEMMA FailUses ==
    ASSUME UsesInv, FailLoad
    PROVE  FilesSound' /\ UsesSound' /\ FramesSound' /\ LoopSound' /\ (UsersExact => UsersExact')
<1>1. /\ UNCHANGED <<managers, plugins, externalManagers, destroying>> /\ stack' = <<>>
      /\ DOMAIN objects' = {o \in DOMAIN objects : Registered(o)}
      /\ \A o \in DOMAIN objects' : objects'[o] = objects[o]
  BY DEF FailLoad, Restrict
<1>2. Quiet
  BY <1>1 DEF Quiet, Same, Registered, Reaches
<1>3. FilesSound'
  BY <1>1 DEF UsesInv, FilesSound, FromFile
<1>4. LoopSound'
  BY <1>1 DEF FailLoad, UsesInv, ManagerInv, DestructionSound, LoopSound
<1> QED BY <1>1, <1>2, <1>3, <1>4, UsesKept, UsersKept, NoFrames DEF UsesInv

\* What a new plugin contains.
LEMMA NewContent ==
    ASSUME NEW metadata, NEW p, p = NewPlugin(metadata)
    PROVE  /\ p.metadata = metadata /\ p.usedBy = <<>> /\ p.uses = {}
           /\ p.loadState = IF metadata.valid THEN "NotLoaded" ELSE "WrongMetadataFile"
  BY DEF NewPlugin

\* What a static plugin contains.
LEMMA NewStaticContent ==
    ASSUME NEW metadata, NEW p, p = NewStaticPlugin(metadata)
    PROVE  p.usedBy = <<>> /\ p.uses = {} /\ p.loadState = "Static"
<1>1. PICK r : r = NewPlugin(metadata)
  OBVIOUS
<1>2. DOMAIN r = {"metadata", "loadState", "usedBy", "uses", "instances"}
  BY <1>1 DEF NewPlugin
<1>3. p = [r EXCEPT !.loadState = "Static"]
  BY <1>1, Zenon DEF NewStaticPlugin
<1>4. p.loadState = "Static" /\ p.usedBy = r.usedBy /\ p.uses = r.uses
  BY <1>2, <1>3
<1> QED BY <1>1, <1>4, NewContent

\* load() by path has only begun, with a plugin that is not registered.
LEMMA PathUses ==
    ASSUME UsesInv, NEW m \in Managers, NEW d \in Directories, NEW n \in Names, LoadPath(m, d, n)
    PROVE  FilesSound' /\ UsesSound' /\ FramesSound' /\ LoopSound' /\ (UsersExact => UsersExact')
<1>1. PICK o : o = Fresh(m, n)
  OBVIOUS
<1>2. PICK p : p = NewPlugin(Catalog[m][d][n])
  OBVIOUS
<1>3. PICK call : call = Call(o, Catalog[m][d][n])
  OBVIOUS
<1>4. /\ m \in managers
      /\ n \in DOMAIN Catalog[m][d] /\ Catalog[m][d][n].valid
      /\ n \in DOMAIN plugins[m] => ~IsLoaded(plugins[m][n])
      /\ objects' = Over([q \in {o} |-> p], objects)
      /\ stack' = <<call>> /\ destroying' = None
      /\ UNCHANGED <<managers, plugins, externalManagers>>
  BY <1>1, <1>2, <1>3 DEF LoadPath, Idle
<1>5. o.manager = m /\ o.name = n /\ ~Registered(o)
  BY <1>1, FreshUnregistered
<1>6. /\ p.metadata = Catalog[m][d][n] /\ p.usedBy = <<>> /\ p.uses = {}
      /\ p.loadState = "NotLoaded"
  BY <1>2, <1>4, NewContent
<1>7. /\ DOMAIN objects' = DOMAIN objects \cup {o}
      /\ objects'[o] = p
      /\ \A q \in DOMAIN objects' : q # o => objects'[q] = objects[q]
  BY <1>4 DEF Over
<1>8. Quiet
  BY <1>4, <1>5, <1>6, <1>7 DEF Quiet, Same, New, Registered, IsLoaded, Reaches
<1>9. n \notin DOMAIN StaticPlugins[m]
  <2> SUFFICES ASSUME n \in DOMAIN StaticPlugins[m]
               PROVE  FALSE
    OBVIOUS
  <2>1. n \in DOMAIN plugins[m]
    BY <1>4 DEF UsesInv, FilesSound
  <2>2. /\ plugins[m][n] \in DOMAIN objects
        /\ plugins[m][n].manager = m /\ plugins[m][n].name = n
    BY <2>1 DEF UsesInv, ManagerInv, RegistrySound
  <2>3. objects[plugins[m][n]].loadState = "Static"
    BY <2>2 DEF UsesInv, FilesSound, FromFile
  <2> QED BY <1>4, <2>1, <2>3 DEF IsLoaded
<1>10. FilesSound'
  BY <1>4, <1>5, <1>6, <1>7, <1>9 DEF UsesInv, FilesSound, FromFile
<1>11. FramesSound'
  <2>1. call.object = o /\ call.left = Catalog[m][d][n].depends /\ call.found = {}
    BY <1>3 DEF Call
  <2>2. FrameSound(call)'
    BY <1>6, <1>7, <2>1 DEF FrameSound, NamesIn
  <2>3. Len(stack') = 1 /\ stack'[1] = call /\ \A i \in 1 .. 1 : i = 1
    BY <1>4
  <2>4. ASSUME n \in DOMAIN plugins[m]
        PROVE  ~IsLoaded(plugins[m][n])'
    <3>1. /\ plugins[m][n] \in DOMAIN objects /\ ~IsLoaded(plugins[m][n])
          /\ plugins[m][n] # o
      BY <1>4, <1>5, <2>4 DEF UsesInv, ManagerInv, RegistrySound, Registered
    <3> QED BY <1>4, <1>7, <3>1 DEF IsLoaded
  <2> QED BY <1>4, <1>5, <2>1, <2>2, <2>3, <2>4 DEF FramesSound
<1> QED BY <1>4, <1>8, <1>10, <1>11, UsesKept, UsersKept DEF UsesInv, LoopSound

-----------------------------------------------------------------------------
\* Scanning a directory.

\* What is kept of a manager's plugins when a directory is scanned: all that are
\* loaded, as they are.  The static ones are kept or new.
KeptUses(m, kept, content) ==
    /\ DOMAIN StaticPlugins[m] \subseteq DOMAIN kept
    /\ \A n \in DOMAIN kept :
            /\ kept[n].manager = m /\ kept[n].name = n /\ n \in Names
            /\ \/ kept[n] \in DOMAIN objects /\ content[n] = objects[kept[n]]
               \/ /\ n \in DOMAIN StaticPlugins[m] /\ content[n].loadState = "Static"
                  /\ content[n].usedBy = <<>> /\ content[n].uses = {}
    /\ \A o \in DOMAIN objects : o.manager = m /\ IsLoaded(o) /\ Registered(o) =>
            o.name \in DOMAIN kept /\ kept[o.name] = o /\ content[o.name] = objects[o]

\* The objects after a scan: new ones, those that were kept and those of other
\* managers.
LEMMA PopulateFacts ==
    ASSUME ManagerInv, NEW m \in Managers, NEW d \in Directories,
           NEW kept, NEW keptAliases, NEW content,
           Populate(m, d, kept, keptAliases, content), KeptUses(m, kept, content)
    PROVE  /\ \A o \in DOMAIN objects' :
                \/ /\ o.manager = m /\ o.name \in DOMAIN Catalog[m][d] \ DOMAIN kept
                   /\ objects'[o] = NewPlugin(Catalog[m][d][o.name]) /\ Registered(o)'
                \/ /\ o.name \in DOMAIN kept /\ o = kept[o.name]
                   /\ objects'[o] = content[o.name] /\ Registered(o)'
                \/ /\ o \in DOMAIN objects /\ o.manager # m
                   /\ objects'[o] = objects[o] /\ (Registered(o) => Registered(o)')
           /\ \A n \in DOMAIN kept :
                kept[n] \in DOMAIN objects' /\ objects'[kept[n]] = content[n] /\ Registered(kept[n])'
           /\ \A o \in DOMAIN objects : o.manager # m =>
                o \in DOMAIN objects' /\ objects'[o] = objects[o] /\ (Registered(o) => Registered(o)')
           /\ DOMAIN kept \subseteq DOMAIN plugins'[m]
           /\ \A k \in Managers : k # m => plugins'[k] = plugins[k]
<1> DEFINE new == DOMAIN Catalog[m][d] \ DOMAIN kept
           own == [n \in new |-> Fresh(m, n)]
           file == [n \in new |-> Catalog[m][d][n]]
           registry == Over(own, kept)
<1>1. /\ plugins' = [plugins EXCEPT ![m] = registry]
      /\ objects' = Over([o \in Range(own) |-> NewPlugin(file[o.name])],
                     Over([o \in Range(kept) |-> content[o.name]],
                          Restrict(objects, {o \in DOMAIN objects : o.manager # m})))
  BY Zenon DEF Populate
<1>2. new = DOMAIN Catalog[m][d] \ DOMAIN kept
  OBVIOUS
<1> HIDE DEF new
<1>3. own = [n \in new |-> Fresh(m, n)]
  OBVIOUS
<1>4. file = [n \in new |-> Catalog[m][d][n]]
  OBVIOUS
<1> HIDE DEF own, file
<1>5. registry = Over(own, kept)
  OBVIOUS
<1> HIDE DEF registry
<1>6. /\ DOMAIN own = new /\ DOMAIN file = new
      /\ \A n \in new : n \in Names /\ n \notin DOMAIN kept /\ file[n] = Catalog[m][d][n]
  BY <1>2, <1>3, <1>4, PluginManagerAssumption DEF Files
<1>7. \A n \in new : own[n] \in Objects /\ own[n].manager = m /\ own[n].name = n
  BY <1>3, <1>6, FreshUnregistered
<1>8. \A n \in DOMAIN kept : kept[n].manager = m /\ kept[n].name = n /\ n \in Names
  BY DEF KeptUses
<1>9. /\ DOMAIN registry = new \cup DOMAIN kept
      /\ \A n \in new : registry[n] = own[n]
      /\ \A n \in DOMAIN kept : registry[n] = kept[n]
  BY <1>5, <1>6 DEF Over
<1>10. \A k \in Managers : plugins'[k] = IF k = m THEN registry ELSE plugins[k]
  BY <1>1 DEF ManagerInv, Typed
<1>11. DOMAIN objects' = Range(own) \cup Range(kept) \cup {o \in DOMAIN objects : o.manager # m}
  BY <1>1 DEF Over, Restrict
<1>12. ASSUME NEW n \in new
       PROVE  own[n] \in DOMAIN objects' /\ objects'[own[n]] = NewPlugin(Catalog[m][d][n])
  <2>1. own[n] \in Range(own)
    BY <1>6 DEF Range
  <2>2. objects'[own[n]] = NewPlugin(file[own[n].name])
    BY <1>1, <2>1 DEF Over
  <2> QED BY <1>6, <1>7, <1>11, <2>1, <2>2
<1>13. ASSUME NEW n \in DOMAIN kept
       PROVE  kept[n] \in DOMAIN objects' /\ objects'[kept[n]] = content[n] /\ Registered(kept[n])'
  <2>1. kept[n] \in Range(kept) /\ kept[n] \notin Range(own)
    BY <1>6, <1>7, <1>8 DEF Range
  <2>2. objects'[kept[n]] = content[kept[n].name]
    BY <1>1, <2>1 DEF Over
  <2>3. Registered(kept[n])'
    BY <1>8, <1>9, <1>10 DEF Registered
  <2> QED BY <1>8, <1>11, <2>1, <2>2, <2>3
<1>14. ASSUME NEW o \in DOMAIN objects, o.manager # m
       PROVE  o \in DOMAIN objects' /\ objects'[o] = objects[o] /\ (Registered(o) => Registered(o)')
  <2>1. o \notin Range(own) /\ o \notin Range(kept)
    BY <1>6, <1>7, <1>8, <1>14 DEF Range
  <2>2. o.manager \in Managers
    BY DEF ManagerInv, Typed, Objects
  <2>3. Registered(o) => Registered(o)'
    BY <1>10, <1>14, <2>2 DEF Registered
  <2> QED BY <1>1, <1>11, <1>14, <2>1, <2>3 DEF Over, Restrict
<1>15. ASSUME NEW o \in DOMAIN objects'
       PROVE  \/ /\ o.manager = m /\ o.name \in DOMAIN Catalog[m][d] \ DOMAIN kept
                 /\ objects'[o] = NewPlugin(Catalog[m][d][o.name]) /\ Registered(o)'
              \/ /\ o.name \in DOMAIN kept /\ o = kept[o.name]
                 /\ objects'[o] = content[o.name] /\ Registered(o)'
              \/ /\ o \in DOMAIN objects /\ o.manager # m
                 /\ objects'[o] = objects[o] /\ (Registered(o) => Registered(o)')
  <2>1. CASE o \in Range(own)
    <3>1. PICK n \in new : o = own[n]
      BY <1>6, <2>1 DEF Range
    <3>2. Registered(o)'
      BY <1>7, <1>9, <1>10, <3>1 DEF Registered
    <3> QED BY <1>2, <1>7, <1>12, <3>1, <3>2
  <2>2. CASE o \in Range(kept)
    <3>1. PICK n \in DOMAIN kept : o = kept[n]
      BY <2>2 DEF Range
    <3>2. Registered(o)'
      BY <1>8, <1>9, <1>10, <3>1 DEF Registered
    <3> QED BY <1>8, <1>13, <3>1, <3>2
  <2>3. CASE o \in DOMAIN objects /\ o.manager # m
    BY <1>14, <2>3
  <2> QED BY <1>11, <2>1, <2>2, <2>3
<1>16. DOMAIN kept \subseteq DOMAIN plugins'[m] /\ \A k \in Managers : k # m => plugins'[k] = plugins[k]
  BY <1>9, <1>10
<1> QED BY <1>13, <1>14, <1>15, <1>16

\* A scan unloads nothing and gives no user to anybody.
LEMMA PopulateUses ==
    ASSUME UsesInv, Idle, NEW m \in Managers, NEW d \in Directories,
           NEW kept, NEW keptAliases, NEW content,
           Populate(m, d, kept, keptAliases, content), KeptUses(m, kept, content),
           managers' = managers \cup {m},
           UNCHANGED <<externalManagers, stack, destroying>>
    PROVE  FilesSound' /\ UsesSound' /\ FramesSound' /\ LoopSound' /\ (UsersExact => UsersExact')
<1>1. /\ \A o \in DOMAIN objects' :
            \/ /\ o.manager = m /\ o.name \in DOMAIN Catalog[m][d] \ DOMAIN kept
               /\ objects'[o] = NewPlugin(Catalog[m][d][o.name]) /\ Registered(o)'
            \/ /\ o.name \in DOMAIN kept /\ o = kept[o.name]
               /\ objects'[o] = content[o.name] /\ Registered(o)'
            \/ /\ o \in DOMAIN objects /\ o.manager # m
               /\ objects'[o] = objects[o] /\ (Registered(o) => Registered(o)')
      /\ \A n \in DOMAIN kept :
            kept[n] \in DOMAIN objects' /\ objects'[kept[n]] = content[n] /\ Registered(kept[n])'
      /\ \A o \in DOMAIN objects : o.manager # m =>
            o \in DOMAIN objects' /\ objects'[o] = objects[o] /\ (Registered(o) => Registered(o)')
      /\ DOMAIN kept \subseteq DOMAIN plugins'[m]
      /\ \A k \in Managers : k # m => plugins'[k] = plugins[k]
  BY PopulateFacts DEF UsesInv
<1>2. ASSUME NEW o \in DOMAIN objects'
      PROVE  (Same(o) \/ New(o)) /\ FromFile(o)'
  <2>1. CASE /\ o.manager = m /\ o.name \in DOMAIN Catalog[m][d] \ DOMAIN kept
             /\ objects'[o] = NewPlugin(Catalog[m][d][o.name]) /\ Registered(o)'
    <3>1. /\ objects'[o].metadata = Catalog[m][d][o.name]
          /\ objects'[o].usedBy = <<>> /\ objects'[o].uses = {}
          /\ objects'[o].loadState \in {"NotLoaded", "WrongMetadataFile"}
      BY <2>1, NewContent
    <3>2. o.name \notin DOMAIN StaticPlugins[m]
      BY <2>1 DEF KeptUses
    <3> QED BY <2>1, <3>1, <3>2 DEF New, FromFile
  <2>2. CASE /\ o.name \in DOMAIN kept /\ o = kept[o.name]
             /\ objects'[o] = content[o.name] /\ Registered(o)'
    <3>1. o.manager = m
      BY <2>2 DEF KeptUses
    <3>2. CASE o \in DOMAIN objects /\ content[o.name] = objects[o]
      BY <2>2, <3>2 DEF Same, UsesInv, FilesSound, FromFile
    <3>3. CASE /\ o.name \in DOMAIN StaticPlugins[m] /\ content[o.name].loadState = "Static"
               /\ content[o.name].usedBy = <<>> /\ content[o.name].uses = {}
      BY <2>2, <3>1, <3>3 DEF New, FromFile
    <3> QED BY <2>2, <3>2, <3>3 DEF KeptUses
  <2>3. CASE /\ o \in DOMAIN objects /\ o.manager # m
             /\ objects'[o] = objects[o] /\ (Registered(o) => Registered(o)')
    BY <2>3 DEF Same, UsesInv, FilesSound, FromFile
  <2> QED BY <1>1, <2>1, <2>2, <2>3
<1>3. ASSUME NEW o \in DOMAIN objects, IsLoaded(o), Registered(o)
      PROVE  o \in DOMAIN objects' /\ Same(o) /\ Registered(o)'
  <2>1. CASE o.manager = m
    <3>1. o.name \in DOMAIN kept /\ kept[o.name] = o /\ content[o.name] = objects[o]
      BY <1>3, <2>1 DEF KeptUses
    <3>2. Registered(o)' /\ o \in DOMAIN objects' /\ objects'[o] = objects[o]
      BY <1>1, <3>1
    <3> QED BY <3>2 DEF Same
  <2>2. CASE o.manager # m
    BY <1>1, <1>3, <2>2 DEF Same
  <2> QED BY <2>1, <2>2
<1>4. Quiet
  BY <1>2, <1>3 DEF Quiet, Reaches
<1>5. FilesSound'
  <2>1. ASSUME NEW k \in managers'
        PROVE  DOMAIN StaticPlugins[k] \subseteq DOMAIN plugins'[k]
    <3>1. CASE k = m
      BY <1>1, <3>1 DEF KeptUses
    <3>2. CASE k # m
      BY <1>1, <3>2 DEF UsesInv, FilesSound, ManagerInv, Typed
    <3> QED BY <3>1, <3>2
  <2> QED BY <1>2, <2>1 DEF FilesSound
<1>6. stack' = <<>> /\ destroying' = None
  BY DEF Idle
<1> QED BY <1>4, <1>5, <1>6, UsesKept, UsersKept, NoFrames DEF UsesInv, LoopSound

\* setPluginDirectory() forgets only what is not loaded.
LEMMA DirectoryUses ==
    ASSUME UsesInv, NEW m \in Managers, NEW d \in Directories, SetPluginDirectory(m, d)
    PROVE  FilesSound' /\ UsesSound' /\ FramesSound' /\ LoopSound' /\ (UsersExact => UsersExact')
<1>1. PICK kept : kept = KeptPlugins(m)
  OBVIOUS
<1>2. PICK keptAliases : keptAliases = KeptAliases(m)
  OBVIOUS
<1>3. PICK content : content = [n \in DOMAIN KeptPlugins(m) |-> objects[plugins[m][n]]]
  OBVIOUS
<1>4. /\ Idle /\ m \in managers /\ Populate(m, d, kept, keptAliases, content)
      /\ managers' = managers \cup {m}
      /\ UNCHANGED <<externalManagers, stack, destroying>>
  <2>1. /\ Idle /\ m \in managers /\ UNCHANGED <<managers, externalManagers, stack, destroying>>
        /\ Populate(m, d, KeptPlugins(m), KeptAliases(m),
                    [n \in DOMAIN KeptPlugins(m) |-> objects[plugins[m][n]]])
    BY Zenon DEF SetPluginDirectory
  <2>2. Populate(m, d, kept, keptAliases, content)
    BY <1>1, <1>2, <1>3, <2>1, Zenon
  <2>3. managers' = managers \cup {m}
    BY <2>1
  <2> QED BY <2>1, <2>2, <2>3
<1>5. /\ DOMAIN kept = {n \in DOMAIN plugins[m] : ~Removable(plugins[m][n])}
      /\ \A n \in DOMAIN kept : kept[n] = plugins[m][n] /\ content[n] = objects[plugins[m][n]]
  BY <1>1, <1>3 DEF KeptPlugins, Restrict
<1>6. KeptUses(m, kept, content)
  <2>1. ASSUME NEW n \in DOMAIN StaticPlugins[m]
        PROVE  n \in DOMAIN kept
    <3>1. n \in DOMAIN plugins[m]
      BY <1>4 DEF UsesInv, FilesSound
    <3>2. /\ plugins[m][n] \in DOMAIN objects
          /\ plugins[m][n].manager = m /\ plugins[m][n].name = n
      BY <3>1 DEF UsesInv, ManagerInv, RegistrySound
    <3>3. objects[plugins[m][n]].loadState = "Static"
      BY <3>2 DEF UsesInv, FilesSound, FromFile
    <3> QED BY <1>5, <3>1, <3>3 DEF Removable
  <2>2. ASSUME NEW n \in DOMAIN kept
        PROVE  /\ kept[n].manager = m /\ kept[n].name = n /\ n \in Names
               /\ kept[n] \in DOMAIN objects /\ content[n] = objects[kept[n]]
    BY <1>5, RegisteredType DEF UsesInv, ManagerInv, RegistrySound
  <2>3. ASSUME NEW o \in DOMAIN objects, o.manager = m, IsLoaded(o), Registered(o)
        PROVE  o.name \in DOMAIN kept /\ kept[o.name] = o /\ content[o.name] = objects[o]
    BY <1>5, <2>3 DEF IsLoaded, Removable, Registered
  <2> QED BY <2>1, <2>2, <2>3 DEF KeptUses
<1> QED BY <1>4, <1>6, PopulateUses

\* The constructor adds static plugins and what is in the directory.
LEMMA ConstructUses ==
    ASSUME UsesInv, NEW m \in Managers, NEW d \in Directories, ConstructManager(m, d)
    PROVE  FilesSound' /\ UsesSound' /\ FramesSound' /\ LoopSound' /\ (UsersExact => UsersExact')
<1> DEFINE names == DOMAIN StaticPlugins[m]
           static == [n \in names |-> Fresh(m, n)]
<1>1. PICK kept : kept = static
  OBVIOUS
<1>2. PICK keptAliases : keptAliases = Register(<<>>, StaticPlugins[m], static)
  OBVIOUS
<1>3. PICK content : content = [n \in DOMAIN static |-> NewStaticPlugin(StaticPlugins[m][n])]
  OBVIOUS
<1>4. /\ Idle /\ m \notin managers /\ managers' = managers \cup {m}
      /\ UNCHANGED <<externalManagers, stack, destroying>>
      /\ Populate(m, d, static, Register(<<>>, StaticPlugins[m], static),
                  [n \in DOMAIN static |-> NewStaticPlugin(StaticPlugins[m][n])])
  BY Zenon DEF ConstructManager
<1>5. /\ DOMAIN kept = names /\ names \subseteq Names
      /\ \A n \in names : kept[n] = Fresh(m, n)
      /\ \A n \in names : content[n] = NewStaticPlugin(StaticPlugins[m][n])
  BY <1>1, <1>3, PluginManagerAssumption DEF Files
<1> HIDE DEF static
<1>6. Populate(m, d, kept, keptAliases, content)
  BY <1>1, <1>2, <1>3, <1>4, Zenon
<1>7. KeptUses(m, kept, content)
  <2>1. ASSUME NEW n \in DOMAIN kept
        PROVE  /\ kept[n].manager = m /\ kept[n].name = n /\ n \in Names
               /\ n \in DOMAIN StaticPlugins[m] /\ content[n].loadState = "Static"
               /\ content[n].usedBy = <<>> /\ content[n].uses = {}
    BY <1>5, FreshUnregistered, NewStaticContent
  <2>2. ASSUME NEW o \in DOMAIN objects, o.manager = m, Registered(o)
        PROVE  FALSE
    BY <1>4, <2>2 DEF UsesInv, ManagerInv, NothingBefore, Registered
  <2> QED BY <1>5, <2>1, <2>2 DEF KeptUses
<1> QED BY <1>4, <1>6, <1>7, PopulateUses

-----------------------------------------------------------------------------
\* The instances and the loop of the destructor.

\* An instance more or less.
LEMMA InstanceUses ==
    ASSUME UsesInv, Idle, NEW o, NEW k \in Nat, Instances(o, k),
           UNCHANGED <<managers, plugins, externalManagers, stack, destroying>>
    PROVE  FilesSound' /\ UsesSound' /\ FramesSound' /\ LoopSound' /\ (UsersExact => UsersExact')
<1>1. PICK p : p = objects[o]
  OBVIOUS
<1>2. PICK r : r = [p EXCEPT !.instances = k]
  OBVIOUS
<1>3. objects' = [objects EXCEPT ![o] = r]
  BY <1>1, <1>2, Zenon DEF Instances
<1>4. ASSUME o \in DOMAIN objects
      PROVE  /\ r.metadata = objects[o].metadata /\ r.loadState = objects[o].loadState
             /\ r.usedBy = objects[o].usedBy /\ r.uses = objects[o].uses
  <2>1. p = [metadata |-> p.metadata, loadState |-> p.loadState, usedBy |-> p.usedBy,
             uses |-> p.uses, instances |-> p.instances]
    BY <1>1, <1>4, Zenon DEF UsesInv, ManagerInv, Typed, IsPlugin
  <2>2. r = [metadata |-> p.metadata, loadState |-> p.loadState, usedBy |-> p.usedBy,
             uses |-> p.uses, instances |-> k]
    BY <1>2, <2>1, Zenon
  <2>3. /\ r.metadata = p.metadata /\ r.loadState = p.loadState
        /\ r.usedBy = p.usedBy /\ r.uses = p.uses
    BY <2>2
  <2> QED BY <1>1, <2>3, Zenon
<1>5. /\ DOMAIN objects' = DOMAIN objects
      /\ \A q \in DOMAIN objects : objects'[q] = IF q = o THEN r ELSE objects[q]
  BY <1>3, Zenon
<1>6. \A q \in DOMAIN objects : Same(q)
  BY <1>4, <1>5 DEF Same
<1>7. Quiet
  BY <1>5, <1>6 DEF Quiet, Registered, Reaches
<1>8. FilesSound'
  BY <1>5, <1>6 DEF UsesInv, FilesSound, FromFile, Same
<1> QED BY <1>7, <1>8, UsesKept, UsersKept, NoFrames DEF UsesInv, LoopSound, Idle

\* instantiate() adds an instance.
LEMMA InstantiateUses ==
    ASSUME UsesInv, NEW m \in Managers, NEW x, Instantiate(m, x)
    PROVE  FilesSound' /\ UsesSound' /\ FramesSound' /\ LoopSound' /\ (UsersExact => UsersExact')
<1>1. PICK o : o = aliases[m][x]
  OBVIOUS
<1>2. PICK k : k = objects[o].instances + 1
  OBVIOUS
<1>3. /\ Idle /\ x \in DOMAIN aliases[m] /\ Instances(o, k)
      /\ UNCHANGED <<managers, plugins, externalManagers, stack, destroying>>
  BY <1>1, <1>2, Zenon DEF Instantiate
<1>4. o \in DOMAIN objects
  BY <1>1, <1>3, RegisteredType DEF UsesInv, ManagerInv, AliasesLead
<1>5. k \in Nat
  BY <1>2, <1>4 DEF UsesInv, ManagerInv, Typed, IsPlugin
<1> QED BY <1>3, <1>5, InstanceUses

\* The deletion of an instance removes it.
LEMMA DeleteUses ==
    ASSUME UsesInv, NEW o \in DOMAIN objects, DeleteInstance(o)
    PROVE  FilesSound' /\ UsesSound' /\ FramesSound' /\ LoopSound' /\ (UsersExact => UsersExact')
<1>1. PICK k : k = objects[o].instances - 1
  OBVIOUS
<1>2. /\ Idle /\ objects[o].instances > 0 /\ Instances(o, k)
      /\ UNCHANGED <<managers, plugins, externalManagers, stack, destroying>>
  BY <1>1, Zenon DEF DeleteInstance
<1>3. k \in Nat
  BY <1>1, <1>2 DEF UsesInv, ManagerInv, Typed, IsPlugin
<1> QED BY <1>2, <1>3, InstanceUses

\* A manager that nobody needs begins to be destroyed.
LEMMA BeginUses ==
    ASSUME UsesInv, NEW m \in Managers, BeginDestruction(m)
    PROVE  FilesSound' /\ UsesSound' /\ FramesSound' /\ LoopSound' /\ (UsersExact => UsersExact')
<1>1. /\ Alike /\ stack' = <<>> /\ ~Needed(m)
      /\ destroying' = [manager |-> m, left |-> DOMAIN plugins[m], at |-> None]
  BY DEF BeginDestruction, Idle, Alike
<1>2. LoopSound'
  BY <1>1 DEF LoopSound, Needed, Alike
<1> QED BY <1>1, <1>2, AlikeQuiet, NoFrames DEF UsesInv

\* The loop moves on.
LEMMA LoopUses ==
    ASSUME UsesInv, Alike, destroying # None, UNCHANGED stack,
           NEW d, destroying' = d, d.manager = destroying.manager,
           d.left \subseteq destroying.left, d.at # None => d.at \in DOMAIN objects
    PROVE  FilesSound' /\ UsesSound' /\ FramesSound' /\ LoopSound' /\ (UsersExact => UsersExact')
<1>1. stack' = <<>>
  BY DEF UsesInv, ManagerInv, DestructionSound
<1>2. LoopSound'
  BY DEF UsesInv, LoopSound, Needed, Alike
<1> QED BY <1>1, <1>2, AlikeQuiet, NoFrames DEF UsesInv

\* What the loop is at, changed.
LEMMA LoopRecord ==
    ASSUME ManagerInv, destroying # None
    PROVE  destroying = [manager |-> destroying.manager, left |-> destroying.left, at |-> destroying.at]
  BY DEF ManagerInv, DestructionSound

\* The destructor goes to its next plugin.
LEMMA VisitMoves ==
    ASSUME ManagerInv, VisitPlugin
    PROVE  /\ destroying # None /\ destroying.at = None /\ destroying.left # {}
           /\ UNCHANGED stack /\ Alike
           /\ destroying'.manager = destroying.manager
           /\ destroying'.left = destroying.left \ {NextName}
           /\ destroying'.at = plugins[destroying.manager][NextName]
<1>1. PICK left : left = destroying.left \ {NextName}
  OBVIOUS
<1>2. PICK at : at = plugins[destroying.manager][NextName]
  OBVIOUS
<1>3. PICK old : old = destroying
  OBVIOUS
<1>4. /\ destroying # None /\ destroying.at = None /\ destroying.left # {}
      /\ UNCHANGED stack /\ Alike
      /\ destroying' = [old EXCEPT !.left = left, !.at = at]
  BY <1>1, <1>2, <1>3, Zenon DEF VisitPlugin, Alike
<1>5. old = [manager |-> old.manager, left |-> old.left, at |-> old.at]
  BY <1>3, <1>4, LoopRecord, Zenon
<1>6. destroying' = [manager |-> old.manager, left |-> left, at |-> at]
  BY <1>4, <1>5, Zenon
<1>7. destroying'.manager = old.manager /\ destroying'.left = left /\ destroying'.at = at
  BY <1>6
<1> QED BY <1>1, <1>2, <1>3, <1>4, <1>7, Zenon

\* It goes to the first user of the plugin it is at.
LEMMA DescendMoves ==
    ASSUME ManagerInv, DescendToUser
    PROVE  /\ destroying # None /\ destroying.at # None /\ objects[destroying.at].usedBy # <<>>
           /\ UNCHANGED stack /\ Alike
           /\ destroying'.manager = destroying.manager
           /\ destroying'.left = destroying.left
           /\ Head(objects[destroying.at].usedBy) \in DOMAIN plugins[destroying.manager]
           /\ destroying'.at = plugins[destroying.manager][Head(objects[destroying.at].usedBy)]
<1>1. PICK at : at = plugins[destroying.manager][Head(objects[destroying.at].usedBy)]
  OBVIOUS
<1>2. PICK old : old = destroying
  OBVIOUS
<1>3. /\ destroying # None /\ destroying.at # None /\ objects[destroying.at].usedBy # <<>>
      /\ UNCHANGED stack /\ Alike
      /\ Head(objects[destroying.at].usedBy) \in DOMAIN plugins[destroying.manager]
      /\ destroying' = [old EXCEPT !.at = at]
  BY <1>1, <1>2, Zenon DEF DescendToUser, Alike
<1>4. old = [manager |-> old.manager, left |-> old.left, at |-> old.at]
  BY <1>2, <1>3, LoopRecord, Zenon
<1>5. destroying' = [manager |-> old.manager, left |-> old.left, at |-> at]
  BY <1>3, <1>4, Zenon
<1>6. destroying'.manager = old.manager /\ destroying'.left = old.left /\ destroying'.at = at
  BY <1>5
<1> QED BY <1>1, <1>2, <1>3, <1>6, Zenon

\* It unloads the plugin it is at, or leaves a static one.
LEMMA UnloadMoves ==
    ASSUME ManagerInv, UnloadVisited
    PROVE  /\ destroying # None /\ destroying.at # None /\ objects[destroying.at].usedBy = <<>>
           /\ UNCHANGED <<managers, plugins, externalManagers, stack>>
           /\ \/ CanUnload(destroying.at) /\ objects' = Unloaded(destroying.at)
              \/ objects[destroying.at].loadState # "Loaded" /\ UNCHANGED objects
           /\ destroying'.manager = destroying.manager
           /\ destroying'.left = destroying.left
           /\ destroying'.at = None
<1>1. PICK old : old = destroying
  OBVIOUS
<1>2. /\ destroying # None /\ destroying.at # None /\ objects[destroying.at].usedBy = <<>>
      /\ UNCHANGED <<managers, plugins, externalManagers, stack>>
      /\ \/ CanUnload(destroying.at) /\ objects' = Unloaded(destroying.at)
         \/ objects[destroying.at].loadState # "Loaded" /\ UNCHANGED objects
      /\ destroying' = [old EXCEPT !.at = None]
  BY <1>1, Zenon DEF UnloadVisited
<1>3. old = [manager |-> old.manager, left |-> old.left, at |-> old.at]
  BY <1>1, <1>2, LoopRecord, Zenon
<1>4. destroying' = [manager |-> old.manager, left |-> old.left, at |-> None]
  BY <1>2, <1>3, Zenon
<1>5. destroying'.manager = old.manager /\ destroying'.left = old.left /\ destroying'.at = None
  BY <1>4
<1> QED BY <1>1, <1>2, <1>5, Zenon

\* The next plugin is one that is left.
LEMMA NextNameFacts ==
    ASSUME UsesInv, destroying # None, destroying.left # {}
    PROVE  /\ NextName \in destroying.left
           /\ NextName \in DOMAIN plugins[destroying.manager]
           /\ destroying.manager \in Managers
           /\ destroying.left \in SUBSET Nat
<1>1. destroying.manager \in Managers
  BY DEF UsesInv, ManagerInv, DestructionSound
<1>2. destroying.left \subseteq DOMAIN plugins[destroying.manager]
  BY DEF UsesInv, LoopSound
<1>3. destroying.left \in SUBSET Nat
  BY <1>1, <1>2, RegisteredType, PluginManagerAssumption DEF UsesInv, ManagerInv
<1> QED BY <1>1, <1>2, <1>3, MinIsMember DEF NextName

\* None of this changes what plugins use: going to the next one,
LEMMA VisitUses ==
    ASSUME UsesInv, VisitPlugin
    PROVE  FilesSound' /\ UsesSound' /\ FramesSound' /\ LoopSound' /\ (UsersExact => UsersExact')
<1>1. PICK d : d = destroying'
  OBVIOUS
<1>2. /\ destroying # None /\ UNCHANGED stack /\ Alike /\ d.manager = destroying.manager
      /\ destroying.left # {} /\ d.left \subseteq destroying.left
      /\ d.at = plugins[destroying.manager][NextName]
  BY <1>1, VisitMoves DEF UsesInv
<1>3. d.at \in DOMAIN objects
  BY <1>2, NextNameFacts DEF UsesInv, ManagerInv, RegistrySound
<1> QED BY <1>1, <1>2, <1>3, LoopUses

\* going to a user,
LEMMA DescendUserUses ==
    ASSUME UsesInv, DescendToUser
    PROVE  FilesSound' /\ UsesSound' /\ FramesSound' /\ LoopSound' /\ (UsersExact => UsersExact')
<1>1. PICK d : d = destroying'
  OBVIOUS
<1>2. /\ destroying # None /\ UNCHANGED stack /\ Alike /\ d.manager = destroying.manager
      /\ d.left = destroying.left
      /\ Head(objects[destroying.at].usedBy) \in DOMAIN plugins[destroying.manager]
      /\ d.at = plugins[destroying.manager][Head(objects[destroying.at].usedBy)]
  BY <1>1, DescendMoves DEF UsesInv
<1>3. d.at \in DOMAIN objects
  BY <1>2 DEF UsesInv, ManagerInv, RegistrySound, DestructionSound
<1> QED BY <1>1, <1>2, <1>3, LoopUses

\* or doing nothing.
LEMMA StutterUses ==
    ASSUME UsesInv, UNCHANGED vars
    PROVE  FilesSound' /\ UsesSound' /\ FramesSound' /\ LoopSound' /\ (UsersExact => UsersExact')
<1>1. Alike /\ UNCHANGED <<stack, destroying>>
  BY DEF vars, Alike
<1>2. FramesSound'
  <2>1. ASSUME NEW i \in 1 .. Len(stack')
        PROVE  FrameSound(stack[i])'
    <3>1. PICK f : f = stack'[i]
      OBVIOUS
    <3>2. FrameSound(f)
      BY <1>1, <3>1 DEF UsesInv, FramesSound
    <3>3. FrameSound(f)'
      BY <1>1, <3>2, AlikeQuiet DEF UsesInv
    <3> QED BY <3>1, <3>3 DEF FrameSound
  <2>2. (stack # <<>> =>
            LET o == stack[1].object IN
            ~Registered(o) /\ o.name \in DOMAIN plugins[o.manager] =>
                ~IsLoaded(plugins[o.manager][o.name]))'
    BY <1>1 DEF UsesInv, FramesSound, Alike, Registered, IsLoaded
  <2>3. \A i, j \in 1 .. Len(stack') :
            i < j => Rank[stack'[j].object.name] < Rank[stack'[i].object.name]
    BY <1>1 DEF UsesInv, FramesSound
  <2> QED BY <2>1, <2>2, <2>3 DEF FramesSound
<1>3. LoopSound'
  BY <1>1 DEF UsesInv, LoopSound, Needed, Alike
<1> QED BY <1>1, <1>2, <1>3, AlikeQuiet DEF UsesInv

-----------------------------------------------------------------------------
\* unload(), also by the destructor, and the end of a manager.

\* A sequence without the first of its elements that are e.
LEMMA FirstRemoved ==
    ASSUME NEW S, NEW s \in Seq(S), NEW e, NEW r, r = RemoveFirst(s, e)
    PROVE  /\ r \in Seq(S)
           /\ ToSet(s) \ {e} \subseteq ToSet(r)
           /\ ToSet(r) \subseteq ToSet(s)
           /\ IsInjective(s) => IsInjective(r) /\ e \notin ToSet(r)
<1> DEFINE n == Len(s)
           I == {i \in 1 .. n : s[i] = e}
<1>0. n \in Nat /\ DOMAIN s = 1 .. n
  BY LenProperties
<1>1. CASE I = {}
  <2>1. r = s
    BY <1>1 DEF RemoveFirst
  <2> QED BY <1>0, <1>1, <2>1 DEF ToSet
<1>2. CASE I # {}
  <2>1. PICK k : k = Min(I)
    OBVIOUS
  <2>2. k \in 1 .. n /\ s[k] = e
    <3>1. I \in SUBSET Nat
      BY <1>0
    <3>2. Min(I) \in I
      BY <1>2, <3>1, MinIsMember
    <3> QED BY <2>1, <3>2
  <2>3. r = SubSeq(s, 1, k - 1) \o SubSeq(s, k + 1, n)
    <3>1. \E i \in 1 .. n : s[i] = e
      BY <1>2
    <3>2. r = RemoveAt(s, k)
      BY <1>2, <2>1, <3>1 DEF RemoveFirst, SelectInSeq
    <3> QED BY <3>2 DEF RemoveAt
  <2>4. PICK x : x = SubSeq(s, 1, k - 1)
    OBVIOUS
  <2>5. PICK y : y = SubSeq(s, k + 1, n)
    OBVIOUS
  <2>6. x \in Seq(S) /\ Len(x) = k - 1 /\ \A i \in 1 .. k - 1 : x[i] = s[i]
    <3>1. \A i \in 1 .. k - 1 : s[i] \in S
      BY <1>0, <2>2, ElementOfSeq
    <3>2. /\ x \in Seq(S) /\ Len(x) = IF 1 <= k - 1 THEN (k - 1) - 1 + 1 ELSE 0
          /\ \A i \in 1 .. (k - 1) - 1 + 1 : x[i] = s[1 + i - 1]
      BY <1>0, <2>2, <2>4, <3>1, SubSeqProperties
    <3> QED BY <1>0, <2>2, <3>2
  <2>7. y \in Seq(S) /\ Len(y) = n - k /\ \A i \in 1 .. n - k : y[i] = s[k + i]
    <3>1. \A i \in k + 1 .. n : s[i] \in S
      BY <1>0, <2>2, ElementOfSeq
    <3>2. /\ y \in Seq(S) /\ Len(y) = IF k + 1 <= n THEN n - (k + 1) + 1 ELSE 0
          /\ \A i \in 1 .. n - (k + 1) + 1 : y[i] = s[(k + 1) + i - 1]
      BY <1>0, <2>2, <2>5, <3>1, SubSeqProperties
    <3>3. n - (k + 1) + 1 = n - k
      BY <1>0, <2>2
    <3>4. Len(y) = n - k
      <4>1. Len(y) = IF k + 1 <= n THEN n - k ELSE 0
        BY <3>2, <3>3
      <4>2. k \in Nat /\ k <= n
        BY <1>0, <2>2
      <4> HIDE DEF n
      <4> QED BY <1>0, <4>1, <4>2
    <3>5. ASSUME NEW i \in 1 .. n - k
          PROVE  y[i] = s[k + i]
      <4>1. (k + 1) + i - 1 = k + i
        BY <1>0, <2>2
      <4>2. y[i] = s[(k + 1) + i - 1]
        BY <3>2, <3>3
      <4> QED BY <4>1, <4>2
    <3> QED BY <3>2, <3>4, <3>5
  <2>8. /\ r \in Seq(S) /\ Len(r) = n - 1
        /\ \A i \in 1 .. n - 1 : r[i] = IF i < k THEN s[i] ELSE s[i + 1]
    <3>1. /\ r \in Seq(S) /\ Len(r) = Len(x) + Len(y)
          /\ \A i \in 1 .. Len(x) + Len(y) : r[i] = IF i <= Len(x) THEN x[i] ELSE y[i - Len(x)]
      BY <2>3, <2>4, <2>5, <2>6, <2>7, ConcatProperties
    <3>2. Len(x) + Len(y) = n - 1
      BY <1>0, <2>2, <2>6, <2>7
    <3>3. ASSUME NEW i \in 1 .. n - 1
          PROVE  r[i] = IF i < k THEN s[i] ELSE s[i + 1]
      <4>1. CASE i < k
        BY <1>0, <2>2, <2>6, <3>1, <3>2, <4>1
      <4>2. CASE ~(i < k)
        <5>1. i - Len(x) \in 1 .. n - k /\ k + (i - Len(x)) = i + 1 /\ ~(i <= Len(x))
          BY <1>0, <2>2, <2>6, <4>2
        <5> QED BY <2>7, <3>1, <3>2, <4>2, <5>1
      <4> QED BY <4>1, <4>2
    <3> QED BY <3>1, <3>2, <3>3
  <2>9. DOMAIN r = 1 .. n - 1
    BY <2>8, LenProperties
  <2>10. ASSUME NEW i \in 1 .. n, s[i] # e
         PROVE  s[i] \in ToSet(r)
    <3>1. CASE i < k
      BY <1>0, <2>2, <2>8, <2>9, <3>1 DEF ToSet
    <3>2. CASE i > k
      <4>1. i - 1 \in 1 .. n - 1 /\ ~(i - 1 < k) /\ (i - 1) + 1 = i
        BY <1>0, <2>2, <3>2
      <4>2. r[i - 1] = s[i]
        BY <2>8, <4>1
      <4> QED BY <2>9, <4>1, <4>2 DEF ToSet
    <3> QED BY <1>0, <2>2, <2>10, <3>1, <3>2
  <2>11. \A i \in 1 .. n - 1 : \E j \in 1 .. n : j # k /\ r[i] = s[j] /\ j = IF i < k THEN i ELSE i + 1
    BY <1>0, <2>2, <2>8
  <2>12. ToSet(r) \subseteq ToSet(s)
    BY <1>0, <2>9, <2>11 DEF ToSet
  <2>13. ToSet(s) \ {e} \subseteq ToSet(r)
    BY <1>0, <2>10 DEF ToSet
  <2>14. ASSUME IsInjective(s)
         PROVE  IsInjective(r) /\ e \notin ToSet(r)
    <3>1. ASSUME NEW i \in 1 .. n - 1, NEW j \in 1 .. n - 1, r[i] = r[j]
          PROVE  i = j
      <4>1. (IF i < k THEN i ELSE i + 1) = (IF j < k THEN j ELSE j + 1)
        BY <1>0, <2>11, <2>14, <3>1 DEF IsInjective
      <4> QED BY <1>0, <2>2, <4>1
    <3>2. \A i \in 1 .. n - 1 : r[i] # e
      BY <1>0, <2>2, <2>11, <2>14 DEF IsInjective
    <3> QED BY <2>9, <3>1, <3>2 DEF IsInjective, ToSet
  <2> QED BY <2>8, <2>12, <2>13, <2>14
<1> QED BY <1>1, <1>2

\* What unloading o leaves.
LEMMA UnloadedContent ==
    ASSUME Typed, NEW o \in DOMAIN objects
    PROVE  /\ DOMAIN Unloaded(o) = DOMAIN objects
           /\ \A q \in DOMAIN objects :
                /\ Unloaded(o)[q].metadata = objects[q].metadata
                /\ Unloaded(o)[q].loadState = IF q = o THEN "NotLoaded" ELSE objects[q].loadState
                /\ Unloaded(o)[q].uses = IF q = o THEN {} ELSE objects[q].uses
                /\ Unloaded(o)[q].usedBy =
                        IF q # o /\ q \in Dependencies(o) THEN RemoveFirst(objects[q].usedBy, o.name)
                        ELSE objects[q].usedBy
<1>1. DOMAIN Unloaded(o) = DOMAIN objects
  BY Zenon DEF Unloaded
<1>2. ASSUME NEW q \in DOMAIN objects
      PROVE  /\ Unloaded(o)[q].metadata = objects[q].metadata
             /\ Unloaded(o)[q].loadState = IF q = o THEN "NotLoaded" ELSE objects[q].loadState
             /\ Unloaded(o)[q].uses = IF q = o THEN {} ELSE objects[q].uses
             /\ Unloaded(o)[q].usedBy =
                     IF q # o /\ q \in Dependencies(o) THEN RemoveFirst(objects[q].usedBy, o.name)
                     ELSE objects[q].usedBy
  <2>1. PICK p : p = objects[q]
    OBVIOUS
  <2>2. PICK r : r = Unloaded(o)[q]
    OBVIOUS
  <2>3. PICK users : users = RemoveFirst(p.usedBy, o.name)
    OBVIOUS
  <2>4. p = [metadata |-> p.metadata, loadState |-> p.loadState, usedBy |-> p.usedBy,
             uses |-> p.uses, instances |-> p.instances]
    BY <2>1, Zenon DEF Typed, IsPlugin
  <2>5. CASE q = o
    <3>1. r = [p EXCEPT !.loadState = "NotLoaded", !.uses = {}, !.instances = 0]
      BY <2>1, <2>2, <2>5, Zenon DEF Unloaded
    <3>2. r = [metadata |-> p.metadata, loadState |-> "NotLoaded", usedBy |-> p.usedBy,
               uses |-> {}, instances |-> 0]
      BY <2>4, <3>1, Zenon
    <3>3. /\ r.metadata = p.metadata /\ r.loadState = "NotLoaded"
          /\ r.uses = {} /\ r.usedBy = p.usedBy
      BY <3>2
    <3> QED BY <2>1, <2>2, <2>5, <3>3, Zenon
  <2>6. CASE q # o /\ q \in Dependencies(o)
    <3>1. r = [p EXCEPT !.usedBy = users]
      BY <2>1, <2>2, <2>3, <2>6, Zenon DEF Unloaded
    <3>2. r = [metadata |-> p.metadata, loadState |-> p.loadState, usedBy |-> users,
               uses |-> p.uses, instances |-> p.instances]
      BY <2>4, <3>1, Zenon
    <3>3. /\ r.metadata = p.metadata /\ r.loadState = p.loadState
          /\ r.uses = p.uses /\ r.usedBy = users
      BY <3>2
    <3> QED BY <2>1, <2>2, <2>3, <2>6, <3>3, Zenon
  <2>7. CASE q # o /\ q \notin Dependencies(o)
    <3>1. r = p
      BY <2>1, <2>2, <2>7, Zenon DEF Unloaded
    <3> QED BY <2>1, <2>2, <2>7, <3>1, Zenon
  <2> QED BY <2>5, <2>6, <2>7
<1> QED BY <1>1, <1>2

\* Nobody uses what is unloaded, and nobody else has its name.
LEMMA UnloadUses ==
    ASSUME NamesDistinct, UsesInv, NEW o \in DOMAIN objects, CanUnload(o), objects' = Unloaded(o),
           UNCHANGED <<managers, plugins, externalManagers>>, stack' = <<>>
    PROVE  FilesSound' /\ UsesSound' /\ FramesSound' /\ (UsersExact => UsersExact')
<1>1. /\ DOMAIN objects' = DOMAIN objects
      /\ \A q \in DOMAIN objects :
            /\ objects'[q].metadata = objects[q].metadata
            /\ objects'[q].loadState = IF q = o THEN "NotLoaded" ELSE objects[q].loadState
            /\ objects'[q].uses = IF q = o THEN {} ELSE objects[q].uses
            /\ objects'[q].usedBy =
                    IF q # o /\ q \in Dependencies(o) THEN RemoveFirst(objects[q].usedBy, o.name)
                    ELSE objects[q].usedBy
  BY UnloadedContent DEF UsesInv, ManagerInv
<1>2. /\ objects[o].loadState = "Loaded" /\ objects[o].usedBy = <<>>
      /\ Registered(o) /\ Dependencies(o) = objects[o].uses
  BY DependenciesAreUses DEF CanUnload, UsesInv, UsesSound, IsLoaded
<1>3. \A q \in DOMAIN objects : objects[q].usedBy \in Seq(Names)
  BY DEF UsesInv, UsesSound
<1>4. ASSUME NEW q \in DOMAIN objects
      PROVE  /\ objects'[q].usedBy \in Seq(Names)
             /\ ToSet(objects[q].usedBy) \ {o.name} \subseteq ToSet(objects'[q].usedBy)
             /\ ToSet(objects'[q].usedBy) \subseteq ToSet(objects[q].usedBy)
             /\ IsInjective(objects[q].usedBy) => IsInjective(objects'[q].usedBy)
             /\ IsInjective(objects[q].usedBy) /\ q # o /\ q \in objects[o].uses =>
                    o.name \notin ToSet(objects'[q].usedBy)
  <2>1. CASE q # o /\ q \in Dependencies(o)
    <3>1. objects'[q].usedBy = RemoveFirst(objects[q].usedBy, o.name)
      BY <1>1, <2>1
    <3>2. PICK s \in Seq(Names) : s = objects[q].usedBy
      BY <1>3
    <3>3. PICK r : r = RemoveFirst(s, o.name)
      OBVIOUS
    <3>4. /\ r \in Seq(Names)
          /\ ToSet(s) \ {o.name} \subseteq ToSet(r)
          /\ ToSet(r) \subseteq ToSet(s)
          /\ IsInjective(s) => IsInjective(r) /\ o.name \notin ToSet(r)
      BY <3>3, FirstRemoved
    <3>5. objects'[q].usedBy = r
      BY <3>1, <3>2, <3>3
    <3> QED BY <3>2, <3>4, <3>5
  <2>2. CASE ~(q # o /\ q \in Dependencies(o))
    BY <1>1, <1>2, <1>3, <2>2
  <2> QED BY <2>1, <2>2
\* Whoever uses a plugin is another one, of another name, and uses another one.
<1>5. ASSUME NEW p \in DOMAIN objects, p # o, NEW q \in objects[p].uses
      PROVE  /\ q \in DOMAIN objects /\ q # o /\ p.name # o.name
             /\ Serves(q, p.manager) /\ p.name \in ToSet(objects[q].usedBy)
  <2>1. Serves(q, p.manager) /\ p.name \in ToSet(objects[q].usedBy)
    BY DEF UsesInv, UsesSound
  <2>2. q # o
    BY <1>2, <2>1 DEF ToSet
  <2>3. Registered(p)
    BY <1>5 DEF UsesInv, UsesSound, IsLoaded
  <2>4. p.name # o.name
    BY <1>2, <1>5, <2>3, OneOfName DEF UsesInv
  <2> QED BY <2>1, <2>2, <2>4 DEF Serves
<1>6. FilesSound'
  BY <1>1, <1>2 DEF UsesInv, FilesSound, FromFile
<1>7. UsesSound'
  <2> SUFFICES ASSUME NEW p \in DOMAIN objects'
               PROVE  /\ objects'[p].usedBy \in Seq(Names)
                      /\ IsLoaded(p)' => Registered(p)'
                      /\ IF objects'[p].loadState = "Loaded"
                         THEN NamesIn(objects'[p].uses) = ToSet(objects'[p].metadata.depends)
                         ELSE objects'[p].uses = {}
                      /\ \A q \in objects'[p].uses :
                              Serves(q, p.manager)' /\ p.name \in ToSet(objects'[q].usedBy)
    BY DEF UsesSound
  <2>1. p \in DOMAIN objects /\ objects'[p].usedBy \in Seq(Names)
    BY <1>1, <1>4
  <2>2. CASE p = o
    BY <1>1, <2>1, <2>2 DEF IsLoaded
  <2>3. CASE p # o
    <3>1. IsLoaded(p)' => Registered(p)'
      BY <1>1, <2>1, <2>3 DEF UsesInv, UsesSound, IsLoaded, Registered
    <3>2. IF objects'[p].loadState = "Loaded"
          THEN NamesIn(objects'[p].uses) = ToSet(objects'[p].metadata.depends)
          ELSE objects'[p].uses = {}
      BY <1>1, <2>1, <2>3 DEF UsesInv, UsesSound
    <3>3. ASSUME NEW q \in objects[p].uses
          PROVE  Serves(q, p.manager)' /\ p.name \in ToSet(objects'[q].usedBy)
      <4>1. /\ q \in DOMAIN objects /\ q # o /\ p.name # o.name
            /\ Serves(q, p.manager) /\ p.name \in ToSet(objects[q].usedBy)
        BY <1>5, <2>1, <2>3
      <4>2. p.name \in ToSet(objects'[q].usedBy)
        BY <1>4, <4>1
      <4>3. objects'[q].loadState = objects[q].loadState
        BY <1>1, <4>1
      <4>4. Serves(q, p.manager)'
        BY <1>1, <4>1, <4>3 DEF Serves, Registered, IsLoaded, Reaches
      <4> QED BY <4>2, <4>4
    <3>4. objects'[p].uses = objects[p].uses
      BY <1>1, <2>1, <2>3
    <3> QED BY <2>1, <3>1, <3>2, <3>3, <3>4
  <2> QED BY <2>2, <2>3
<1>8. ASSUME UsersExact
      PROVE  UsersExact'
  <2> SUFFICES ASSUME NEW q \in DOMAIN objects'
               PROVE  /\ IsInjective(objects'[q].usedBy)
                      /\ \A n \in ToSet(objects'[q].usedBy) :
                              \E p \in DOMAIN objects' : p.name = n /\ q \in objects'[p].uses
    BY DEF UsersExact
  <2>1. q \in DOMAIN objects /\ IsInjective(objects[q].usedBy)
    BY <1>1, <1>8 DEF UsersExact
  <2>2. ASSUME NEW n \in ToSet(objects'[q].usedBy)
        PROVE  \E p \in DOMAIN objects' : p.name = n /\ q \in objects'[p].uses
    <3>1. n \in ToSet(objects[q].usedBy)
      BY <1>4, <2>1
    <3>2. PICK p \in DOMAIN objects : p.name = n /\ q \in objects[p].uses
      BY <1>8, <2>1, <3>1 DEF UsersExact
    <3>3. q # o
      BY <1>2, <3>1 DEF ToSet
    <3>4. p # o
      BY <1>4, <2>1, <2>2, <3>2, <3>3
    <3> QED BY <1>1, <3>2, <3>4
  <2> QED BY <1>4, <2>1, <2>2
<1> QED BY <1>6, <1>7, <1>8, NoFrames

\* unload() of a plugin that nobody uses.
LEMMA UnloadCallUses ==
    ASSUME NamesDistinct, UsesInv, NEW m \in Managers, NEW x, Unload(m, x)
    PROVE  FilesSound' /\ UsesSound' /\ FramesSound' /\ LoopSound' /\ (UsersExact => UsersExact')
<1>1. PICK o : o = aliases[m][x]
  OBVIOUS
<1>2. /\ x \in DOMAIN aliases[m] /\ CanUnload(o) /\ objects' = Unloaded(o)
      /\ UNCHANGED <<managers, plugins, externalManagers>>
      /\ stack' = <<>> /\ destroying' = None
  BY <1>1, Zenon DEF Unload, Idle
<1>3. o \in DOMAIN objects
  BY <1>1, <1>2, RegisteredType DEF UsesInv, ManagerInv, AliasesLead
<1> QED BY <1>2, <1>3, UnloadUses DEF LoopSound

\* The same, by the destructor.
LEMMA UnloadVisitedUses ==
    ASSUME NamesDistinct, UsesInv, UnloadVisited
    PROVE  FilesSound' /\ UsesSound' /\ FramesSound' /\ LoopSound' /\ (UsersExact => UsersExact')
<1>1. PICK d : d = destroying'
  OBVIOUS
<1>2. PICK o : o = destroying.at
  OBVIOUS
<1>3. /\ destroying # None /\ o # None
      /\ UNCHANGED <<managers, plugins, externalManagers, stack>>
      /\ \/ CanUnload(o) /\ objects' = Unloaded(o)
         \/ UNCHANGED objects
      /\ d.manager = destroying.manager /\ d.left = destroying.left /\ d.at = None
  BY <1>1, <1>2, UnloadMoves DEF UsesInv
<1>4. stack = <<>> /\ o \in DOMAIN objects
  BY <1>2, <1>3 DEF UsesInv, ManagerInv, DestructionSound, LoopSound
<1>5. CASE UNCHANGED objects
  BY <1>1, <1>3, <1>5, LoopUses DEF Alike
<1>6. CASE CanUnload(o) /\ objects' = Unloaded(o)
  <2>1. FilesSound' /\ UsesSound' /\ FramesSound' /\ (UsersExact => UsersExact')
    BY <1>3, <1>4, <1>6, UnloadUses
  <2>2. LoopSound'
    BY <1>1, <1>3 DEF UsesInv, LoopSound, Needed
  <2> QED BY <2>1, <2>2
<1> QED BY <1>3, <1>5, <1>6

\* Nobody uses the plugins of a manager that is gone.
LEMMA EndUses ==
    ASSUME UsesInv, EndDestruction
    PROVE  /\ FilesSound' /\ UsesSound' /\ FramesSound' /\ LoopSound'
           /\ UsersExact /\ VisitedUnloaded => UsersExact'
<1>1. PICK m : m = destroying.manager
  OBVIOUS
<1>2. PICK empty : empty = <<>> /\ DOMAIN empty = {}
  OBVIOUS
<1>3. /\ destroying # None /\ destroying.at = None /\ destroying.left = {}
      /\ destroying' = None /\ UNCHANGED stack
      /\ managers' = managers \ {m}
      /\ plugins' = [plugins EXCEPT ![m] = empty]
      /\ externalManagers' = [externalManagers EXCEPT ![m] = {}]
      /\ DOMAIN objects' = {o \in DOMAIN objects : o.manager # m}
      /\ \A o \in DOMAIN objects' : objects'[o] = objects[o]
  BY <1>1, <1>2 DEF EndDestruction, Restrict
<1>4. stack = <<>> /\ m \in Managers /\ ~Needed(m)
  BY <1>1, <1>3 DEF UsesInv, ManagerInv, DestructionSound, LoopSound
<1>5. \A k \in Managers : k # m =>
            plugins'[k] = plugins[k] /\ externalManagers'[k] = externalManagers[k]
  BY <1>3, <1>4 DEF UsesInv, ManagerInv, Typed
<1>6. ASSUME NEW o \in DOMAIN objects, o.manager # m
      PROVE  /\ o \in DOMAIN objects' /\ objects'[o] = objects[o] /\ o.manager \in Managers
             /\ Registered(o) => Registered(o)'
  <2>1. o.manager \in Managers
    BY DEF UsesInv, ManagerInv, Typed, Objects
  <2> QED BY <1>3, <1>5, <1>6, <2>1 DEF Registered
<1>7. FilesSound'
  <2>1. \A o \in DOMAIN objects' : FromFile(o)'
    BY <1>3 DEF UsesInv, FilesSound, FromFile
  <2>2. \A k \in managers' : k \in managers /\ k \in Managers /\ k # m
    BY <1>3 DEF UsesInv, ManagerInv, Typed
  <2> QED BY <1>5, <2>1, <2>2 DEF UsesInv, FilesSound
<1>8. UsesSound'
  <2> SUFFICES ASSUME NEW o \in DOMAIN objects'
               PROVE  /\ objects'[o].usedBy \in Seq(Names)
                      /\ IsLoaded(o)' => Registered(o)'
                      /\ IF objects'[o].loadState = "Loaded"
                         THEN NamesIn(objects'[o].uses) = ToSet(objects'[o].metadata.depends)
                         ELSE objects'[o].uses = {}
                      /\ \A q \in objects'[o].uses :
                              Serves(q, o.manager)' /\ o.name \in ToSet(objects'[q].usedBy)
    BY DEF UsesSound
  <2>1. /\ o \in DOMAIN objects /\ o.manager # m /\ objects'[o] = objects[o]
        /\ o.manager \in Managers /\ (Registered(o) => Registered(o)')
    BY <1>3, <1>6
  <2>2. /\ objects[o].usedBy \in Seq(Names)
        /\ IsLoaded(o) => Registered(o)
        /\ IF objects[o].loadState = "Loaded"
           THEN NamesIn(objects[o].uses) = ToSet(objects[o].metadata.depends)
           ELSE objects[o].uses = {}
        /\ \A q \in objects[o].uses :
                Serves(q, o.manager) /\ o.name \in ToSet(objects[q].usedBy)
    BY <2>1 DEF UsesInv, UsesSound
  <2>3. ASSUME NEW q \in objects[o].uses
        PROVE  Serves(q, o.manager)' /\ o.name \in ToSet(objects'[q].usedBy)
    <3>1. Serves(q, o.manager) /\ o.name \in ToSet(objects[q].usedBy)
      BY <2>2
    <3>2. q.manager # m
      <4>1. Registered(o)
        BY <2>2 DEF IsLoaded
      <4>2. o.manager \in managers
        BY <2>1, <4>1 DEF UsesInv, ManagerInv, NothingBefore, Registered
      <4> QED BY <1>4, <2>1, <3>1, <4>2 DEF Serves, Reaches, Needed
    <3>3. q \in DOMAIN objects' /\ objects'[q] = objects[q] /\ Registered(q)'
      BY <1>6, <3>1, <3>2 DEF Serves
    <3>4. Reaches(o.manager, q.manager)'
      BY <1>5, <2>1, <3>1 DEF Serves, Reaches
    <3> QED BY <3>1, <3>3, <3>4 DEF Serves, IsLoaded
  <2>4. IsLoaded(o)' => Registered(o)'
    BY <2>1, <2>2 DEF IsLoaded
  <2> QED BY <2>1, <2>2, <2>3, <2>4
<1>9. ASSUME UsersExact, VisitedUnloaded
      PROVE  UsersExact'
  <2> SUFFICES ASSUME NEW q \in DOMAIN objects'
               PROVE  /\ IsInjective(objects'[q].usedBy)
                      /\ \A n \in ToSet(objects'[q].usedBy) :
                              \E o \in DOMAIN objects' : o.name = n /\ q \in objects'[o].uses
    BY DEF UsersExact
  <2>1. q \in DOMAIN objects /\ objects'[q] = objects[q] /\ IsInjective(objects[q].usedBy)
    BY <1>3, <1>9 DEF UsersExact
  <2>2. ASSUME NEW n \in ToSet(objects[q].usedBy)
        PROVE  \E o \in DOMAIN objects' : o.name = n /\ q \in objects'[o].uses
    <3>1. PICK o \in DOMAIN objects : o.name = n /\ q \in objects[o].uses
      BY <1>9, <2>1 DEF UsersExact
    <3>2. objects[o].loadState = "Loaded"
      BY <3>1 DEF UsesInv, UsesSound
    <3>3. o.manager # m
      BY <1>1, <1>3, <1>9, <3>2 DEF VisitedUnloaded
    <3> QED BY <1>6, <3>1, <3>3
  <2> QED BY <2>1, <2>2
<1>10. stack' = <<>> /\ LoopSound'
  BY <1>3, <1>4 DEF LoopSound
<1> QED BY <1>7, <1>8, <1>9, <1>10, NoFrames

-----------------------------------------------------------------------------
\* Opening modules.

\* A sequence with one element more.
LEMMA Appended ==
    ASSUME NEW S, NEW s \in Seq(S), NEW e \in S
    PROVE  /\ Append(s, e) \in Seq(S)
           /\ ToSet(Append(s, e)) = ToSet(s) \cup {e}
           /\ IsInjective(s) /\ e \notin ToSet(s) => IsInjective(Append(s, e))
<1>0. PICK r : r = Append(s, e)
  OBVIOUS
<1>1. Len(s) \in Nat /\ DOMAIN s = 1 .. Len(s)
  BY LenProperties
<1>2. /\ r \in Seq(S) /\ Len(r) = Len(s) + 1
      /\ \A i \in 1 .. Len(s) : r[i] = s[i]
      /\ r[Len(s) + 1] = e
  BY <1>0, AppendProperties
<1>3. DOMAIN r = 1 .. Len(s) + 1
  BY <1>2, LenProperties
<1>4. ToSet(r) = ToSet(s) \cup {e}
  <2>1. ASSUME NEW i \in DOMAIN r
        PROVE  r[i] \in ToSet(s) \cup {e}
    BY <1>1, <1>2, <1>3 DEF ToSet
  <2>2. ASSUME NEW i \in DOMAIN s
        PROVE  s[i] \in ToSet(r)
    <3>1. i \in DOMAIN r /\ r[i] = s[i]
      BY <1>1, <1>2, <1>3
    <3> QED BY <3>1 DEF ToSet
  <2>3. e \in ToSet(r)
    <3>1. Len(s) + 1 \in DOMAIN r
      BY <1>1, <1>3
    <3> QED BY <1>2, <3>1 DEF ToSet
  <2> QED BY <2>1, <2>2, <2>3 DEF ToSet
<1>5. ASSUME IsInjective(s), e \notin ToSet(s)
      PROVE  IsInjective(r)
  <2>1. \A i \in 1 .. Len(s) : s[i] # e
    BY <1>1, <1>5 DEF ToSet
  <2>2. ASSUME NEW i \in 1 .. Len(s) + 1, NEW j \in 1 .. Len(s) + 1, r[i] = r[j]
        PROVE  i = j
    <3>1. CASE i \in 1 .. Len(s) /\ j \in 1 .. Len(s)
      BY <1>1, <1>2, <1>5, <2>2, <3>1 DEF IsInjective
    <3>2. CASE i = Len(s) + 1 /\ j \in 1 .. Len(s)
      BY <1>2, <2>1, <2>2, <3>2
    <3>3. CASE i \in 1 .. Len(s) /\ j = Len(s) + 1
      BY <1>2, <2>1, <2>2, <3>3
    <3> QED BY <1>1, <3>1, <3>2, <3>3
  <2> QED BY <1>3, <2>2 DEF IsInjective
<1> QED BY <1>0, <1>2, <1>4, <1>5

\* What linking o to what was found makes of the objects.
LEMMA LinkedContent ==
    ASSUME Typed, NEW o, NEW found
    PROVE  \A q \in DOMAIN objects :
                /\ Linked(o, found)[q].uses = IF q = o THEN found ELSE objects[q].uses
                /\ Linked(o, found)[q].usedBy =
                        IF q # o /\ q \in found THEN Append(objects[q].usedBy, o.name)
                        ELSE objects[q].usedBy
<1>1. ASSUME NEW q \in DOMAIN objects
      PROVE  /\ Linked(o, found)[q].uses = IF q = o THEN found ELSE objects[q].uses
             /\ Linked(o, found)[q].usedBy =
                     IF q # o /\ q \in found THEN Append(objects[q].usedBy, o.name)
                     ELSE objects[q].usedBy
  <2>1. PICK p : p = objects[q]
    OBVIOUS
  <2>2. PICK r : r = Linked(o, found)[q]
    OBVIOUS
  <2>3. PICK users : users = Append(p.usedBy, o.name)
    OBVIOUS
  <2>4. p = [metadata |-> p.metadata, loadState |-> p.loadState, usedBy |-> p.usedBy,
             uses |-> p.uses, instances |-> p.instances]
    BY <2>1, Zenon DEF Typed, IsPlugin
  <2>5. CASE q = o
    <3>1. r = [p EXCEPT !.loadState = "Loaded", !.uses = found]
      BY <2>1, <2>2, <2>5, Zenon DEF Linked
    <3>2. r = [metadata |-> p.metadata, loadState |-> "Loaded", usedBy |-> p.usedBy,
               uses |-> found, instances |-> p.instances]
      BY <2>4, <3>1, Zenon
    <3>3. r.uses = found /\ r.usedBy = p.usedBy
      BY <3>2
    <3> QED BY <2>1, <2>2, <2>5, <3>3, Zenon
  <2>6. CASE q # o /\ q \in found
    <3>1. r = [p EXCEPT !.usedBy = users]
      BY <2>1, <2>2, <2>3, <2>6, Zenon DEF Linked
    <3>2. r = [metadata |-> p.metadata, loadState |-> p.loadState, usedBy |-> users,
               uses |-> p.uses, instances |-> p.instances]
      BY <2>4, <3>1, Zenon
    <3>3. r.uses = p.uses /\ r.usedBy = users
      BY <3>2
    <3> QED BY <2>1, <2>2, <2>3, <2>6, <3>3, Zenon
  <2>7. CASE q # o /\ q \notin found
    <3>1. r = p
      BY <2>1, <2>2, <2>7, Zenon DEF Linked
    <3> QED BY <2>1, <2>2, <2>7, <3>1, Zenon
  <2> QED BY <2>5, <2>6, <2>7
<1> QED BY <1>1

\* o was linked to what it depends on; whoever goes, and it stays unregistered,
\* is not loaded.
LinksSound(o, found) ==
    /\ o \in DOMAIN objects
    /\ objects[o].loadState = "NotLoaded"
    /\ NamesIn(found) = ToSet(objects[o].metadata.depends)
    /\ \A q \in found : Serves(q, o.manager)

LinkStep(o, found) ==
    /\ UNCHANGED <<managers, externalManagers>>
    /\ DOMAIN objects' \subseteq DOMAIN objects
    /\ \A q \in DOMAIN objects' : objects'[q] = Linked(o, found)[q]
    /\ o \in DOMAIN objects' /\ Registered(o)'
    /\ \A q \in DOMAIN objects : IsLoaded(q) /\ Registered(q) => q \in DOMAIN objects' /\ Registered(q)'

\* The objects after linking.
LEMMA LinkStepFacts ==
    ASSUME UsesInv, NEW o, NEW found, LinksSound(o, found), LinkStep(o, found)
    PROVE  /\ \A q \in DOMAIN objects' :
                /\ q \in DOMAIN objects
                /\ objects'[q].metadata = objects[q].metadata
                /\ objects'[q].loadState = IF q = o THEN "Loaded" ELSE objects[q].loadState
                /\ objects'[q].uses = IF q = o THEN found ELSE objects[q].uses
                /\ objects'[q].usedBy \in Seq(Names)
                /\ ToSet(objects'[q].usedBy) =
                        ToSet(objects[q].usedBy) \cup (IF q \in found THEN {o.name} ELSE {})
                /\ /\ IsInjective(objects[q].usedBy)
                   /\ q \in found => o.name \notin ToSet(objects[q].usedBy)
                   => IsInjective(objects'[q].usedBy)
           /\ \A q, m : m \in Managers /\ Serves(q, m) => q # o /\ Serves(q, m)'
<1>1. ASSUME NEW q, NEW m \in Managers, Serves(q, m)
      PROVE  /\ q # o /\ q \in DOMAIN objects'
             /\ objects'[q].loadState = objects[q].loadState
             /\ Serves(q, m)'
  <2>1. q \in DOMAIN objects /\ Registered(q) /\ IsLoaded(q) /\ Reaches(m, q.manager)
    BY <1>1 DEF Serves
  <2>2. q # o /\ q \in DOMAIN objects' /\ Registered(q)'
    BY <2>1 DEF LinksSound, LinkStep, IsLoaded
  <2>3. objects'[q].loadState = objects[q].loadState
    BY <2>1, <2>2, LinkedObjects DEF LinkStep, UsesInv, ManagerInv
  <2>4. Reaches(m, q.manager)'
    BY <2>1 DEF LinkStep, Reaches
  <2> QED BY <2>1, <2>2, <2>3, <2>4 DEF Serves, IsLoaded
<1>2. ASSUME NEW q \in DOMAIN objects'
      PROVE  /\ q \in DOMAIN objects
             /\ objects'[q].metadata = objects[q].metadata
             /\ objects'[q].loadState = IF q = o THEN "Loaded" ELSE objects[q].loadState
             /\ objects'[q].uses = IF q = o THEN found ELSE objects[q].uses
             /\ objects'[q].usedBy \in Seq(Names)
             /\ ToSet(objects'[q].usedBy) =
                     ToSet(objects[q].usedBy) \cup (IF q \in found THEN {o.name} ELSE {})
             /\ /\ IsInjective(objects[q].usedBy)
                /\ q \in found => o.name \notin ToSet(objects[q].usedBy)
                => IsInjective(objects'[q].usedBy)
  <2>1. q \in DOMAIN objects /\ objects'[q] = Linked(o, found)[q]
    BY DEF LinkStep
  <2>2. /\ objects'[q].metadata = objects[q].metadata
        /\ objects'[q].loadState = IF q = o THEN "Loaded" ELSE objects[q].loadState
    BY <2>1, LinkedObjects DEF UsesInv, ManagerInv
  <2>3. /\ objects'[q].uses = IF q = o THEN found ELSE objects[q].uses
        /\ objects'[q].usedBy =
                IF q # o /\ q \in found THEN Append(objects[q].usedBy, o.name)
                ELSE objects[q].usedBy
    BY <2>1, LinkedContent DEF UsesInv, ManagerInv
  <2>4. o.name \in Names /\ o.manager \in Managers
    BY ObjectFacts DEF UsesInv, LinksSound
  <2>5. q \in found => q # o
    BY <1>1, <2>4 DEF LinksSound
  <2>6. PICK s \in Seq(Names) : s = objects[q].usedBy
    BY <2>1 DEF UsesInv, UsesSound
  <2>7. CASE q \in found
    <3>1. PICK n \in Names : n = o.name
      BY <2>4
    <3>2. PICK r : r = Append(s, n)
      OBVIOUS
    <3>3. /\ r \in Seq(Names)
          /\ ToSet(r) = ToSet(s) \cup {n}
          /\ IsInjective(s) /\ n \notin ToSet(s) => IsInjective(r)
      BY <3>2, Appended
    <3>4. objects'[q].usedBy = r
      BY <2>3, <2>5, <2>6, <2>7, <3>1, <3>2
    <3> QED BY <2>1, <2>2, <2>3, <2>6, <2>7, <3>1, <3>3, <3>4
  <2>8. CASE q \notin found
    <3>1. objects'[q].usedBy = s
      BY <2>3, <2>6, <2>8
    <3> QED BY <2>1, <2>2, <2>3, <2>6, <2>8, <3>1
  <2> QED BY <2>7, <2>8
<1> QED BY <1>1, <1>2

\* A plugin that is linked to what was found uses what its metadata name.
LEMMA LinkUses ==
    ASSUME NamesDistinct, UsesInv, NEW o, NEW found, LinksSound(o, found), LinkStep(o, found)
    PROVE  /\ \A q \in DOMAIN objects' : FromFile(q)'
           /\ UsesSound'
           /\ UsersExact => UsersExact'
<1>1. \A q \in DOMAIN objects' :
            /\ q \in DOMAIN objects
            /\ objects'[q].metadata = objects[q].metadata
            /\ objects'[q].loadState = IF q = o THEN "Loaded" ELSE objects[q].loadState
            /\ objects'[q].uses = IF q = o THEN found ELSE objects[q].uses
            /\ objects'[q].usedBy \in Seq(Names)
            /\ ToSet(objects'[q].usedBy) =
                    ToSet(objects[q].usedBy) \cup (IF q \in found THEN {o.name} ELSE {})
            /\ /\ IsInjective(objects[q].usedBy)
               /\ q \in found => o.name \notin ToSet(objects[q].usedBy)
               => IsInjective(objects'[q].usedBy)
  BY LinkStepFacts
<1>2. \A q, m : m \in Managers /\ Serves(q, m) => q # o /\ Serves(q, m)'
  BY LinkStepFacts
<1>3. \A p \in DOMAIN objects : p.manager \in Managers
  BY ObjectFacts DEF UsesInv
<1>4. /\ o \in DOMAIN objects /\ o \in DOMAIN objects' /\ Registered(o)'
      /\ objects[o].loadState = "NotLoaded" /\ objects[o].uses = {}
      /\ NamesIn(found) = ToSet(objects[o].metadata.depends)
      /\ \A q \in found : Serves(q, o.manager)
  BY DEF LinksSound, LinkStep, UsesInv, UsesSound
<1>5. \A q \in DOMAIN objects' : FromFile(q)'
  BY <1>1, <1>4 DEF UsesInv, FilesSound, FromFile
<1>6. UsesSound'
  <2> SUFFICES ASSUME NEW p \in DOMAIN objects'
               PROVE  /\ objects'[p].usedBy \in Seq(Names)
                      /\ IsLoaded(p)' => Registered(p)'
                      /\ IF objects'[p].loadState = "Loaded"
                         THEN NamesIn(objects'[p].uses) = ToSet(objects'[p].metadata.depends)
                         ELSE objects'[p].uses = {}
                      /\ \A q \in objects'[p].uses :
                              Serves(q, p.manager)' /\ p.name \in ToSet(objects'[q].usedBy)
    BY DEF UsesSound
  <2>1. CASE p = o
    <3>1. ASSUME NEW q \in found
          PROVE  Serves(q, o.manager)' /\ o.name \in ToSet(objects'[q].usedBy)
      <4>1. Serves(q, o.manager)'
        BY <1>2, <1>3, <1>4
      <4>2. q \in DOMAIN objects'
        BY <4>1 DEF Serves
      <4> QED BY <1>1, <4>1, <4>2
    <3>2. objects'[o].uses = found /\ objects'[o].loadState = "Loaded"
      BY <1>1, <1>4
    <3> QED BY <1>1, <1>4, <2>1, <3>1, <3>2
  <2>2. CASE p # o
    <3>1. /\ p \in DOMAIN objects
          /\ IsLoaded(p) => Registered(p)
          /\ IF objects[p].loadState = "Loaded"
             THEN NamesIn(objects[p].uses) = ToSet(objects[p].metadata.depends)
             ELSE objects[p].uses = {}
          /\ \A q \in objects[p].uses :
                  Serves(q, p.manager) /\ p.name \in ToSet(objects[q].usedBy)
      BY <1>1 DEF UsesInv, UsesSound
    <3>2. IsLoaded(p)' => Registered(p)'
      BY <1>1, <2>2, <3>1 DEF LinkStep, IsLoaded
    <3>3. ASSUME NEW q \in objects[p].uses
          PROVE  Serves(q, p.manager)' /\ p.name \in ToSet(objects'[q].usedBy)
      <4>1. Serves(q, p.manager)' /\ p.name \in ToSet(objects[q].usedBy)
        BY <1>2, <1>3, <3>1
      <4>2. q \in DOMAIN objects'
        BY <4>1 DEF Serves
      <4> QED BY <1>1, <4>1, <4>2
    <3>4. /\ objects'[p].uses = objects[p].uses /\ objects'[p].loadState = objects[p].loadState
          /\ objects'[p].metadata = objects[p].metadata /\ objects'[p].usedBy \in Seq(Names)
      BY <1>1, <2>2
    <3> QED BY <3>1, <3>2, <3>3, <3>4
  <2> QED BY <2>1, <2>2
\* A plugin that uses another stays, and is not the one linked.
<1>7. ASSUME NEW p \in DOMAIN objects, NEW q \in objects[p].uses
      PROVE  p # o /\ p \in DOMAIN objects' /\ Registered(p)'
  <2>1. IsLoaded(p) /\ Registered(p)
    BY DEF UsesInv, UsesSound, IsLoaded
  <2> QED BY <1>4, <2>1 DEF LinkStep, IsLoaded
<1>8. ASSUME UsersExact
      PROVE  UsersExact'
  <2> SUFFICES ASSUME NEW q \in DOMAIN objects'
               PROVE  /\ IsInjective(objects'[q].usedBy)
                      /\ \A n \in ToSet(objects'[q].usedBy) :
                              \E p \in DOMAIN objects' : p.name = n /\ q \in objects'[p].uses
    BY DEF UsersExact
  <2>1. /\ IsInjective(objects[q].usedBy)
        /\ \A n \in ToSet(objects[q].usedBy) :
                \E p \in DOMAIN objects : p.name = n /\ q \in objects[p].uses
    BY <1>1, <1>8 DEF UsersExact
  <2>2. o.name \notin ToSet(objects[q].usedBy)
    <3> SUFFICES ASSUME o.name \in ToSet(objects[q].usedBy)
                 PROVE  FALSE
      OBVIOUS
    <3>1. PICK p \in DOMAIN objects : p.name = o.name /\ q \in objects[p].uses
      BY <2>1
    <3>2. p # o /\ Registered(p)'
      BY <1>7, <3>1
    <3>3. p.manager = o.manager
      BY <1>4, <3>1, ObjectFacts DEF NamesDistinct, UsesInv
    <3> QED BY <1>4, <3>1, <3>2, <3>3 DEF Registered
  <2>3. ASSUME NEW n \in ToSet(objects'[q].usedBy)
        PROVE  \E p \in DOMAIN objects' : p.name = n /\ q \in objects'[p].uses
    <3>1. CASE n \in ToSet(objects[q].usedBy)
      <4>1. PICK p \in DOMAIN objects : p.name = n /\ q \in objects[p].uses
        BY <2>1, <3>1
      <4> QED BY <1>1, <1>7, <4>1
    <3>2. CASE q \in found /\ n = o.name
      BY <1>1, <1>4, <3>2
    <3> QED BY <1>1, <2>3, <3>1, <3>2
  <2> QED BY <1>1, <2>1, <2>2, <2>3
<1> QED BY <1>5, <1>6, <1>8

\* The call that is opening its module.
LEMMA TopLinks ==
    ASSUME UsesInv, stack # <<>>, Top.left = <<>>
    PROVE  LinksSound(Top.object, Top.found) /\ destroying = None
<1>1. Top.object \in DOMAIN objects /\ Len(stack) \in Nat \ {0}
  BY TopSound DEF UsesInv, ManagerInv
<1>2. FrameSound(Top)
  BY <1>1 DEF UsesInv, FramesSound, Top
<1>3. ToSet(Top.left) = {}
  BY DEF ToSet
<1>4. destroying = None
  BY DEF UsesInv, ManagerInv, DestructionSound
<1> QED BY <1>1, <1>2, <1>3, <1>4 DEF FrameSound, LinksSound

\* A load() by path opens its module and takes the place of its namesake.
LEMMA ReplaceUses ==
    ASSUME NamesDistinct, UsesInv, OpenModuleAtPath
    PROVE  FilesSound' /\ UsesSound' /\ FramesSound' /\ LoopSound' /\ (UsersExact => UsersExact')
<1>1. PICK o : o = Top.object
  OBVIOUS
<1>2. PICK m : m = o.manager
  OBVIOUS
<1>3. PICK own : own = [n \in {o.name} |-> o]
  OBVIOUS
<1>4. PICK found : found = Top.found
  OBVIOUS
<1>5. /\ stack # <<>> /\ Top.left = <<>> /\ ~Registered(o)
      /\ objects' = Restrict(Linked(o, found),
                {q \in DOMAIN objects : q = o \/ q.manager # m \/ q.name # o.name})
      /\ plugins' = [plugins EXCEPT ![m] = Over(own, plugins[m])]
      /\ stack' = Front(stack)
      /\ UNCHANGED <<managers, externalManagers, destroying>>
  BY <1>1, <1>2, <1>3, <1>4, Zenon DEF OpenModuleAtPath
<1>6. LinksSound(o, found) /\ destroying = None
  BY <1>1, <1>4, <1>5, TopLinks
<1>7. /\ o \in DOMAIN objects /\ m \in Managers /\ stack \in Seq(Frame)
      /\ Len(stack) = 1 /\ stack[1].object = o
  <2>1. o \in DOMAIN objects /\ o \in Objects /\ Len(stack) = 1 /\ stack[1].object = o
    BY <1>1, <1>5, TopSound DEF UsesInv, ManagerInv, Top
  <2> QED BY <1>2, <2>1 DEF UsesInv, ManagerInv, LoadsSound, Objects
<1>8. \A k \in Managers :
            /\ k # m => plugins'[k] = plugins[k]
            /\ DOMAIN plugins[k] \subseteq DOMAIN plugins'[k]
  BY <1>3, <1>5, <1>7 DEF Over, UsesInv, ManagerInv, Typed
<1>9. /\ DOMAIN plugins'[m] = DOMAIN plugins[m] \cup {o.name}
      /\ \A n \in DOMAIN plugins'[m] : plugins'[m][n] = IF n = o.name THEN o ELSE plugins[m][n]
  BY <1>3, <1>5, <1>7 DEF Over, UsesInv, ManagerInv, Typed
<1>10. /\ \A q \in DOMAIN objects' : q \in DOMAIN objects /\ objects'[q] = Linked(o, found)[q]
       /\ \A q \in DOMAIN objects : q = o \/ q.manager # m \/ q.name # o.name => q \in DOMAIN objects'
  <2>1. DOMAIN Linked(o, found) = DOMAIN objects
    BY LinkedObjects DEF UsesInv, ManagerInv
  <2> QED BY <1>5, <2>1 DEF Restrict
<1>11. ASSUME NEW q \in DOMAIN objects, IsLoaded(q), Registered(q)
       PROVE  q \in DOMAIN objects' /\ Registered(q)'
  <2>1. q.manager \in Managers
    BY ObjectFacts DEF UsesInv
  <2>2. ~(q.manager = m /\ q.name = o.name)
    <3>1. ~Registered(o) /\ o.name \in DOMAIN plugins[m] => ~IsLoaded(plugins[m][o.name])
      BY <1>2, <1>5, <1>7 DEF UsesInv, FramesSound
    <3> QED BY <1>5, <1>11, <3>1 DEF Registered
  <2>3. Registered(q)'
    BY <1>8, <1>9, <1>11, <2>1, <2>2 DEF Registered
  <2> QED BY <1>10, <2>2, <2>3
<1>12. LinkStep(o, found)
  <2>1. Registered(o)'
    BY <1>2, <1>9 DEF Registered
  <2> QED BY <1>5, <1>7, <1>10, <1>11, <2>1 DEF LinkStep
<1>13. stack' = <<>>
  <2>1. stack' \in Seq(Frame) /\ Len(stack') = 0
    BY <1>5, <1>7, FrontProperties
  <2> QED BY <2>1, EmptySeq
<1>14. /\ \A q \in DOMAIN objects' : FromFile(q)'
       /\ UsesSound'
       /\ UsersExact => UsersExact'
  BY <1>6, <1>12, LinkUses
<1>15. FilesSound'
  <2>1. \A k \in managers' : k \in managers /\ k \in Managers
    BY <1>5 DEF UsesInv, ManagerInv, Typed
  <2> QED BY <1>8, <1>14, <2>1 DEF UsesInv, FilesSound
<1>16. LoopSound'
  BY <1>5, <1>6 DEF LoopSound
<1> QED BY <1>13, <1>14, <1>15, <1>16, NoFrames

\* load() by name opens its module.
LEMMA OpenUses ==
    ASSUME NamesDistinct, NoCycles, UsesInv, OpenModule
    PROVE  FilesSound' /\ UsesSound' /\ FramesSound' /\ LoopSound' /\ (UsersExact => UsersExact')
<1>1. PICK o : o = Top.object
  OBVIOUS
<1>2. PICK found : found = Top.found
  OBVIOUS
<1>3. /\ stack # <<>> /\ Top.left = <<>> /\ Registered(o)
      /\ objects' = Linked(o, found)
      /\ stack' = Front(stack)
      /\ UNCHANGED <<managers, plugins, externalManagers, destroying>>
  BY <1>1, <1>2, Zenon DEF OpenModule
<1>4. LinksSound(o, found) /\ destroying = None
  BY <1>1, <1>2, <1>3, TopLinks
<1>5. /\ DOMAIN objects' = DOMAIN objects
      /\ \A q \in DOMAIN objects :
            /\ objects'[q].metadata = objects[q].metadata
            /\ q # o => objects'[q].loadState = objects[q].loadState
  BY <1>3, LinkedObjects DEF UsesInv, ManagerInv
<1>6. LinkStep(o, found)
  BY <1>3, <1>4, <1>5 DEF LinkStep, LinksSound, Registered
<1>7. /\ \A q \in DOMAIN objects' : FromFile(q)'
      /\ UsesSound'
      /\ UsersExact => UsersExact'
  BY <1>4, <1>6, LinkUses
<1>8. FilesSound'
  BY <1>3, <1>7 DEF UsesInv, FilesSound
<1>9. LoopSound'
  BY <1>3, <1>4 DEF LoopSound
<1>10. /\ stack \in Seq(Frame) /\ Len(stack) \in Nat \ {0}
       /\ Len(stack') = Len(stack) - 1
       /\ \A i \in 1 .. Len(stack) - 1 : stack'[i] = stack[i]
  BY <1>3, TopSound, FrontProperties DEF UsesInv, ManagerInv, LoadsSound
\* The calls that wait are of plugins of other names.
<1>11. ASSUME NEW i \in 1 .. Len(stack) - 1
       PROVE  /\ stack[i].object \in DOMAIN objects /\ stack[i].object.name # o.name
              /\ stack[i].object.manager \in Managers
  <2>1. i \in 1 .. Len(stack) /\ i < Len(stack) /\ Len(stack) \in 1 .. Len(stack)
    BY <1>10
  <2>2. Rank[o.name] < Rank[stack[i].object.name]
    BY <1>1, <2>1 DEF UsesInv, FramesSound, Top
  <2>3. stack[i].object \in DOMAIN objects
    BY <2>1 DEF UsesInv, ManagerInv, LoadsSound
  <2>4. Rank[o.name] \in Nat
    BY <1>4, ObjectFacts, RankFacts DEF UsesInv, LinksSound
  <2> QED BY <2>2, <2>3, <2>4, ObjectFacts DEF UsesInv
<1>12. FramesSound'
  <2>1. ASSUME NEW i \in 1 .. Len(stack')
        PROVE  FrameSound(stack[i])'
    <3>1. PICK f : f = stack'[i]
      OBVIOUS
    <3>2. i \in 1 .. Len(stack) - 1 /\ i \in 1 .. Len(stack) /\ f = stack[i]
      BY <1>10, <3>1
    <3>3. f.object \in DOMAIN objects /\ f.object # o /\ f.object.manager \in Managers
      BY <1>11, <3>2
    <3>4. FrameSound(f)
      BY <3>2 DEF UsesInv, FramesSound
    <3>5. \A q \in f.found : Serves(q, f.object.manager)'
      BY <1>4, <1>6, <3>3, <3>4, LinkStepFacts DEF FrameSound
    <3>6. FrameSound(f)'
      BY <1>5, <3>3, <3>4, <3>5 DEF FrameSound
    <3> QED BY <3>1, <3>6 DEF FrameSound
  <2>2. ASSUME NEW i \in 1 .. Len(stack'), NEW j \in 1 .. Len(stack'), i < j
        PROVE  Rank[stack'[j].object.name] < Rank[stack'[i].object.name]
    <3>1. /\ i \in 1 .. Len(stack) /\ j \in 1 .. Len(stack)
          /\ stack'[i] = stack[i] /\ stack'[j] = stack[j]
      BY <1>10
    <3> QED BY <2>2, <3>1 DEF UsesInv, FramesSound
  <2>3. ASSUME stack' # <<>>
        PROVE  (LET p == stack[1].object IN
                ~Registered(p) /\ p.name \in DOMAIN plugins[p.manager] =>
                    ~IsLoaded(plugins[p.manager][p.name]))'
    <3>1. 1 \in 1 .. Len(stack) - 1
      <4>1. stack' \in Seq(Frame)
        BY <1>3, <1>10, FrontProperties
      <4>2. Len(stack') # 0
        BY <2>3, <4>1, EmptySeq
      <4> QED BY <1>10, <4>2
    <3>2. PICK p : p = stack[1].object
      OBVIOUS
    <3>3. p = stack'[1].object /\ p.name # o.name /\ p.manager \in Managers
      BY <1>10, <1>11, <3>1, <3>2
    <3>4. ASSUME ~Registered(p), p.name \in DOMAIN plugins[p.manager]
          PROVE  ~IsLoaded(plugins[p.manager][p.name])'
      <4>1. ~IsLoaded(plugins[p.manager][p.name])
        BY <1>3, <3>2, <3>4 DEF UsesInv, FramesSound
      <4>2. /\ plugins[p.manager][p.name] \in DOMAIN objects
            /\ plugins[p.manager][p.name].name = p.name
        BY <3>3, <3>4 DEF UsesInv, ManagerInv, RegistrySound
      <4> QED BY <1>3, <1>5, <3>3, <4>1, <4>2 DEF IsLoaded
    <3> QED BY <1>3, <3>3, <3>4 DEF Registered, IsLoaded
  <2> QED BY <2>1, <2>2, <2>3 DEF FramesSound
<1> QED BY <1>7, <1>8, <1>9, <1>12

-----------------------------------------------------------------------------
\* What the loop of the destructor leaves.

\* The destructor begins with all plugins left.
LEMMA BeginVisited ==
    ASSUME UsersInv, NEW m \in Managers, BeginDestruction(m)
    PROVE  VisitedUnloaded'
<1>1. Alike /\ destroying' = [manager |-> m, left |-> DOMAIN plugins[m], at |-> None]
  BY DEF BeginDestruction, Alike
<1>2. ASSUME NEW o \in DOMAIN objects, o.manager = m, objects[o].loadState = "Loaded"
      PROVE  o.name \in DOMAIN plugins[m]
  BY <1>2 DEF UsersInv, UsesInv, UsesSound, IsLoaded, Registered
<1> QED BY <1>1, <1>2 DEF VisitedUnloaded, Alike

\* Whoever uses a plugin comes before it, and was unloaded.
LEMMA VisitVisited ==
    ASSUME DependentsFirst, UsersInv, VisitPlugin
    PROVE  VisitedUnloaded'
<1>1. PICK m : m = destroying.manager
  OBVIOUS
<1>2. PICK n : n = NextName
  OBVIOUS
<1>3. /\ destroying # None /\ destroying.at = None /\ destroying.left # {} /\ Alike
      /\ destroying'.manager = m
      /\ destroying'.left = destroying.left \ {n}
      /\ destroying'.at = plugins[m][n]
  BY <1>1, <1>2, VisitMoves DEF UsersInv, UsesInv
<1>4. m \in Managers /\ n \in destroying.left /\ \A k \in destroying.left : n <= k /\ k \in Nat
  BY <1>1, <1>2, <1>3, NextNameFacts, MinIsLeast DEF UsersInv, NextName
<1>5. ASSUME NEW o \in DOMAIN objects, o.manager = m, objects[o].loadState = "Loaded"
      PROVE  o.name \in destroying.left
  BY <1>1, <1>3, <1>5 DEF UsersInv, VisitedUnloaded
<1>6. ASSUME NEW o \in DOMAIN objects, o.manager = m, objects[o].loadState = "Loaded", o.name = n
      PROVE  o = plugins[m][n] /\ o # None /\ objects[o].usedBy = <<>>
  <2>1. o = plugins[m][n]
    BY <1>6 DEF UsersInv, UsesInv, UsesSound, IsLoaded, Registered
  <2>2. o # None
    BY NoneAssumption DEF UsersInv, UsesInv, ManagerInv, Typed
  <2>3. objects[o].usedBy = <<>>
    <3> SUFFICES ASSUME objects[o].usedBy # <<>>
                 PROVE  FALSE
      OBVIOUS
    <3>1. objects[o].usedBy \in Seq(Names)
      BY DEF UsersInv, UsesInv, UsesSound
    <3>2. Head(objects[o].usedBy) \in ToSet(objects[o].usedBy)
      BY <3>1, HeadAndTail
    <3>3. PICK p \in DOMAIN objects : o \in objects[p].uses
      BY <3>2 DEF UsersInv, UsersExact
    <3>4. /\ objects[p].loadState = "Loaded" /\ Registered(p)
          /\ o.name \in ToSet(objects[p].metadata.depends)
          /\ Reaches(p.manager, m)
      <4>1. /\ IsLoaded(p) => Registered(p)
            /\ IF objects[p].loadState = "Loaded"
               THEN NamesIn(objects[p].uses) = ToSet(objects[p].metadata.depends)
               ELSE objects[p].uses = {}
            /\ \A q \in objects[p].uses : Serves(q, p.manager)
        BY <3>3 DEF UsersInv, UsesInv, UsesSound
      <4>2. objects[p].loadState = "Loaded"
        BY <3>3, <4>1
      <4>3. Registered(p)
        BY <4>1, <4>2 DEF IsLoaded
      <4>4. o.name \in NamesIn(objects[p].uses)
        BY <3>3 DEF NamesIn
      <4>5. Reaches(p.manager, m)
        BY <1>6, <3>3, <4>1 DEF Serves
      <4> QED BY <4>1, <4>2, <4>3, <4>4, <4>5
    <3>5. p.manager \in managers
      <4>1. p.manager \in Managers
        BY ObjectFacts DEF UsersInv, UsesInv
      <4> QED BY <3>4, <4>1 DEF UsersInv, UsesInv, ManagerInv, NothingBefore, Registered
    <3>6. p.manager = m
      BY <1>1, <1>3, <3>4, <3>5 DEF UsersInv, UsesInv, LoopSound, Needed, Reaches
    <3>7. p.name \in destroying.left
      BY <1>5, <3>4, <3>6
    <3>8. FromFile(p) /\ FromFile(o)
      BY DEF UsersInv, UsesInv, FilesSound
    <3>9. PICK d \in Directories : /\ p.name \in DOMAIN Catalog[m][d]
                                   /\ objects[p].metadata = Catalog[m][d][p.name]
      BY <3>4, <3>6, <3>8 DEF FromFile
    <3>10. o.name \in NamesOf(m) \ DOMAIN StaticPlugins[m]
      BY <1>6, <3>8, ObjectFacts DEF FromFile, UsersInv, UsesInv
    <3>11. p.name < n
      BY <1>4, <1>6, <3>4, <3>9, <3>10 DEF DependentsFirst
    <3> QED BY <1>4, <3>7, <3>11
  <2> QED BY <2>1, <2>2, <2>3
<1>7. ASSUME NEW o \in DOMAIN objects, o.manager = m, objects[o].loadState = "Loaded"
      PROVE  \/ o.name \in destroying'.left
             \/ destroying'.at # None /\ o = destroying'.at /\ objects[o].usedBy = <<>>
  <2>1. CASE o.name = n
    BY <1>3, <1>6, <1>7, <2>1
  <2>2. CASE o.name # n
    BY <1>3, <1>5, <1>7, <2>2
  <2> QED BY <2>1, <2>2
<1> QED BY <1>3, <1>7 DEF VisitedUnloaded, Alike

\* To go to a user changes nothing about what was visited.
LEMMA DescendVisited ==
    ASSUME UsersInv, DescendToUser
    PROVE  VisitedUnloaded'
<1>1. /\ destroying # None /\ objects[destroying.at].usedBy # <<>> /\ Alike
      /\ destroying'.manager = destroying.manager
      /\ destroying'.left = destroying.left
  BY DescendMoves DEF UsersInv, UsesInv
<1> QED BY <1>1 DEF UsersInv, VisitedUnloaded, Alike

\* What the destructor is at is unloaded when it goes on.
LEMMA UnloadVisitedVisited ==
    ASSUME UsersInv, UnloadVisited
    PROVE  VisitedUnloaded'
<1>1. PICK o : o = destroying.at
  OBVIOUS
<1>2. /\ destroying # None /\ o # None
      /\ \/ CanUnload(o) /\ objects' = Unloaded(o)
         \/ objects[o].loadState # "Loaded" /\ UNCHANGED objects
      /\ destroying'.manager = destroying.manager
      /\ destroying'.left = destroying.left
  BY <1>1, UnloadMoves DEF UsersInv, UsesInv
<1>3. o \in DOMAIN objects
  BY <1>1, <1>2 DEF UsersInv, UsesInv, LoopSound
<1>4. /\ DOMAIN objects' = DOMAIN objects
      /\ \A p \in DOMAIN objects : objects'[p].loadState = "Loaded" =>
            objects[p].loadState = "Loaded" /\ p # o
  <2>1. CASE objects' = Unloaded(o)
    BY <1>3, <2>1, UnloadedContent DEF UsersInv, UsesInv, ManagerInv
  <2>2. CASE objects[o].loadState # "Loaded" /\ UNCHANGED objects
    BY <2>2
  <2> QED BY <1>2, <2>1, <2>2
<1> QED BY <1>1, <1>2, <1>4 DEF UsersInv, VisitedUnloaded

-----------------------------------------------------------------------------

\* The invariants hold in the initial states,
LEMMA UsesInit ==
    ASSUME Init
    PROVE  UsersInv
<1>1. DOMAIN objects = {}
  BY DEF Init
<1>2. managers = {} /\ destroying = None /\ stack = <<>> /\ Len(stack) = 0
  BY DEF Init
<1> QED BY <1>1, <1>2, InitSound DEF UsersInv, UsesInv, FilesSound, UsesSound, FramesSound, LoopSound,
            UsersExact, VisitedUnloaded

\* and every step keeps UsesInv, and UsersExact with what the destructor leaves.
LEMMA UsesNext ==
    ASSUME NamesDistinct, NoCycles, UsesInv, [Next]_vars
    PROVE  UsesInv' /\ (UsersExact /\ VisitedUnloaded => UsersExact')
<1> SUFFICES /\ FilesSound' /\ UsesSound' /\ FramesSound' /\ LoopSound'
             /\ UsersExact /\ VisitedUnloaded => UsersExact'
  BY NextSound DEF UsesInv
<1>1. CASE UNCHANGED vars
  BY <1>1, StutterUses
<1>2. CASE \E m \in Managers, d \in Directories : ConstructManager(m, d)
  BY <1>2, ConstructUses
<1>3. CASE \E m \in Managers, d \in Directories : SetPluginDirectory(m, d)
  BY <1>3, DirectoryUses
<1>4. CASE \E m \in Managers, x \in Names, n \in Names : SetPreferredPlugins(m, x, n)
  BY <1>4, PreferredUses
<1>5. CASE \E m \in Managers, k \in Managers : RegisterExternalManager(m, k)
  BY <1>5, ExternalUses
<1>6. CASE \E m \in Managers, x \in Names : Load(m, x)
  BY <1>6, LoadUses
<1>7. CASE \E m \in Managers, d \in Directories, n \in Names : LoadPath(m, d, n)
  BY <1>7, PathUses
<1>8. CASE RecordDependency
  BY <1>8, RecordUses
<1>9. CASE LoadDependency
  BY <1>9, DescendUses
<1>10. CASE FailLoad
  BY <1>10, FailUses
<1>11. CASE OpenModule
  BY <1>11, OpenUses
<1>12. CASE OpenModuleAtPath
  BY <1>12, ReplaceUses
<1>13. CASE \E m \in Managers, x \in Names : Unload(m, x)
  BY <1>13, UnloadCallUses
<1>14. CASE \E m \in Managers, x \in Names : Instantiate(m, x)
  BY <1>14, InstantiateUses
<1>15. CASE \E o \in DOMAIN objects : DeleteInstance(o)
  BY <1>15, DeleteUses
<1>16. CASE \E m \in Managers : BeginDestruction(m)
  BY <1>16, BeginUses
<1>17. CASE VisitPlugin
  BY <1>17, VisitUses
<1>18. CASE DescendToUser
  BY <1>18, DescendUserUses
<1>19. CASE UnloadVisited
  BY <1>19, UnloadVisitedUses
<1>20. CASE EndDestruction
  BY <1>20, EndUses
<1> QED BY <1>1, <1>2, <1>3, <1>4, <1>5, <1>6, <1>7, <1>8, <1>9, <1>10, <1>11, <1>12, <1>13,
           <1>14, <1>15, <1>16, <1>17, <1>18, <1>19, <1>20 DEF Next

\* Every step keeps what the destructor leaves.
LEMMA VisitedNext ==
    ASSUME DependentsFirst, UsersInv, [Next]_vars
    PROVE  VisitedUnloaded'
<1>0. SUFFICES ASSUME destroying' # None
               PROVE  VisitedUnloaded'
  BY DEF VisitedUnloaded
\* The other calls begin or go on with none being destroyed.
<1>1. stack # <<>> => destroying = None
  BY DEF UsersInv, UsesInv, ManagerInv, DestructionSound
<1>2. CASE UNCHANGED vars
  BY <1>2 DEF UsersInv, VisitedUnloaded, vars
<1>3. CASE \E m \in Managers, d \in Directories :
                ConstructManager(m, d) \/ SetPluginDirectory(m, d)
  BY <1>0, <1>3 DEF ConstructManager, SetPluginDirectory, Idle
<1>4. CASE \E m \in Managers, x \in Names, n \in Names : SetPreferredPlugins(m, x, n)
  BY <1>0, <1>4 DEF SetPreferredPlugins, Idle
<1>5. CASE \E m \in Managers, k \in Managers : RegisterExternalManager(m, k)
  BY <1>0, <1>5 DEF RegisterExternalManager, Idle
<1>6. CASE \E m \in Managers, x \in Names : Load(m, x) \/ Unload(m, x) \/ Instantiate(m, x)
  BY <1>0, <1>6 DEF Load, Unload, Instantiate, Idle
<1>7. CASE \E m \in Managers, d \in Directories, n \in Names : LoadPath(m, d, n)
  BY <1>0, <1>7 DEF LoadPath, Idle
<1>8. CASE RecordDependency \/ LoadDependency \/ FailLoad
  BY <1>0, <1>1, <1>8 DEF RecordDependency, LoadDependency, FailLoad
<1>9. CASE OpenModule \/ OpenModuleAtPath
  BY <1>0, <1>1, <1>9 DEF OpenModule, OpenModuleAtPath
<1>10. CASE \E o \in DOMAIN objects : DeleteInstance(o)
  BY <1>0, <1>10 DEF DeleteInstance, Idle
<1>11. CASE \E m \in Managers : BeginDestruction(m)
  BY <1>11, BeginVisited
<1>12. CASE VisitPlugin
  BY <1>12, VisitVisited
<1>13. CASE DescendToUser
  BY <1>13, DescendVisited
<1>14. CASE UnloadVisited
  BY <1>14, UnloadVisitedVisited
<1>15. CASE EndDestruction
  BY <1>0, <1>15 DEF EndDestruction
<1> QED BY <1>2, <1>3, <1>4, <1>5, <1>6, <1>7, <1>8, <1>9, <1>10, <1>11, <1>12, <1>13,
           <1>14, <1>15 DEF Next

\* UsesInv always holds where no name is of two managers and there is no cycle.
LEMMA UsesInvHolds ==
    ASSUME NamesDistinct, NoCycles
    PROVE  Spec => []UsesInv
<1>1. Init => UsesInv
  BY UsesInit DEF UsersInv
<1>2. UsesInv /\ [Next]_vars => UsesInv'
  BY UsesNext
<1> QED BY <1>1, <1>2, PTL DEF Spec

\* UsersInv always holds where, besides, dependents come first.
LEMMA UsersInvHolds ==
    ASSUME NamesDistinct, NoCycles, DependentsFirst
    PROVE  Spec => []UsersInv
<1>1. Init => UsersInv
  BY UsesInit
<1>2. UsersInv /\ [Next]_vars => UsersInv'
  BY UsesNext, VisitedNext DEF UsersInv
<1> QED BY <1>1, <1>2, PTL DEF Spec

\* Where no plugin name is in two managers and plugin files have no cycle of
\* dependencies, a plugin that a loaded plugin was linked to stays loaded and
\* registered, through all loads, replacements, unloads, scans and destructions.
THEOREM UsesAlwaysLoaded ==
    ASSUME NamesDistinct, NoCycles
    PROVE  Spec => []UsesLoaded
<1>1. UsesInv => UsesLoaded
  BY DEF UsesInv, UsesSound, Serves, UsesLoaded
<1> QED BY <1>1, UsesInvHolds, PTL

\* Under the same conditions, unloading a plugin looks up by name the very
\* plugins that it was linked to: the assertions of unloadInternal() hold.
THEOREM DependenciesAlwaysFound ==
    ASSUME NamesDistinct, NoCycles
    PROVE  Spec => []DependenciesFound
<1>1. UsesInv => DependenciesFound
  BY DependenciesAreUses DEF UsesInv, DependenciesFound, CanUnload
<1> QED BY <1>1, UsesInvHolds, PTL

\* Under the same conditions, what load() checked before the dependencies still
\* holds after them: a plugin loaded from a path replaces none that is loaded.
THEOREM ReplacesAlwaysUnloaded ==
    ASSUME NamesDistinct, NoCycles
    PROVE  Spec => []ReplacesUnloaded
<1>1. ASSUME UsesInv, stack # <<>>, ~Registered(Top.object)
      PROVE  Top = stack[1]
  <2>1. Len(stack) = 1
    BY <1>1, TopSound DEF UsesInv, ManagerInv
  <2> QED BY <2>1 DEF Top
<1>2. UsesInv => ReplacesUnloaded
  BY <1>1 DEF UsesInv, FramesSound, ReplacesUnloaded
<1> QED BY <1>2, UsesInvHolds, PTL

\* If, besides, the plugins of a manager come before those of it that they
\* depend on, a usedBy list names exactly the plugins linked to its plugin: no
\* failed load leaves an entry and no unload takes that of another.
THEOREM UsedByAlwaysExact ==
    ASSUME NamesDistinct, NoCycles, DependentsFirst
    PROVE  Spec => []UsedByExact
<1>1. ASSUME UsersInv
      PROVE  UsedByExact
  <2> SUFFICES ASSUME NEW q \in DOMAIN objects, NEW n \in Names
               PROVE  Cardinality({i \in DOMAIN objects[q].usedBy : objects[q].usedBy[i] = n}) =
                      Cardinality({o \in DOMAIN objects : q \in objects[o].uses /\ o.name = n})
    BY DEF UsedByExact
  <2> DEFINE entries == {i \in DOMAIN objects[q].usedBy : objects[q].usedBy[i] = n}
             users == {o \in DOMAIN objects : q \in objects[o].uses /\ o.name = n}
  <2>1. \A o \in users : Registered(o) /\ n \in ToSet(objects[q].usedBy)
    BY <1>1 DEF UsersInv, UsesInv, UsesSound, IsLoaded
  <2>2. CASE n \in ToSet(objects[q].usedBy)
    <3>1. PICK i \in DOMAIN objects[q].usedBy : objects[q].usedBy[i] = n
      BY <2>2 DEF ToSet
    <3>2. entries = {i}
      BY <1>1, <3>1 DEF UsersInv, UsersExact, IsInjective
    <3>3. PICK o \in users : TRUE
      BY <1>1, <2>2 DEF UsersInv, UsersExact
    <3>4. users = {o}
      BY <1>1, <2>1, <3>3, OneOfName DEF UsersInv, UsesInv
    <3> HIDE DEF entries, users
    <3>5. Cardinality(entries) = 1 /\ Cardinality(users) = 1
      BY <3>2, <3>4, FS_Singleton
    <3> QED BY <3>5 DEF entries, users
  <2>3. CASE n \notin ToSet(objects[q].usedBy)
    <3>1. entries = {} /\ users = {}
      BY <2>1, <2>3 DEF ToSet
    <3> QED BY <3>1
  <2> QED BY <2>2, <2>3
<1> QED BY <1>1, UsersInvHolds, PTL

\* Under these conditions, the destructor of a manager has unloaded every plugin
\* of it when it frees them.
THEOREM AllAlwaysUnloaded ==
    ASSUME NamesDistinct, NoCycles, DependentsFirst
    PROVE  Spec => []AllUnloaded
<1>1. ASSUME UsersInv
      PROVE  AllUnloaded
  <2> SUFFICES ASSUME destroying # None, destroying.at = None, destroying.left = {},
                      NEW o \in Range(plugins[destroying.manager])
               PROVE  objects[o].loadState # "Loaded"
    BY DEF AllUnloaded
  <2>1. o \in DOMAIN objects /\ o.manager = destroying.manager
    BY <1>1 DEF UsersInv, UsesInv, ManagerInv, DestructionSound, RegistrySound, Range
  <2> QED BY <1>1, <2>1 DEF UsersInv, VisitedUnloaded
<1> QED BY <1>1, UsersInvHolds, PTL
=============================================================================
