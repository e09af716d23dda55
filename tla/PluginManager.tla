--------------------------- MODULE PluginManager ---------------------------
(***************************************************************************)
(* Corrade::PluginManager::AbstractManager: several managers, each with    *)
(* the plugins it knows, the aliases they are known under and the plugins  *)
(* that use each other, also across managers.                              *)
(*                                                                         *)
(* Manager operations are plain calls on one thread.  load() and the       *)
(* destructor are recursive and fail half way, so their recursion is       *)
(* modelled step by step; the other calls are one action each.  Plugins    *)
(* refer to each other by name and aliases refer to Plugin objects by      *)
(* address: an object here is an address.  Files are constants, and a      *)
(* module may fail to open at any time.                                    *)
(***************************************************************************)
EXTENDS Integers, FiniteSetsExt, SequencesExt, Functions, TLC

CONSTANTS
    Managers,       \* AbstractManager objects, numbered in the order of their addresses
    Names,          \* plugin and alias names, numbered in their string order
    Directories,    \* plugin directories
    Catalog,        \* Catalog[m][d]: the plugins of m's interface and suffix in d
    StaticPlugins,  \* StaticPlugins[m]: the plugins of m's interface linked in
    None,           \* no object, no destruction
    MaxInstances    \* bound: instances of a plugin

\* What the metadata file (and, for deletable, the instances' canBeDeleted()) says.
Metadata == [depends: Seq(Names), provides: SUBSET Names, valid: BOOLEAN, deletable: BOOLEAN]

\* Plugin files by name
Files(f) == DOMAIN f \subseteq Names /\ \A n \in DOMAIN f : f[n] \in Metadata

ASSUME PluginManagerAssumption ==
    /\ Managers \subseteq Nat
    /\ Names \subseteq Nat
    /\ \A m \in Managers : Files(StaticPlugins[m])
    /\ \A m \in Managers, d \in Directories : Files(Catalog[m][d])
    /\ MaxInstances \in Nat

VARIABLES
    managers,           \* the managers alive
    directory,          \* State::pluginDirectory
    plugins,            \* State::plugins: name -> Plugin object
    aliases,            \* State::aliases: name -> Plugin&
    externalManagers,   \* State::externalManagers
    objects,            \* the Plugin objects alive: address -> content
    stack,              \* loadInternal() calls, innermost last
    destroying          \* the destructor's loop, or None

vars == <<managers, directory, plugins, aliases, externalManagers, objects, stack, destroying>>

\* Addresses.  A name has two, so that the object replacing one is another.
Objects == [manager: Managers, name: Names, id: {0, 1}]

ASSUME NoneAssumption == None \notin Objects

LoadState == {"Static", "Loaded", "NotLoaded", "WrongMetadataFile"}

\* uses is history: the plugins whose module this one was linked to when loaded.
Plugin == [metadata: Metadata, loadState: LoadState, usedBy: Seq(Names),
           uses: SUBSET Objects, instances: 0 .. MaxInstances]

\* left: dependencies still to load; found: those loaded
Frame == [object: Objects, left: Seq(Names), found: SUBSET Objects]

Destruction == [manager: Managers, left: SUBSET Names, at: Objects \cup {None}]

-----------------------------------------------------------------------------

Idle == stack = <<>> /\ destroying = None

Top == stack[Len(stack)]

Registered(o) == o.name \in DOMAIN plugins[o.manager] /\ plugins[o.manager][o.name] = o

IsLoaded(o) == objects[o].loadState \in {"Static", "Loaded"}

Removable(o) == objects[o].loadState \in {"NotLoaded", "WrongMetadataFile"}

\* An address for a new Plugin, other than that of the current one of its name.
Fresh(m, n) == [manager |-> m, name |-> n,
                id |-> IF n \in DOMAIN plugins[m] /\ plugins[m][n].id = 0 THEN 1 ELSE 0]

NewPlugin(metadata) ==
    [metadata |-> metadata,
     loadState |-> IF metadata.valid THEN "NotLoaded" ELSE "WrongMetadataFile",
     usedBy |-> <<>>, uses |-> {}, instances |-> 0]

NewStaticPlugin(metadata) == [NewPlugin(metadata) EXCEPT !.loadState = "Static"]

\* f, and g where f has no value: f @@ g, by a definition provers can expand.
Over(f, g) == [x \in DOMAIN f \cup DOMAIN g |-> IF x \in DOMAIN f THEN f[x] ELSE g[x]]

\* In the order of names, what each plugin provides becomes an alias of it,
\* unless there is an alias already.
AddAliases(map, metadata, object) ==
    Over(map, [x \in UNION {metadata[n].provides : n \in DOMAIN metadata} |->
                    object[Min({n \in DOMAIN metadata : x \in metadata[n].provides})]])

\* registerDynamicPlugin() for every plugin of object: its own name is an alias
\* of it, replacing any other, then come those it provides.
Register(map, metadata, object) == AddAliases(Over(object, map), metadata, object)

\* Where the name of a dependency leads: first the manager's own plugins, then
\* those of its external managers in the order of their addresses.
Resolve(m, n) ==
    LET others == {k \in externalManagers[m] : n \in DOMAIN plugins[k]}
    IN  IF n \in DOMAIN plugins[m] THEN plugins[m][n]
        ELSE IF others # {} THEN plugins[Min(others)][n]
        ELSE None

-----------------------------------------------------------------------------
\* What a manager knows.

\* The second half of setPluginDirectory(): with the plugins and aliases that
\* were kept, register every plugin file of d whose name is not known, then add
\* the aliases of all that are still missing.
Populate(m, d, kept, keptAliases, content) ==
    LET new == DOMAIN Catalog[m][d] \ DOMAIN kept
        own == [n \in new |-> Fresh(m, n)]
        file == [n \in new |-> Catalog[m][d][n]]
        known == Over(file, [n \in DOMAIN kept |-> content[n].metadata])
    IN  /\ directory' = [directory EXCEPT ![m] = d]
        /\ plugins' = [plugins EXCEPT ![m] = Over(own, kept)]
        /\ objects' = Over([o \in Range(own) |-> NewPlugin(file[o.name])],
                       Over([o \in Range(kept) |-> content[o.name]],
                            Restrict(objects, {o \in DOMAIN objects : o.manager # m})))
        /\ aliases' = [aliases EXCEPT ![m] =
                AddAliases(Register(keptAliases, file, own), known, Over(own, kept))]

\* The constructor: the static plugins (their order is that of the global list,
\* taken to be the order of names), then the plugin directory.
ConstructManager(m, d) ==
    LET own == [n \in DOMAIN StaticPlugins[m] |-> Fresh(m, n)]
    IN  /\ Idle
        /\ m \notin managers
        /\ managers' = managers \cup {m}
        /\ Populate(m, d, own, Register(<<>>, StaticPlugins[m], own),
                    [n \in DOMAIN own |-> NewStaticPlugin(StaticPlugins[m][n])])
        /\ UNCHANGED <<externalManagers, stack, destroying>>

\* The plugins and the aliases that setPluginDirectory() does not remove.
KeptPlugins(m) == Restrict(plugins[m], {n \in DOMAIN plugins[m] : ~Removable(plugins[m][n])})

\* Mutant: the aliases are not looked at.
KeptAliases_Mutant(m) == aliases[m]

KeptAliases(m) == Restrict(aliases[m], {x \in DOMAIN aliases[m] : ~Removable(aliases[m][x])})

\* setPluginDirectory(); reloadPluginDirectory() when d is the current directory.
SetPluginDirectory(m, d) ==
    /\ Idle
    /\ m \in managers
    /\ Populate(m, d, KeptPlugins(m), KeptAliases(m),
                [n \in DOMAIN KeptPlugins(m) |-> objects[plugins[m][n]]])
    /\ UNCHANGED <<managers, externalManagers, stack, destroying>>

\* setPreferredPlugins(): n is the first candidate that is registered, which has
\* to provide the alias.
SetPreferredPlugins(m, x, n) ==
    /\ Idle
    /\ m \in managers
    /\ x \in DOMAIN aliases[m]
    /\ n \in DOMAIN plugins[m]
    /\ x \in objects[plugins[m][n]].metadata.provides
    /\ aliases' = [aliases EXCEPT ![m] = [aliases[m] EXCEPT ![x] = plugins[m][n]]]
    /\ UNCHANGED <<managers, directory, plugins, externalManagers, objects, stack, destroying>>

RegisterExternalManager(m, k) ==
    /\ Idle
    /\ {m, k} \subseteq managers
    /\ m # k
    /\ externalManagers' = [externalManagers EXCEPT ![m] = @ \cup {k}]
    /\ UNCHANGED <<managers, directory, plugins, aliases, objects, stack, destroying>>

-----------------------------------------------------------------------------
\* load()

Call(o, metadata) == [object |-> o, left |-> metadata.depends, found |-> {}]

\* load() of a name: any plugin the alias leads to that is not loaded yet.
Load(m, x) ==
    /\ Idle
    /\ m \in managers
    /\ x \in DOMAIN aliases[m]
    /\ objects[aliases[m][x]].loadState = "NotLoaded"
    /\ stack' = <<Call(aliases[m][x], objects[aliases[m][x]].metadata)>>
    /\ UNCHANGED <<managers, directory, plugins, aliases, externalManagers, objects, destroying>>

\* load() of the file of plugin n in directory d, unless n is loaded.  The new
\* Plugin is registered only when it is loaded.
LoadPath(m, d, n) ==
    /\ Idle
    /\ m \in managers
    /\ n \in DOMAIN Catalog[m][d]
    /\ n \in DOMAIN plugins[m] => ~IsLoaded(plugins[m][n])
    /\ Catalog[m][d][n].valid
    /\ objects' = Over([o \in {Fresh(m, n)} |-> NewPlugin(Catalog[m][d][n])], objects)
    /\ stack' = <<Call(Fresh(m, n), Catalog[m][d][n])>>
    /\ UNCHANGED <<managers, directory, plugins, aliases, externalManagers, destroying>>

Dependency == IF Top.left = <<>> THEN None ELSE Resolve(Top.object.manager, Head(Top.left))

\* The next dependency is loaded (by now): remember it.
RecordDependency ==
    /\ stack # <<>>
    /\ Dependency # None
    /\ IsLoaded(Dependency)
    /\ stack' = [stack EXCEPT ![Len(stack)] =
            [Top EXCEPT !.left = Tail(Top.left), !.found = Top.found \cup {Dependency}]]
    /\ UNCHANGED <<managers, directory, plugins, aliases, externalManagers, objects, destroying>>

\* The next dependency is loaded first, by its own manager.
LoadDependency ==
    /\ stack # <<>>
    /\ Dependency # None
    /\ objects[Dependency].loadState = "NotLoaded"
    /\ stack' = Append(stack, Call(Dependency, objects[Dependency].metadata))
    /\ UNCHANGED <<managers, directory, plugins, aliases, externalManagers, objects, destroying>>

\* A dependency cannot be found or has a wrong metadata file, or the module
\* cannot be opened or is not a plugin of this version and interface.  All the
\* calls return; dependencies that were loaded stay loaded.
FailLoad ==
    /\ stack # <<>>
    /\ Dependency # None => objects[Dependency].loadState = "WrongMetadataFile"
    /\ stack' = <<>>
    /\ objects' = Restrict(objects, {o \in DOMAIN objects : Registered(o)})
    /\ UNCHANGED <<managers, directory, plugins, aliases, externalManagers, destroying>>

\* Mutant: what was found is not remembered as used.
Linked_Mutant(o, found) ==
    [objects EXCEPT ![o] = [objects[o] EXCEPT !.loadState = "Loaded", !.uses = found]]

\* The new content of the objects once o is loaded: it is in the usedBy list of
\* all its dependencies.
Linked(o, found) ==
    [q \in DOMAIN objects |->
        IF q = o THEN [objects[q] EXCEPT !.loadState = "Loaded", !.uses = found]
        ELSE IF q \in found THEN [objects[q] EXCEPT !.usedBy = Append(@, o.name)]
        ELSE objects[q]]

\* A registered plugin is opened from the current directory of its manager,
\* wherever its metadata came from.
OpenModule ==
    LET o == Top.object IN
    /\ stack # <<>>
    /\ Top.left = <<>>
    /\ Registered(o)
    /\ o.name \in DOMAIN Catalog[o.manager][directory[o.manager]]
    /\ objects' = Linked(o, Top.found)
    /\ stack' = Front(stack)
    /\ UNCHANGED <<managers, directory, plugins, aliases, externalManagers, destroying>>

\* The aliases that do not lead to the plugin registered under the name.
Replaced(m, n) ==
    Restrict(aliases[m], {x \in DOMAIN aliases[m] :
        n \in DOMAIN plugins[m] => aliases[m][x] # plugins[m][n]})

\* A plugin loaded from a path is opened and takes the place of the one of the
\* same name.
OpenModuleAtPath ==
    LET o == Top.object
        m == o.manager
        own == [n \in {o.name} |-> o]
    IN  /\ stack # <<>>
        /\ Top.left = <<>>
        /\ ~Registered(o)
        /\ objects' = Restrict(Linked(o, Top.found),
                {q \in DOMAIN objects : q = o \/ q.manager # m \/ q.name # o.name})
        /\ plugins' = [plugins EXCEPT ![m] = Over(own, plugins[m])]
        /\ aliases' = [aliases EXCEPT ![m] =
                Register(Replaced(m, o.name), [n \in {o.name} |-> objects[o].metadata], own)]
        /\ stack' = Front(stack)
        /\ UNCHANGED <<managers, directory, externalManagers, destroying>>

-----------------------------------------------------------------------------
\* unload()

\* Mutant: the external managers are not asked.
Dependencies_Mutant(o) ==
    {IF n \in DOMAIN plugins[o.manager] THEN plugins[o.manager][n] ELSE None :
        n \in ToSet(objects[o].metadata.depends)}

Dependencies(o) == {Resolve(o.manager, n) : n \in ToSet(objects[o].metadata.depends)}

\* The assertions of unloadInternal(): every dependency is found again, and this
\* plugin is in its usedBy list.
DependenciesHold(o) ==
    \A q \in Dependencies(o) : q # None /\ Contains(objects[q].usedBy, o.name)

\* Mutants: plugins that other plugins use, or that have instances, are unloaded.
CanUnload_Mutant1(o) ==
    /\ objects[o].loadState = "Loaded"
    /\ objects[o].instances > 0 => objects[o].metadata.deletable
CanUnload_Mutant2(o) == objects[o].loadState = "Loaded" /\ objects[o].usedBy = <<>>

\* Not Required and not Used.
CanUnload(o) ==
    /\ objects[o].loadState = "Loaded"
    /\ objects[o].usedBy = <<>>
    /\ objects[o].instances > 0 => objects[o].metadata.deletable

\* The new content of the objects: o has no instances and is in no usedBy list.
\* Closing its module may fail, which leaves the same state.
Unloaded(o) ==
    [q \in DOMAIN objects |->
        IF q = o
        THEN [objects[q] EXCEPT !.loadState = "NotLoaded", !.uses = {}, !.instances = 0]
        ELSE IF q \in Dependencies(o)
        THEN [objects[q] EXCEPT !.usedBy = RemoveFirst(@, o.name)]
        ELSE objects[q]]

Unload(m, x) ==
    /\ Idle
    /\ m \in managers
    /\ x \in DOMAIN aliases[m]
    /\ CanUnload(aliases[m][x])
    /\ DependenciesHold(aliases[m][x])
    /\ objects' = Unloaded(aliases[m][x])
    /\ UNCHANGED <<managers, directory, plugins, aliases, externalManagers, stack, destroying>>

-----------------------------------------------------------------------------
\* Instances

Instances(o, k) == objects' = [objects EXCEPT ![o] = [objects[o] EXCEPT !.instances = k]]

\* instantiate(): AbstractPlugin's constructor calls registerInstance().
Instantiate(m, x) ==
    /\ Idle
    /\ m \in managers
    /\ x \in DOMAIN aliases[m]
    /\ IsLoaded(aliases[m][x])
    /\ objects[aliases[m][x]].instances < MaxInstances
    /\ Instances(aliases[m][x], objects[aliases[m][x]].instances + 1)
    /\ UNCHANGED <<managers, directory, plugins, aliases, externalManagers, stack, destroying>>

\* ~AbstractPlugin() calls reregisterInstance(), which finds the plugin by its
\* real name whatever the alias it was instantiated under leads to by now.
DeleteInstance(o) ==
    /\ Idle
    /\ objects[o].instances > 0
    /\ Registered(o)
    /\ Instances(o, objects[o].instances - 1)
    /\ UNCHANGED <<managers, directory, plugins, aliases, externalManagers, stack, destroying>>

-----------------------------------------------------------------------------
\* ~AbstractManager().  No other manager uses it (an assertion), and the
\* application has deleted the instances that the manager cannot delete.

\* externalManagerUsedBy is not empty.
Needed(m) == \E k \in managers : m \in externalManagers[k]

BeginDestruction(m) ==
    /\ Idle
    /\ m \in managers
    /\ ~Needed(m)
    /\ \A o \in Range(plugins[m]) : objects[o].instances > 0 =>
            objects[o].metadata.deletable /\ objects[o].loadState = "Loaded"
    /\ destroying' = [manager |-> m, left |-> DOMAIN plugins[m], at |-> None]
    /\ UNCHANGED <<managers, directory, plugins, aliases, externalManagers, objects, stack>>

\* Mutant: the loop goes backwards.
NextName_Mutant == Max(destroying.left)

\* The loop goes in the order of the map.
NextName == Min(destroying.left)

VisitPlugin ==
    /\ destroying # None
    /\ destroying.at = None
    /\ destroying.left # {}
    /\ destroying' = [destroying EXCEPT
            !.left = destroying.left \ {NextName},
            !.at = plugins[destroying.manager][NextName]]
    /\ UNCHANGED <<managers, directory, plugins, aliases, externalManagers, objects, stack>>

\* unloadRecursiveInternal() goes to the first user of the plugin and does not
\* come back: the call is in a return statement.
DescendToUser ==
    /\ destroying # None
    /\ destroying.at # None
    /\ objects[destroying.at].usedBy # <<>>
    /\ Head(objects[destroying.at].usedBy) \in DOMAIN plugins[destroying.manager]
    /\ destroying' = [destroying EXCEPT
            !.at = plugins[destroying.manager][Head(objects[destroying.at].usedBy)]]
    /\ UNCHANGED <<managers, directory, plugins, aliases, externalManagers, objects, stack>>

UnloadVisited ==
    /\ destroying # None
    /\ destroying.at # None
    /\ objects[destroying.at].usedBy = <<>>
    /\ \/ /\ CanUnload(destroying.at)
          /\ DependenciesHold(destroying.at)
          /\ objects' = Unloaded(destroying.at)
       \/ /\ objects[destroying.at].loadState # "Loaded"
          /\ UNCHANGED objects
    /\ destroying' = [destroying EXCEPT !.at = None]
    /\ UNCHANGED <<managers, directory, plugins, aliases, externalManagers, stack>>

\* The members are destroyed.
EndDestruction ==
    LET m == destroying.manager IN
    /\ destroying # None
    /\ destroying.at = None
    /\ destroying.left = {}
    /\ managers' = managers \ {m}
    /\ plugins' = [plugins EXCEPT ![m] = <<>>]
    /\ aliases' = [aliases EXCEPT ![m] = <<>>]
    /\ externalManagers' = [externalManagers EXCEPT ![m] = {}]
    /\ objects' = Restrict(objects, {o \in DOMAIN objects : o.manager # m})
    /\ destroying' = None
    /\ UNCHANGED <<directory, stack>>

-----------------------------------------------------------------------------

Init ==
    /\ managers = {}
    /\ directory \in [Managers -> {CHOOSE d \in Directories : TRUE}]
    /\ plugins = [m \in Managers |-> <<>>]
    /\ aliases = [m \in Managers |-> <<>>]
    /\ externalManagers = [m \in Managers |-> {}]
    /\ objects = <<>>
    /\ stack = <<>>
    /\ destroying = None

Next ==
    \/ \E m \in Managers, d \in Directories : ConstructManager(m, d)
    \/ \E m \in Managers, d \in Directories : SetPluginDirectory(m, d)
    \/ \E m \in Managers, x \in Names, n \in Names : SetPreferredPlugins(m, x, n)
    \/ \E m \in Managers, k \in Managers : RegisterExternalManager(m, k)
    \/ \E m \in Managers, x \in Names : Load(m, x)
    \/ \E m \in Managers, d \in Directories, n \in Names : LoadPath(m, d, n)
    \/ RecordDependency
    \/ LoadDependency
    \/ FailLoad
    \/ OpenModule
    \/ OpenModuleAtPath
    \/ \E m \in Managers, x \in Names : Unload(m, x)
    \/ \E m \in Managers, x \in Names : Instantiate(m, x)
    \/ \E o \in DOMAIN objects : DeleteInstance(o)
    \/ \E m \in Managers : BeginDestruction(m)
    \/ VisitPlugin
    \/ DescendToUser
    \/ UnloadVisited
    \/ EndDestruction

Spec == Init /\ [][Next]_vars

-----------------------------------------------------------------------------
\* Conditions on the plugins, for some of what follows.

\* The plugins that a manager can know.
NamesOf(m) == DOMAIN StaticPlugins[m] \cup UNION {DOMAIN Catalog[m][d] : d \in Directories}

\* No name is one of two managers' plugins.
NamesDistinct == \A m, k \in Managers : m # k => NamesOf(m) \cap NamesOf(k) = {}

IsStatic(n) == \E m \in Managers : n \in DOMAIN StaticPlugins[m]

\* What plugin files depend on ranks below them, static plugins aside: a
\* plugin does not depend on itself, also not with files of several directories.
Ranks(rank) ==
    \A m \in Managers, d \in Directories : \A n \in DOMAIN Catalog[m][d] :
        \A k \in ToSet(Catalog[m][d][n].depends) : IsStatic(k) \/ rank[k] < rank[n]

NoCycles == \E rank \in [Names -> Nat] : Ranks(rank)

\* A plugin comes before those of its manager that it depends on, static ones
\* aside, in the order of names.
DependentsFirst ==
    \A m \in Managers, d \in Directories : \A n \in DOMAIN Catalog[m][d] :
        \A k \in ToSet(Catalog[m][d][n].depends) :
            k \in NamesOf(m) \ DOMAIN StaticPlugins[m] => n < k

-----------------------------------------------------------------------------

TypeOK ==
    /\ managers \subseteq Managers
    /\ directory \in [Managers -> Directories]
    /\ externalManagers \in [Managers -> SUBSET Managers]
    /\ \A m \in Managers : DOMAIN plugins[m] \subseteq Names /\ DOMAIN aliases[m] \subseteq Names
    /\ \A m \in Managers : Range(plugins[m]) \cup Range(aliases[m]) \subseteq Objects
    /\ DOMAIN objects \subseteq Objects
    /\ \A o \in DOMAIN objects : /\ objects[o].loadState \in LoadState
                                 /\ objects[o].usedBy \in Seq(Names)
                                 /\ objects[o].uses \subseteq Objects
                                 /\ objects[o].instances \in 0 .. MaxInstances
    /\ \A i \in DOMAIN stack : stack[i] \in Frame
    /\ destroying \in Destruction \cup {None}

\* A plugin that a loaded plugin was linked to stays loaded and registered, in
\* its manager, which stays alive: "plugin is required by other plugins"
\* (unloadInternal()).
UsesLoaded ==
    \A o \in DOMAIN objects : \A q \in objects[o].uses :
        q \in DOMAIN objects /\ Registered(q) /\ IsLoaded(q)

\* The usedBy list of a plugin names exactly the loaded plugins that were linked
\* to it, each as often as there are such plugins: no failed load leaves an
\* entry behind, no unload takes the entry of another.
UsedByExact ==
    \A q \in DOMAIN objects, n \in Names :
        Cardinality({i \in DOMAIN objects[q].usedBy : objects[q].usedBy[i] = n}) =
        Cardinality({o \in DOMAIN objects : q \in objects[o].uses /\ o.name = n})

\* Unloading never runs into the assertions of unloadInternal(): by name, it
\* finds the very plugins the plugin was linked to, though their names are
\* looked up anew.
DependenciesFound ==
    Idle => \A o \in DOMAIN objects : CanUnload(o) => Dependencies(o) = objects[o].uses

\* An alias leads to a registered plugin that has this name or provides it, so
\* metadata(), load() and instantiate() never use a plugin that is gone.
AliasesSound ==
    \A m \in managers : \A x \in DOMAIN aliases[m] :
        LET o == aliases[m][x] IN
        /\ o \in DOMAIN objects
        /\ Registered(o)
        /\ x = o.name \/ x \in objects[o].metadata.provides

\* A plugin loaded from a path replaces no plugin that is loaded: "we already
\* checked above that it's *not* loaded" (load()), before the dependencies were.
ReplacesUnloaded ==
    stack # <<>> /\ ~Registered(Top.object) =>
        LET m == Top.object.manager
            n == Top.object.name
        IN  n \in DOMAIN plugins[m] => ~IsLoaded(plugins[m][n])

\* A plugin with an instance that the manager may not delete stays loaded and is
\* found by its real name, whatever is loaded, unloaded, scanned or destroyed,
\* until the application deletes the instance; its destructor finds the list it
\* is in (the assertions of reregisterInstance()).
InstancesKept ==
    [][\A o \in DOMAIN objects :
            objects[o].instances > 0 /\ ~objects[o].metadata.deletable =>
                o \in DOMAIN objects' /\ Registered(o)' /\ IsLoaded(o)']_vars

\* The destructor "unloads all plugins" (AbstractManager.h), before it frees them.
AllUnloaded ==
    destroying # None /\ destroying.at = None /\ destroying.left = {} =>
        \A o \in Range(plugins[destroying.manager]) : objects[o].loadState # "Loaded"
=============================================================================
