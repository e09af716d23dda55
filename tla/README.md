# Corrade: TLA+ specifications

Corrade (`src/src/Corrade`) is a C++ utility library: containers, strings and
file system helpers, and on top of them a handful of components that keep
state across calls, call back into the application, or read and write a format.
These components are specified here in TLA+, model-checked on small instances
with TLC, and their central properties are proved with TLAPS for every instance.

Contents: [inventory](#1-inventory), [modules](#2-modules-and-the-code),
[runs](#3-runs), [departures](#4-where-the-code-departs-from-what-it-says),
[proofs](#5-proofs), [limits](#6-what-is-not-covered), [plan](#7-plan).
`PROJECT.json` lists the components, runs, theorems, hazards and findings, and
for every definition the lines of code it stands for.

## 1. Inventory

The library has no threads of its own and its classes are documented as not
thread-safe (PluginManager, Tweakable) or leave it to the caller. What is hard
to test is therefore not parallelism but **reentrancy** (an application callback
that calls the object that is calling it), **stale references** (iterators,
addresses, names, indices or time stamps kept across a call that may invalidate
them), **failure half way** through recursive or multi-step operations, **long
sequences of legal calls**, and the one true concurrency: a file system that
changes while the program looks at it.

| Component | State | Operations | Interacts with | Hard | Must hold |
|---|---|---|---|---|---|
| Interconnect: `Emitter`, `Receiver`, `Connection` | multimap of connections, a mirror list in each receiver, emission counter, change flag, one iterator per running `emit()` | connect, disconnect (one, per signal, all, per receiver), destruction of either end, emit | the slots it calls, which may do any of this | the multimap changes under the iterators of running emissions; nested emissions; addresses that are reused | both ends of each connection agree; no iterator of an erased node is advanced; every connected slot is called exactly once; emissions end |
| Interconnect: `StateMachine` | table, current state | `step()` emits *exited*, *stepped* and *entered*, then assigns; transitions are added | Emitter; slots that step again | reentrant steps between the signals and the assignment | the machine ends where the outermost step leads; its signals tell its path |
| PluginManager: `AbstractManager`, `AbstractPlugin` | directory, plugins, aliases, external managers, per plugin its state, users and instances | construct, set/reload directory, prefer, load by name or path, unload, instantiate, delete, destroy | other managers (dependencies), instances, the file system | recursive load that fails at any level; names resolved again later; objects replaced behind references; destruction order | what is used stays loaded, usedBy is exact, aliases never dangle, instances survive, nothing stays open |
| Utility: `FileWatcher` | remembered modification time, validity | construct, `hasChanged()` | the file system, an editor | clear-then-populate saves, deletion and recreation, the first look | no version is missed |
| Utility: `Tweakable` | variables with their values and scopes, watchers, the current scope | enable, use of a variable, scope, update | FileWatcher, editor, scope lambdas | edits during an update, an update that fails in the middle, nested scopes | values and scopes follow the files |
| Utility: `JsonWriter` | stack of open levels, what is expected next, separators, whitespace prefix | begin/end object and array, compact arrays, key, value, token | none | any nesting, compact arrays in others | the output is JSON, laid out as asked; exactly what is documented is accepted |
| Utility: `Json` | text, flat token list, unescaped strings; a token's 64 bits hold a type, a child count or a value | tokenize, parse by token, subtree or array, as any type | JsonWriter | in-place reuse of bits, failures in the middle, repeated parses as other types | accepts exactly JSON; tree, types and strings stay right |
| Utility: `Configuration`, `ConfigurationGroup` | tree of groups and values, flags, file name, a pointer from every group to its configuration | open, edit, copy, move, assign, save, destroy | the file, other programs that write it | pointers across copies and moves; headers left out; a mark that decides whether to save | what is saved reads back; pointers are exact; changes are saved |
| TestSuite: `Tester` | selection, loop over cases and repeats, scopes, counters | `exec()`, checks, skips, expected failures, iterations, benchmarks, exceptions | test code | setup, repeats and failures in combination | the right cases run; no repeat inherits anything; counts and exit code are right |
| Utility: `parseNumberSequence()` | one pass over a text | parse | Tester options | limits of 32 bits, ranges without ends | the numbers are those written |
| Containers: `LinkedList`, `LinkedListItem` | intrusive links, ends | insert, cut, move of lists and items, clear | destructors of items during `clear()` | moves repoint everything; `clear()` keeps a pointer to the next item while a destructor runs | links agree and give the order; `clear()` goes on with items of its list |
| Containers: growable `Array` | memory, size, deleter | append, insert, remove, reserve, resize, shrink | constructors and destructors of elements | shifts that overlap raw memory; inserting from itself | each element is constructed and destroyed once; contents are right |
| Utility: `Arguments` | entries, their values, whether the last parse succeeded; the locals of the loop over the command line | parse, error callback, move | other parsers of the same command line, the application's callback, Tester's options | what an element is depends on those before it, errors that are taken, prefixes | every element is read as documented and by the parser it belongs to |
| Utility: `Resource`, `Path`, `Debug`, strings, hashing, formatting; views and owning containers; `Cpu` | values, views, tables built before `main()` | pure functions, OS calls | none | index arithmetic, bytes | results of single calls |

All rows but the last are specified. The parts of the last are listed in
`PROJECT.json` with the reason why they are left out.

How the modelled components touch: a StateMachine is an Emitter; Tweakable owns
one FileWatcher per source file; managers know each other as external managers;
JsonWriter takes tokens of Json, and Json reads what JsonWriter wrote; Tester
reads its command line with Arguments and its `--only` and `--skip` with
`parseNumberSequence()`. These are composed.
The others share nothing, so each is specified with the application as its
environment.

## 2. Modules and the code

### SignalBus, Interconnect, InterconnectProofs, MCInterconnect

`SignalBus` is the promise of the component without its mechanism: a set of
connections and a stack of emissions, each of which calls only connected slots,
none twice, and ends only when all that are connected by then have been called.

`Interconnect` is the code. `connections` is `Emitter::_connections` of all
emitters, keyed by the address of the node, because receivers and `Connection`
handles keep that address and the allocator may hand it out again; `Freed` is an
address without a node. `receiverConnections`, `lastHandledSignal` and
`connectionsChanged` are the members of the same names. `frames` is the C++ stack
of `emit()` calls: `at` is the node whose slot runs, `ahead` the nodes from the
iterator to the end of the range. The order of equal keys in an
`unordered_multimap` is unspecified, so the next node is any one ahead. `called`
is history. One action is one call of the application, except `emit()`, which is
five: `Emit`, `CallSlot`, `SkipNode`, `SlotReturns` (with the re-fetch of the
range if the flag is set) and `EmitReturns`. All application calls are enabled
outside of emissions and in the slot that runs, so a slot may do anything,
including what destroys its own receiver. Destroying an emitter during its own
emission is documented as undefined (Emitter.h:279-281) and is not a step.

Constants choose the environment: `NestSameEmitter` (whether slots emit on an
emitter that is already emitting), `WrapAround` (whether the 32-bit counter may
wrap), `MaxDepth`, `MaxHandles`.

### StateMachine, MCStateMachine

`transitions` and `current` are the table and `_current`. A frame of `steps` is
a `step()` that has not returned; its `signal` is the one whose slots run. `Step`
emits *exited*, `ExitedReturns` and `SteppedReturns` the next two, each with what
the current state is by then, and `EnteredReturns` assigns. Slots may call
`step()` or `addTransitions()` at any of them. `signals`, `nested` and `target`
are history. Which slots a signal calls is Interconnect's business. The names that
Interconnect has too are `MachineInit`, `MachineNext`, `MachineSpec` and
`MachineTypeOK` here: the proofs about both are in `InterconnectProofs`.

### PluginManager, PluginManagerProofs, MCPluginManager

Several managers at once. `plugins[m]` and `aliases[m]` map names to *objects*
(addresses), since aliases are references to `Plugin` objects; an object is a
manager, a name and one of two addresses, so that a plugin which replaces another
of its name is told apart from it. `objects` holds the contents, `stack` the
recursion of `loadInternal()`, `destroying` the loop of the destructor. `uses` is
history: to which objects a module was linked when it was loaded. Loading is a
sequence of actions (`Load` or `LoadPath`, then `RecordDependency`,
`LoadDependency`, `FailLoad`, `OpenModule`, `OpenModuleAtPath`), because it is
recursive and may fail after any dependency; likewise the destructor
(`BeginDestruction`, `VisitPlugin`, `DescendToUser`, `UnloadVisited`,
`EndDestruction`). Every other call is one action, with the alias refresh that
ends `setPluginDirectory()` included. A module may fail to open at any time;
closing one may fail too, with the same resulting state.

Assumed: files in a directory do not change; static plugins are registered in the
order of their names (the global list's order is that of static initialisation);
metadata name a dependency once; no cycle of dependencies is reached.

### FileWatcher, Tweakable, TweakableProofs, MCTweakable

`FileWatcher` has the files (`content`, `modified`), a watcher per file
(`_time` and the `Valid` flag) and an editor that saves (also recreating the
file), clears (new modification time), populates (the same time) and deletes.
`Reports` is the return value of `hasChanged()`, `Checked` its effect, the early
returns in order: invalid, no file, first look, changed and not empty. `seen` is
history: the version the watcher knows.

`Tweakable` extends it. `storage`, `scopeOf` and `currentScope` are the fields of
`TweakableVariable` and `Data`; a variable is registered when it has a storage.
`calls` is the stack of scope lambdas, each with what it has still to do according
to `Body`; `direct` tells those that `update()` calls, which do not go through
`scopeInternal()`. `update` is the local state of `update()`: files to look at,
the file about to be read, scopes to run. Looking at a file (`CheckFile`) and
reading it (`ReadFile`) are separate actions, with the editor in between; if the
file is gone by then the program ends in an assertion (`AssertionFails`).
Parsing is abstracted to one outcome per literal: a value, a request to
recompile, a parser error or a syntax error; `FailsAt`, `Parses` and `Affected`
say which variables are written before a failing literal and whose scopes were
collected. `used`, `parsed` and `lost` are history: the values a scope last ran
with, the variables an update has parsed, the scopes a failing update dropped.

Assumed: a file is read in one piece, no two saves have the same modification
time, `update()` is called from the event loop and not from a scope lambda, and
`enable()` not from a scope lambda (Tweakable.h:290).

### JsonGrammar, JsonDocument, JsonWriter, Json, JsonRoundTrip, JsonProofs

A text is a sequence of lexemes; a lexeme is a punctuation mark or a class of
scalars that the code tells apart (a string with and without escapes or with
invalid ones, numbers by which types can hold them, literals). `JsonGrammar` is
the reference: `IsJson`, `IsJsonPrefix`.

`JsonWriter` has one record `state` for the members of its `State`: `expecting`,
the stack `levels`, the whitespace string, and `out` with its newlines. One action
per call, its assertions as guards; `finalizeValue()` and
`writeCommaNewlineIndentInternal()` are operators on the state, in the order in
which the calls use them. `JsonDocument` is the promise of the documentation
about the order of calls, which `JsonWriter` is shown to implement.

`Json` reads one lexeme per step, as the switch of `tokenize()` does, with the
index of the surrounding container kept in the bits of the child count until the
closing bracket swaps the two. A token has what the masks of `JsonToken` can
tell: type bits or a wide number in their place, flags, child count or copy index,
and the type bits of its size. Then any parse call, for one token, a subtree or an
array, in any order, as any type, each with the effects it leaves when it fails.

`JsonRoundTrip` composes them: a writer writes a document, a Json instance reads
and parses it with some options, and `writeJson(JsonToken)`, whose recursion is
the actions `CopyToken` and `CopyEnd`, gives it to a second writer, an INSTANCE of
the same module. Or any text is read and parsed in any way.

### ConfigurationText, Configuration, ConfigurationProofs, MCConfiguration

`ConfigurationText` is the file: lines (a header is a path of names, a pair a key
and a text), `Parse`, the loop of `Configuration::parse()` with its return from
nested groups, and `Saved`, what `save()` writes, with quoting and the headers it
omits. A text is a class of strings by leading space, quotes and fence, which is
what trimming and quoting look at. A group is an element of a sequence with its
depth, the tree in the order of its headers.

`Configuration` has instances (`groups`, `flags`, whether `_filename` is set), one
standalone `ConfigurationGroup`, and the file, which other programs may rewrite
and permissions may protect. Every edit is an action on any group of any instance,
with the mark it sets through the group's pointer; copies, moves and assignments
between instances and the standalone group repoint what the code repoints. The
destructor saves what is marked. `removeAllValues()` and `removeAllGroups()` are
folds from the last to the first, as their loops are. `synced` is history: what was
last read or written. `AnyText`, `AnyItem` and `AnyGroup` are what texts, values and
groups may be at all: the constants are assumed to be of these types.

### Arguments, NumberSequence, Tester, TesterProofs, TestProgram, MCTester

`NumberSequence` is `parseNumberSequence()`, one fold over characters with the
locals of the loop, `Limit` in place of 2^32, and next to it the meaning of a
text, written independently (`Denotes`).

`Tester` follows `exec()`: `configure`, then for each used test case and repeat
`setup`, the function, `teardown` and the `result`. In the function any macro may
come next: a check that passes or fails, a skip, an exception, or the begin or
end of a block with an expected failure, an iteration or a benchmark. What the
macros and `exec()` share (`checked` for `_testCaseLine`, `expectedFailure`,
`iterationPrinter`, the counts) is the state; `scopes` are the objects of the
blocks, destroyed innermost first by whatever leaves them. A test case that is
registered with no repeats has its `result` at once, judged by the line the case
before it left behind (Tester.cpp:554). `log`, `checks`, `surprised`, `fixtures` and
`overlapped` are history.

`Arguments` is `tryParse()` of the parsers of a `program`, called one after the
other. An iteration of the loop is one action, by what the element is taken for
(`ReadValue`, `ShortOption`, `Separator`, `LongOption`, `Word`); `locals` are the
locals of the loop, among them the option that waits for its value and the two
offsets into an element. `Fail` is an error: the callback takes it and the loop
continues with the locals as they are, or the call returns. `OffsetsLeft` is what
offsets lead to that are left over: an assertion, or a read behind the end of the
element. After the loop, `EndScan`, `AssignWords` and `CheckMissing`. `passed`,
`taken` and `outcomes` are history. Next to it is what a command line means,
element by element and without the loop (`Roles`, `Errors`, `Meaning`), which is
what the outcomes are compared with. A key or value is a short text, since
prefixes, packs and equals signs are texts within texts.

`TestProgram` composes: `exec()` declares `TesterEntries`, `ParseExits` is
`parse()` on help or an error, `ReadOptions` takes the options from the values that
were read, and `Tester` runs by them. A program without a suite is over when its
parsers are.

### LinkedList, GrowableArray, Containers, ContainersProofs, FoldFacts, MCContainers

`LinkedList` has the links of items and lists in one record, `Inserted` and `CutOut`
as the two functions do it, and the calls built of them. A frame of `clears` is a
`clear()` that has not returned, on its own, in `operator=()` or in the destructor of a
list (`then`). `EraseNext` reads the pointer to the next item, asserts and enters the
destructor of the item; until `EraseReturns`, at the end of that destructor, the
application may make any call on this and other lists, `clear()` included; with
`ClearReturns` the loop is over. `fault` is what stops the program: the assertion of
`erase()`, an item that is used or deleted after its end, or a list with items whose
ends are overwritten. `order` is history, and so is `disturbed`, the calls of
`clear()` in progress during which someone changed what comes next in their list (or
started to erase an item of it in another `clear()`).

`GrowableArray` is memory: a row of cells, raw or with an element, possibly moved
from. The loops of the code are folds over places, `Upwards` from the front or
`Downwards` from the back (`DestructEach`, `MoveConstructEach`, `MoveAssignEach`,
`CopyOutside`, `CopyOwn`): `ShiftForward` and `ShiftBackward` are built of them in
the order of the code. A step sets `fault` when it constructs over an element or
uses a raw cell, `Allocate` when it frees memory with elements in it. Capacities follow
`ArrayAllocator::grow()` with `ElementSize`, `Offset` and `Alignment`. `contents`
is history. `Containers` puts both in one state space; they share nothing.

## 3. Runs

"Pass" runs must hold; "violation" runs show where the code departs from what its
documentation, comments or assertions say. Distinct states, two workers.

| Run | Expect | States | Checks |
|---|---|---|---|
| `interconnect` | pass | 583,000 | `EndsAgree`, `NoDeadEnds`, `IteratorValid`, `Delivered`, and that Interconnect implements SignalBus |
| `interconnect_live` | pass | 547,000 | `EmissionsEnd`, with kept handles |
| `interconnect_nested` | violation | | `IteratorValid`: a slot that disconnects and then emits on the emitter that called it clears the flag the outer loop needs |
| `state_machine` | pass | 6,100 | `OutermostStepWins`, `SignalsTellPath` |
| `plugin_manager` | pass | 136,000 | `UsesLoaded`, `UsedByExact`, `DependenciesFound`, `AliasesSound`, `AllUnloaded`, `InstancesKept` |
| `plugin_destroy` | violation | | `AllUnloaded`: the destructor leaves a plugin open whose user sorts after it |
| `tweakable` | pass | 528,000 | `NoEditMissed`, `ValuesCurrent`, `ScopesCurrent`, `ValuesArrive` |
| `json` | pass | 157,000 | the writer: `ExpectingFollowsPlainLevel`, `WritesJson`, `ImplementsDocument`; the reader: `AcceptsJson`, `TreeExact`, `StringsOwned`, `ArrayViewsTyped`, `StaysParsed`; both: `RoundTrip` |
| `json_compact` | violation | | `ExpectingFollowsLevel`: after a compact array ends in an array, the array is taken for a compact one |
| `configuration` | pass | 386,000 | `ReadsBack`, `PointersExact`, `ChangesSaved` |
| `tester` | pass | 266,000 | the command lines: `LinesRead`, `PrefixesSplit`; the tests: `RunsAsSelected`, `RepeatsIsolated`, `CountsExact`, `ExitCodeExact` |
| `containers` | pass | 96,800 (symmetry) | `OrderExact`, `ClearsSound`, `LifetimesExact`, `ContentsExact` |

Every property of a passing run is broken by a mutant: a `..._Mutant` operator
next to the definition it replaces, a plausible bug of that code (a dropped guard,
a missing reset, a forgotten case). They are part of the modules, but no
specification refers to them.

### Bounds

* **interconnect**: two emitters, a receiver, two signals, three addresses and
  function slots. Three nodes of one signal are what the loop can distinguish: the
  one at the iterator, one handled before, one connected meanwhile; two emitters
  and depth two give an emission inside another. `CounterValues = 3` allows two
  emissions of an emitter, the second of which meets marks of the first.
  Addresses are fewer than possible connections, so they are reused. Symmetry is
  used, which is sound for the safety properties of this run.
* **interconnect_live**: without symmetry, with two addresses, one emission in an
  emitter's life (an emitter may be destroyed and constructed any number of times)
  and one kept handle, dangling or not. Two signals, because a slot that
  disconnects an *empty* signal still sets the flag: without the marks that alone
  would keep an emission going.
* **state_machine**: three states and one input, so a table has paths, loops and
  no-ops; two nested steps and nine signals, which is three steps, one of them in
  a slot of another.
* **plugin_manager**: two managers, food that depends on two animals one of which
  depends on the other and on a static one, an alias two plugins provide, a second
  directory where a plugin is broken and another provides less. Every load can
  fail at each level, and each of load, unload, scan and destroy meets plugins
  that are used, instanced, replaced or static. Here dependents sort before what
  they depend on: `plugin_destroy` shows what happens otherwise. Likewise names
  do not coincide across managers: see `plugin_unload.cfg` in section 4.
* **tweakable**: two files of two variables, a scope that runs another, a variable
  also used outside, two saves and any number of populations and deletions. The
  contents are the compiled values, changed values and a change followed by an
  error, so an update can succeed in one file and fail in the other, in either
  order. Two saves give a failure and its correction, or a save between looking
  at a file and reading it.
* **json**: documents of four items, which is a container next to and inside
  another; with and without wrapping, indentation and an initial indentation,
  compact arrays wrapped after two values or never; texts of seven lexemes of
  every class, enough for two containers with a key in one; three unescaped
  strings, so one follows a failed one; parse options that parse everything,
  keys only, or nothing.
* **configuration**: every text of up to three lines is opened and every text of
  up to two lines gets one more call; three longer texts (nested groups, a text with
  comments, quotes and fences, one from Windows) get two more. Saving, destruction
  and other programs are not counted. Two instances and the standalone group,
  groups to depth three (the depth at which a parent's header is omitted for a
  grandchild), two items per group.
* **tester**: three families of test executables: two test functions that use up to four
  macros in any order, with repeats (or none) and the options that change their judgement;
  functions that do nothing with every selection of `--skip-*`, repeats and
  shuffling; and every text of up to four characters for `--only`, with
  `Limit = 12` so that numbers overflow within two digits. Each is given on a
  command line in one of two spellings. Further programs have an application's
  parser and those of two libraries with a prefix, one of which ignores options it
  does not know, with every command line of up to three out of nineteen elements
  (packs, values behind, within and after options, unknown and invalid ones,
  skipped ones, separators); an array of words between two other arguments, with up
  to four elements; callbacks that take all or some errors; moved parsers.
* **containers**: two lists and four items, so that an item has neighbours on both
  sides while another list exchanges items with it; a `clear()` of either list within
  another one (`MaxClears = 2`), which is what a destructor that clears adds. Arrays of up to five elements
  of 8 bytes, which grow from 1 to 3 to 7, with capacities reserved up to six and
  two elements added by a call, from outside or from the array: every overlap of a
  shift (none, part, all of it raw) occurs.
* The violation runs use the smallest instance that has the scenario.

Deadlock is checked but in `tweakable`, `tester`, `configuration` and `containers`:
there the program may have ended (by an assertion, with `exec()`) or the calls and
saves that the bounds allow are used up.

### Fairness

* `Interconnect!FairSpec`: weak fairness of the emission loop, since `emit()` runs
  on like any function, and strong fairness of the return of a slot for each depth
  of the stack, since slots are functions that return: between two steps of a slot
  nested emissions come and go, hence strong. Nothing is assumed of what slots do.
  `EmissionsEnd` exempts applications that go on connecting for ever: new slots
  are called too.
* `Tweakable!FairSpec`: weak fairness of scope lambdas and of `update()` once
  called; strong fairness of calling `update()`, which the documentation asks to do
  in every iteration of the event loop (Tweakable.h:91), between which other calls
  of the application come and go. The editor is under no fairness; it stops
  because its saves are bounded. `ValuesArrive` exempts a program that has ended
  in the assertion.

The other components are called by a sequential program and finish every call in
a bounded number of steps; no liveness is stated for them.

## 4. Where the code departs from what it says

The three violation runs contradict the documentation of the code they are about
(quoted in `PROJECT.json`). The passing runs and the theorems state under which
restriction the property does hold: no emission nested on the same emitter,
dependents that sort first, arrays without a compact array in them.

A hazard in `PROJECT.json` that bites in this code and is kept out of every passing
run names no property; its note names the configuration below that shows it.

### Further departures

Each of these is shown by a configuration that is kept beside the runs; `tlc
-config <name>.cfg <module>` gives the trace, and with `-continue` one for each
property that is violated.

| Configuration | Module | Violates | What happens |
|---|---|---|---|
| `interconnect_handle.cfg` | `MCInterconnect` | `HandleStaysDead` | Emitter.cpp:72: a dead `Connection` comes to stand for another connection at its address; Emitter.h:409 warns of handles that dangle |
| `plugin_unload.cfg` | `MCPluginManager` | `DependenciesFound` | AbstractManager.cpp:951: a dependency's name leads elsewhere at unload than at load, against the assertion |
| `plugin_replace.cfg` | `MCPluginManager` | `ReplacesUnloaded` | AbstractManager.cpp:566: loading a path replaces a plugin its own dependencies loaded; the comment at :564 says it was checked |
| `tweakable_fail.cfg` | `MCTweakable` | `ScopesRun` | Tweakable.cpp:649: a failing update writes variables and never runs their scopes (Tweakable.h:213, :324) |
| `tweakable_nested.cfg` | `MCTweakable` | `ScopesRun` | Tweakable.cpp:96: a variable used after a nested scope belongs to none (Tweakable.h:120) |
| `tester_ranges.cfg` | `MCTester` | `RunsAsAsked` | String.cpp:1299: in `1-99999999999,3` the number that is too large is dropped and its range start applies to the next piece: 1, 2 and 3 run (String.h:222) |
| `arguments_documented.cfg` | `MCTester` | `ReadsWhateverIgnored` | Arguments.cpp:636, :743: an error that the callback takes in a pack, or of a boolean option with a value, leaves the offset of the element behind: what follows fails the assertion of :588 or :817 or is read from there. Arguments.h:845 says that the error is ignored and parsing continues. Arguments.cpp:188: a moved parser has lost the values of its arrays and which argument is the final optional one: it fails the assertion of :515, or misses that argument |
| the same | `MCTester` | `PrefixesMix` | Arguments.cpp:677: a value of the application's option that looks like an option of the library is read by both, and one that is `--` ends the options of the library alone; Arguments.h:108 says that they can be mixed without restriction |
| the same | `MCTester` | `ParsedTellsSuccess`, `HelpAnywhere` | Arguments.cpp:901: a second call that returns at an error keeps the `Parsed` flag of the first, against the comment; an error before `--help` ends the parse, so that `parse()` exits with 1 where Arguments.h:61 promises help, ignoring all other arguments |
| `containers_clear.cfg` | `LinkedList` | `ClearsWhatever` | LinkedList.h:393: `clear()` keeps the pointer to the next item while a destructor runs; one that cuts the next item out makes the assertion of :385 fail, one that deletes it leaves the pointer dangling. LinkedList.h:233 says that destructors of subclasses can access the item while it is still connected, with no restriction |
| `configuration_clear.cfg` | `MCConfiguration` | `ChangesSaved` | ConfigurationGroup.cpp:389: `clear()`, and assigning to or moving from a group, mark nothing; the destructor then saves nothing |
| `configuration_nameless.cfg` | `MCConfiguration` | `ReadsBack`, both ways | Configuration.cpp:195: `[a/]` is accepted as a group without a name, which cannot be saved; the documentation asks for a non-empty name. Configuration.cpp:241: `=word` is accepted as a value without a key and saved as `word`, which is refused |
| `configuration_quotes.cfg` | `MCConfiguration` | `ReadsBack` | Configuration.cpp:337: values with a leading quote, or with a line that is a fence, are saved as they are |

Seen in the code while modelling, without a configuration of their own:

* an expected failure stated inside another replaces it and clears it at its end
  (Tester.cpp:1128, `@todo` at :1123); `CountsExact` exempts such runs;
* a test case registered with no repeats is judged by whether the one before it made
  a check (Tester.cpp:554, :618);
* `parseFloat()` of a double too large for it gives infinity, which `writeJson()`
  of the token then refuses with an assertion (Json.cpp:889);
* `save()` does not take the `Changed` mark back, so the destructor writes again,
  over what another program wrote meanwhile; moving over a changed configuration
  drops its changes; an empty line at the end of the text is lost with each save;
* `arrayResize()` with an element of the array itself as the value reads it after
  the array may have moved;
* a plugin kept through a change of directory is opened from the new directory
  with the metadata of the old one (AbstractManager.cpp:609);
* a file deleted between `hasChanged()` and the read ends the program in an
  assertion (Tweakable.cpp:628).

## 5. Proofs

**InterconnectProofs** (any emitters, receivers, signals, addresses, counter
width, nesting depth; only `InterconnectAssumption`, which says that the special
values are none of the ordinary ones):

* `TypeCorrect`: `Spec => []TypeOK`.
* `EndsCorrect` and `NoneDangling`: `Spec => []EndsAgree` and `Spec => []NoDeadEnds`,
  nested emissions on one emitter included. The inductive invariant `Ends` is the
  conjunction with `TypeOK`. Neither half is inductive alone: that
  `disconnectAllSlots()` clears the right nodes needs the receiver's list to be exact
  (`EndsAgree`), and that a receiver constructed at the place of another one starts
  with no connection needs `NoDeadEnds`. `Found(r)` being exactly the nodes of `r`,
  though the code compares only address, emitter and signal, is lemma
  `ClearSlotsErases`.
* `IteratorsCorrect`: `~NestSameEmitter` implies `Spec => []IteratorValid`. It needs
  that an emitter emits at most once at a time (`OneEmission`) and that only the
  innermost emission can be between two slots (`OnlyTopIdle`): so a change always
  finds the emission of its emitter in a slot, and the flag it sets is read before
  the iterator is used. Without the restriction the statement is false: run
  `interconnect_nested`.
* `AllDelivered`: `~NestSameEmitter` and `~WrapAround` imply `Spec => []Delivered`.
  The code remembers what it called in marks on the nodes, so `Marks` relates these
  to the history: no mark is ahead of its emitter's counter, which an emission has
  counted up (`MarksPast`, `CountersStarted`), a node that an emission called has the
  counter as its mark (`CalledMarked`), and a node that is neither called nor ahead is
  one that a change brought which the emission has still to be told of
  (`NoneMissed`). With a counter that wraps, `MarksPast` is false, and so is the
  property (section 6).
* `ImplementsBus`: under the same restriction, `Spec => Bus!Spec`. The stack of
  frames maps to the stack of emissions one by one, so each call of the application
  is a step of the bus on `connected` alone; `CallSlot` is the bus's step because an
  unmarked node ahead is connected and was not called, by `IteratorValid` and `Marks`;
  skipping a node and fetching the range again are stutters; `EmitReturns` is the
  bus's end by `Delivered`.

**InterconnectProofs**, about StateMachine (any states, inputs, transitions and depth):

* `OutermostStepAlwaysWins`: `MachineSpec => []OutermostStepWins`. The invariant adds that
  the frame at the bottom of the stack leads to the target of the outermost step,
  which no step above it touches, and which is the last to assign.
* `SignalsAlwaysTellPath`: `MachineSpec => []SignalsTellPath`. Without nested steps the stack
  is one frame at most, and which signal it is at is the length of the history
  modulo three.

**PluginManagerProofs** (any managers, names, directories, plugin files and
dependencies; from `PluginManagerAssumption`, which says that managers and names are
numbered and files have metadata, and `NoneAssumption`, that `None` is no object).
Of any plugin files, cycles included:

* `AliasesAlwaysSound`: `Spec => []AliasesSound`.
* `InstancesAlwaysKept`: `Spec => InstancesKept`, an action property.

Both come from `ManagerInv`. That an alias leads to a registered plugin
(`AliasesLead`) needs that the maps lead to objects of their manager and name
(`RegistrySound`): the plugin that takes the place of its namesake then takes
exactly the namesake's aliases away (`ReplaceStep`). That no replacement loses an
instance needs that a load by path, while its dependencies load and fail, is the
only one of a plugin that is not registered and that the namesake, unloaded when
the load began, has no instance by the time it ends (`LoadsSound`): instances are
made outside of loads only. Whoever has instances is loaded and registered
(`InstancesHeld`), so a change of directory keeps it (`PopulateStep`, one lemma
for the constructor and `setPluginDirectory()`), and a manager is only destroyed
when it may delete what instances it has (`DestructionSound`).

What plugins use depends on the names in their files, so the other theorems have
conditions on these, stated in `PluginManager`: no name is of two managers
(`NamesDistinct`); static plugins aside, what plugins depend on can be ranked, over
all directories (`NoCycles`); and a plugin comes before those of its manager that it
depends on, static ones aside, in the order of names (`DependentsFirst`). They
hold of the plugins of the run `plugin_manager` (`OrderedAssumption`, which TLC
evaluates); `plugin_unload.cfg`, `plugin_replace.cfg` and the run `plugin_destroy`
show what is false without the first, the second and the third.

* Under `NamesDistinct` and `NoCycles`: `UsesAlwaysLoaded` (`Spec => []UsesLoaded`),
  `DependenciesAlwaysFound` (`DependenciesFound`) and `ReplacesAlwaysUnloaded`
  (`ReplacesUnloaded`). The invariant is `UsesInv`. Beyond `ManagerInv` it says that a
  loaded plugin is registered and was linked to plugins with exactly the names in its
  metadata, which are registered, loaded, within reach of its manager and know it as
  a user (`UsesSound`): so none of them can be unloaded or scanned away before it. A
  `load()` that has found some of its dependencies relies on these though they do not
  know it yet (`FramesSound`): nothing is unloaded meanwhile, and a nested `load()`
  replaces nothing, because only the outermost one can be by path and what is loaded
  for it ranks below it, so its namesake is still unloaded when it takes its place.
  That a name leads to the plugin it led to at the load is `DependenciesAreUses`; that
  static plugins stay what they are, `FilesSound`; that nobody outside needs a manager
  being destroyed, `LoopSound`.
* Under `DependentsFirst` as well: `UsedByAlwaysExact` (`UsedByExact`) and
  `AllAlwaysUnloaded` (`AllUnloaded`). `UsersExact` adds that a list of users has no
  plugin twice and none that does not use this one; the destructor of a manager would
  leave such entries in another one if it left plugins loaded, so this goes together
  with `VisitedUnloaded`: a plugin of the manager that is loaded is still to be
  visited, or is the one the loop is at, with no user left. When the loop comes to a
  plugin its users have gone: they come before it in the order of names
  (`VisitVisited`). The model's metadata name a dependency once (section 2); with a
  name twice the code would list the user twice.

**TweakableProofs** (any files, contents, variables, scopes, number of saves):

* `WatchersCorrect`: if the watchers ignore changes to empty files,
  `FilesSpec => []NoEditMissed`. The invariant `Watching` adds that remembered
  times are past (`Times`), that a known version implies a look at the file
  (`KnownWatched`), and the key, that a watcher which knows a version never
  remembers the time at which the file was cleared (`EmptyNotKnown`); populating
  the file leaves its time as it is, and only that makes it noticed.
* `ImplementsFileWatcher`: `Spec => FilesSpec`, each step of Tweakable is one of the
  editor and the watchers or leaves them alone; `NoEditMissedByUpdate` follows.
* `ValuesAlwaysCurrent`: `Spec => []ValuesCurrent`. `ValuesInv` has `Watching`, that a
  watched file is known once it was reported (`ParsedKnown`), that no watcher loses
  its validity, since the flags ignore errors (`Valid`), and the property itself for
  every file but the one reported and not yet read (`ParsedCurrent`): between looking
  at a file and reading it the editor may act, and then the watcher reports again.
* `ScopesAlwaysCurrent`: `Spec => []ScopesCurrent`. In the middle of an update or of
  lambdas the statement does not hold, so `UsesKept` says where a scope is that has to
  see a changed variable: lost, waiting to be run, or running with the use still
  ahead of it (`Pending`). That the current scope is none or the lambda on top of the
  stack, and never one that `update()` called (`CurrentSound`), is why a variable gets
  a scope that uses it (`ScopeOfSound`). From `TweakableAssumption`, which says in
  addition that scopes and variables are told apart.

**ContainersProofs**, about LinkedList (any lists and items):

* `LinksAlwaysAgree`: `ListSpec => []LinksAgree`, with the type invariant: the links of
  neighbours, lists and ends agree. What `insert()` and `cut()` do to links that agree
  is proved once each, about any links; an operation that uses both is two steps. This
  (`ListInv`) is the base of the next two.
* `OrderAlwaysExact`: `ListSpec => []OrderExact`. `Exact` says that the order has the
  list's items, each once, and that the link of each leads to the next, so the
  proof is about sequences: inserting into one and taking an item out of one
  (`InsertedOrder`, `CutOrder`), a list or item that takes the place of another
  (`AdoptedOrder`, `ReplacedOrder`). It holds in the destructors of items that are
  being erased, whatever they call, up to a `fault`, after which nothing is modelled.
* `ClearsAlwaysSound`: `ListSpec => []ClearsSound`, for any depth of `clear()` in
  `clear()`. `ClearsInv` says of every frame, not only of the innermost one, that its
  pointer is the item that comes next in the order of its list once the erased one is
  gone, unless the frame is disturbed (`Quiet`). The steps of an inner `clear()` keep
  that for the outer frames or mark them; that the loop keeps it for its own frame
  needs `Exact`, since the pointer is read from the links and the statement is about
  the order. It does not say that destructors leave the list alone: section 4 has what
  happens when they do not.

**TesterProofs** (any programs, suites, options, texts and number of blocks open at a
time; no assumption but for the last two theorems):

* `RepeatsAlwaysIsolated`: `ProgramSpec => []RepeatsIsolated`. The property speaks of
  the innermost iteration of all open blocks, so the inductive `Isolation` says it of
  every prefix of them (`BlocksSound`): the printer that `~IterationPrinter()` puts
  back is the innermost one of the blocks around its own. A benchmark has a
  measurement for each repeat that is over (`MeasurementsSound`), which is why the
  next one has the index of its repeat.
* `CountsAlwaysExact`: `ProgramSpec => []CountsExact`. The macros compare a result
  with one pointer, the property with all blocks around it: `OneExpected` says that
  these agree while no expected failure is stated inside another. `Blamed` relates
  the history's verdict to `aborted` and `skipped`, which are what `exec()` sees, and
  `Tallied` counts the run that is over and not yet in the log (`Pending`).
* `ExitCodeAlwaysExact`: `ProgramSpec => []ExitCodeExact`, from the same.
* `ParsedAsDenoted`: what `ParseNumberSequence` gives for a text is what `Denotes` says
  it stands for, and a sequence of numbers. The theorem is about well-formed texts
  whose ranges have numbers that fit: section 4 has what happens to others. `Parses`
  and `Stands` are the two folds, over the same text, as sequences of what they have
  after each character. At each end of a piece (`PieceStep`) the parser is a fresh one
  with what the text up to there stands for; in between it has the value of the digits
  read so far, or that they overflew for good (`RunRead`, `DigitsRead`), and the start
  of the range (`RangeRead`). From `LimitAssumption`: without a third number the first
  test case would be the mark of no range.
* `RunsAlwaysAsSelected`: `ProgramSpec /\ []OptionsTyped => []RunsAsSelected`. The
  inductive invariant is `Course`: there is a plan, which is `Repeated` or one of its
  orders, such that the runs in the log and the one under way are its first (`Ahead`)
  and the queue has the others (`Rest`), or --abort-on-fail emptied it after a run
  that failed (`Cut`). The property speaks of the whole plan only at the end, so an
  invariant about the log alone would not say that the queue is what is left.
  `RepeatsSound` counts the repeats of the run under way, `LogSound` has it of those
  that are over. The plan itself comes from folds: `Keep` leaves of the sequence asked
  for those that are not skipped, which by `ParsedAsDenoted` is `Wanted`
  (`SelectedIsWanted`); n copies of it have each test case n times as often, at the
  places modulo its length (`Rounds`, `RoundAdded`); shuffling moves the places and
  keeps how often each occurs (`TimesMoved`). `OptionsTyped` says that what
  `ReadOptions` takes from the command line are numbers, and texts of the characters
  of `NumberSequence`. It is a hypothesis because the values of Arguments are strings,
  which have no characters for the provers; TLC checks it, in `LinesRead`.
  `SuitesAssumption` says that suites are sequences of test cases.

**FoldFacts** (any step, any sequence):

* `FoldSolved`: a fold is the last of a sequence that starts with the base and goes on
  by the step, which is how the proofs about two folds compare them (`FoldNext`: one
  element more). `FoldInvariant`: what the base has and every step keeps, the fold has
  after as many steps as there are elements. These are lemmas: they say nothing of this
  code by themselves, and the theorems about the loops of the growable array,
  Configuration, Tester and Json rest on them. `FoldLeft()` is defined by recursion over
  sets of indices; `FoldExists` constructs what that recursion chooses, with the step as a
  constant operator of the module, so that an instance (`FoldFacts WITH Op <- ...,
  Holds <- ...`) gives the theorem for one kind of loop. This replaces the library's
  induction theorems, whose operator parameters the prover cannot instantiate.

**ContainersProofs**, about GrowableArray (any values, element sizes, offsets,
alignments and bounds; from `GrowableArrayAssumption`, which says that raw and moved
cells hold no value and that sizes are positive):

* `ArrayAlwaysTyped`, `LifetimesAlwaysExact` and `ContentsAlwaysExact`:
  `ArraySpec => []ArrayTypeOK`, `[]LifetimesExact` and `[]ContentsExact`.
  The inductive invariant is `Sound(array, contents)`: memory of some capacity has the
  elements asked for in its first cells, all others are raw, nothing was a fault, and
  memory that is not the growing allocator's is exactly as large as the array.
  Within an operation it does not hold, so `Opened` says what the array is between
  growing and constructing: the same elements around a gap of raw cells that the size
  counts already. `GrownBy` and `GrownAtBy` open a gap, whether memory is replaced,
  moved for the first time, or has room, `FilledOutside`, `FilledOwn` and `FilledZeros` close
  it. The loops are instances of `FoldFacts`: after k moves, the first k of the places
  are shifted (`MovesStep`), which needs that no element goes where a later one still
  is (`CanMove`): the reason why `arrayShiftForward()` starts at the back and
  `arrayShiftBackward()` at the front. `ShiftedForward` puts its three loops together;
  the cells that are constructed are those the array did not have, the ones assigned
  overlap it. `FilledOwn` is why `arrayInsert()` of a slice of the array may look for it
  at `RelocateOffset`.

**ConfigurationProofs** (any names, keys, values, texts, flags and bounds; from
`ConfigurationAssumption`, which says that the special values are none of the ordinary
ones, that set values have a line and that the files are texts):

* `TypeCorrect` and `PointersAlwaysExact`: `Spec => []TypeOK` and `[]PointersExact`.
  The types alone are not inductive, because the model keeps a tree as a sequence with
  depths: what is removed, moved or copied with a group is the groups behind it that
  are deeper. `Trees` says that no group is more than one deeper than the one before
  it and that the root is the only one at depth zero, and that all point to the owner
  of the place. Joining trees under a group, taking a group out, replacing one by
  another and changing the items of one give trees again (`InsertedGroups`,
  `RemovedGroups`, `ReplacedGroups`, `WithItems`), so every operation is one or two
  of these. For the text that is read, `Reading` says that what has been parsed is a
  tree with a root (`Rooted`) which ends in the group that the next value goes to,
  and that the header just read is one deeper at most than the part it has in
  common with the one before; `FoldFacts` carries it from line to line (`LineRead`,
  `ParsedGroups`). Two more instances of it do the loops that remove from the back,
  whose indices stay right because what is removed is behind all that are left.
* `ChangesAlwaysSaved`: `~UnmarkedCount` implies `Spec => ChangesSaved`. The invariant
  is `ChangesMarked`: what differs from the contents last read or written is marked. It
  needs that groups point to their configuration, since an edit sets the mark through
  the pointer of the group it is made on (`EditSound`): the action property rests on
  the invariant of the pointers. That the root of a
  configuration has no name (`TreesSound`) is why one that was moved compares equal to
  what it was. With `clear()` and the assignments counted the property is false: configuration
  `configuration_clear`.

**JsonProofs** (texts and documents of any length and depth, any options, and any
sequence of calls; all over the `Spec` of `JsonRoundTrip`, from `JsonAssumption` and
`WriterAssumption` on what the constants are):

* `TreeAlwaysExact`, `StringsAlwaysOwned`, `ViewsAlwaysTyped`: `Spec => []TreeExact`,
  `[]StringsOwned` and `[]ArrayViewsTyped`; `ParsedAlwaysStays`: `Spec => StaysParsed`,
  an action property; `TypesAlwaysOK`, the types of the reader and of the writer.
* `ExpectingAlwaysFollows`: `Spec => []ExpectingFollowsPlainLevel`, and
  `DocumentImplemented`: `Spec => ImplementsDocument`, the refinement of JsonDocument.

The inductive invariant is `RoundInv`, of two parts. What a Json instance keeps is
`JsonInv`. The property about the tree speaks of a text that was read to its end, so
`Tree` says what the tokens are in the middle: in the order of the text (`Ordered`);
a closed container counts exactly the tokens in its part of the text (`ClosedExact`);
an open one has in the same field the index of the open one around it (`OpenLinked`),
which is why the closing bracket finds its way back; a key is followed by its value in
the same object (`KeysSound`). `Expecting1` ties what `tokenize()` expects next to the
container it is in, so that no bracket closes an object in place of a value. That the
counts are those of the text is then `CountExact`, and that the walk back of `parent()`
ends at the innermost container around a token, `ParentExact`; both are about a tree
read to its end, with no induction over its depth. `TokenSound` says what parsing has
made of a token: its type bits follow its size bits, a number has a type that can
represent it, a string with escapes its copy.

A parsing call goes over many tokens and may give up at any of them, so it is shown to
leave what is `Good`: every token is still `Kept`, of its kind, place, flags and count,
and sound with the strings as they are by then. Each of the calls for one token keeps
this (`ParseParses`), so do the loops over a subtree, an array or the keys of an
object, as instances of `FoldFacts` (`LiteralsGood`, `NumbersGood`, `StringsGood`,
`ObjectGood`, `ArrayOfTyped`) and the options of the constructor, whose calls follow
each other (`OptionsGood`). What is good is a tree again (`TreeKept`), and whoever was
parsed stays so. `Children()` is a recursive function; that it is defined for the
children of every container is `ChildrenExist`, from the key after next lying further on
(`NextKey`).

What a writer keeps is `WriterSound`: the root is at the bottom of the levels, nothing
is on top of a compact array or one that is treated as such (`LevelsSound`), and what is
expected follows from the level on top, and from whether anything was written
(`ExpectingSound`). The middle part is why a level that is popped leaves one below for which
the same holds (`UnnestSound`). The containers of JsonDocument are the kinds of the
levels but the root's; every call of the writer, `writeArray()` with its fold over
the values included (`WriteArraySound`), is a step of it (`DocumentStep`).

Only model-checked:

* liveness (`EmissionsEnd`, `ValuesArrive`), which is out of the prover's reach;
* that what is saved reads back (`ReadsBack`): it relates two loops, the writer of
  `ConfigurationText` and its parser, over the same tree. It is false without the
  restrictions on quotes and names in section 4, so a theorem would be about a class of
  texts, and its step has to say what the parser knows after a prefix of the groups;
* that Json accepts exactly JSON (`AcceptsJson`), that JsonWriter writes it
  (`WritesJson`) and that a copy of a document is the same text (`RoundTrip`). Each
  compares the automaton with the grammar of `JsonGrammar`, which is recursive in the
  text: to say of a prefix how it continues needs an induction over derivations, not
  over the steps of a loop, and so more than `FoldFacts` gives;
* Arguments (`PrefixesSplit`, `LinesRead`), whose properties compare the loops over a
  command line with another reading of the same line, character by character: the
  provers know no characters of a string.

## 6. What is not covered

* The wrap-around of the 32-bit emission counter, after which a slot can be
  skipped: excluded by `WrapAround = FALSE`; listed as a hazard.
* Dependency cycles in the runs (unbounded recursion of `load()`), plugin
  initialisers and finalisers, the static plugin list's own registration.
* Granularity of modification times, files half written when read, path prefixes,
  the character-level parser of Tweakable.
* A literal edited before its code has run keeps its compiled value until the next
  edit (a documented warning), and a watcher that first looks at an empty file
  does not notice its population: `ValuesCurrent` speaks of variables an update has
  parsed, `NoEditMissed` of files whose version is known.
* Json: conversion of characters (a lexeme is a class of texts), positions in
  messages, expected array sizes, construction from external tokens, lookups by
  key or index, which only read. JsonWriter: spaces after commas and colons,
  `toFile()`.
* Configuration: conversion of values from and to other types, lookups. A key,
  value or name is one of a few classes of texts.
* Arguments: the declarations (data whose assertions hold of the parsers in the
  runs), help and usage text, the conversion of values to types, a callback that does
  more than return.
* Tester: the printed output, clocks and statistics of benchmarks.
* LinkedList: subclasses that replace `erase()` or override `doErase()`, and a list used
  after its end.
* Array: variants for trivially copyable types (`memcpy` and `realloc`), custom
  deleters, elements the caller constructs, throwing constructors.
* The components of the last row of section 1, and TweakableParser, `Comparator`
  and `Compare`: stateless, or calls to the operating system.
* The type invariants of PluginManager, Tweakable, Json, Tester, Configuration and
  the containers are written for the reader (and proved for LinkedList, GrowableArray,
  Configuration, Json, JsonWriter and Interconnect); the runs spend their time on the other properties.

## 7. Plan

What would come next, in this order:

1. **Proofs** that configurations read back, for texts within the restrictions of
   section 4.
2. **Array**: the variants for trivially copyable types, with the allocator that
   uses `realloc()`.
