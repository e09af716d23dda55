------------------------------ MODULE Tweakable ------------------------------
(***************************************************************************)
(* Corrade::Utility::Tweakable: literals of the running program that are   *)
(* read again from its source files, while somebody edits these files.     *)
(*                                                                         *)
(* A variable is the index of an annotated literal in a file.  The program *)
(* calls scope lambdas, in which it uses variables and calls other scopes, *)
(* and update() from its event loop: never from a scope lambda.  update()  *)
(* looks at the files one by one, then runs the scopes of the changed      *)
(* variables; the editor acts at any time in between.                      *)
(***************************************************************************)
EXTENDS FileWatcher, Sequences

CONSTANTS
    MaxVariables,   \* the variables of a file are 1 .. MaxVariables
    Scopes,         \* scope lambdas, each with the data it is called with
    Body,           \* Body[s]: the variables and the scopes that s uses, in order
    Outside,        \* the variables used outside of all scopes
    Values,         \* the values of variables
    Compiled,       \* the value of every variable in the program as compiled
    NoValue,        \* the variable is not registered
    NoScope         \* no scope lambda runs

Variables == Files \X (1 .. MaxVariables)

\* What parsing makes of a literal: its value, a request to recompile (its line
\* or its type is another), an error of its parser, or an error of the file's
\* syntax there.
Literals == Values \cup {"Recompile", "Error", "Unterminated"}

ASSUME TweakableAssumption ==
    /\ MaxVariables \in Nat
    /\ Contents \subseteq Seq(Literals)
    /\ Empty = <<>>
    /\ Flags = {"IgnoreErrors", "IgnoreChangeIfEmpty"}
    /\ Body \in [Scopes -> Seq(Variables \cup Scopes)]
    /\ Scopes \cap Variables = {}
    /\ Outside \subseteq Variables
    /\ Compiled \in Values
    /\ NoValue \notin Literals
    /\ NoScope \notin Scopes

VARIABLES
    enabled,        \* _data exists
    storage,        \* TweakableVariable::storage, NoValue while there is no parser
    scopeOf,        \* TweakableVariable::scopeLambda and its two arguments
    currentScope,   \* Data::currentScopeLambda and its two arguments
    calls,          \* the scope lambdas that run, innermost last
    update,         \* the update() that runs
    used,           \* history: the values each scope lambda got when it ran last
    parsed,         \* history: the variables that an update has parsed
    lost            \* history: the scopes that a failing update did not run

tweakVars == <<enabled, storage, scopeOf, currentScope, calls, update, used, parsed, lost>>

vars == <<fileVars, tweakVars>>

\* left: what the lambda has still to do; direct: it was called by update()
Call == [scope: Scopes, left: Seq(Variables \cup Scopes), direct: BOOLEAN]

\* todo: files to look at; reading: the file to read, if any; scopes: to be run.
\* An assertion ends the program.
Update == [phase: {"None", "Running", "Aborted"}, todo: SUBSET Files,
           reading: SUBSET Files, scopes: SUBSET Scopes]

NoUpdate == [phase |-> "None", todo |-> {}, reading |-> {}, scopes |-> {}]

-----------------------------------------------------------------------------

Registered(v) == storage[v] # NoValue

Idle == update = NoUpdate /\ calls = <<>>

Top == calls[Len(calls)]

\* The next thing the lambda that runs does; it is one at most.
Doing == IF calls = <<>> THEN {} ELSE {Top.left[i] : i \in {1} \cap DOMAIN Top.left}

Advanced == [calls EXCEPT ![Len(calls)] = [Top EXCEPT !.left = Tail(Top.left)]]

\* enable(), which forgets all variables and watchers there were.  "Be sure to
\* call this function before any tweakable constant or scope() is used"
\* (Tweakable.h:290): it is not called from a scope lambda.
Enable ==
    /\ Idle
    /\ enabled' = TRUE
    /\ Destroy(Files)
    /\ storage' = [v \in Variables |-> NoValue]
    /\ scopeOf' = [v \in Variables |-> NoScope]
    /\ currentScope' = NoScope
    /\ parsed' = {}
    /\ used' = [s \in Scopes |-> [v \in Variables |-> NoValue]]
    /\ lost' = {}
    /\ UNCHANGED <<calls, update>>

-----------------------------------------------------------------------------
\* The program's use of variables and scopes.

\* registerVariable() and operator(): the first use of a variable remembers the
\* compiled value and the current scope, the first use in a file starts to watch
\* it.
Register(v) ==
    /\ IF v[1] \in Watched THEN UNCHANGED fileVars ELSE Construct(v[1])
    /\ storage' = IF Registered(v) THEN storage ELSE [storage EXCEPT ![v] = Compiled]
    /\ scopeOf' = IF Registered(v) THEN scopeOf ELSE [scopeOf EXCEPT ![v] = currentScope]

\* A variable used outside of all scope lambdas.
UseOutside(v) ==
    /\ Idle
    /\ enabled
    /\ Register(v)
    /\ UNCHANGED <<enabled, currentScope, calls, update, used, parsed, lost>>

UseInScope(v) ==
    /\ v \in Doing
    /\ IF enabled
       THEN Register(v) /\ used' = [used EXCEPT ![Top.scope][v] = storage'[v]]
       ELSE UNCHANGED <<fileVars, storage, scopeOf, used>>
    /\ calls' = Advanced
    /\ UNCHANGED <<enabled, currentScope, update, parsed, lost>>

\* scopeInternal()
EnterScope(s, callers) ==
    /\ currentScope' = IF enabled THEN s ELSE currentScope
    /\ calls' = Append(callers, [scope |-> s, left |-> Body[s], direct |-> FALSE])
    /\ lost' = lost \ {s}
    /\ UNCHANGED <<fileVars, enabled, storage, scopeOf, update, used, parsed>>

CallScope(s) == Idle /\ EnterScope(s, calls)

CallNestedScope(s) == s \in Doing /\ EnterScope(s, Advanced)

\* The lambda returns: to scopeInternal(), which resets the current scope, or to
\* update().
ScopeReturns ==
    /\ calls # <<>>
    /\ Top.left = <<>>
    /\ currentScope' = IF enabled /\ ~Top.direct THEN NoScope ELSE currentScope
    /\ calls' = SubSeq(calls, 1, Len(calls) - 1)
    /\ UNCHANGED <<fileVars, enabled, storage, scopeOf, update, used, parsed, lost>>

-----------------------------------------------------------------------------
\* update()

Updating == update.phase = "Running" /\ calls = <<>>

BeginUpdate ==
    /\ Idle
    /\ enabled
    /\ update' = [NoUpdate EXCEPT !.phase = "Running", !.todo = Watched]
    /\ UNCHANGED <<fileVars, enabled, storage, scopeOf, currentScope, calls, used, parsed, lost>>

\* hasChanged() of the next file, in the order of the hash map.
CheckFile(f) ==
    /\ Updating
    /\ update.reading = {}
    /\ f \in update.todo
    /\ HasChanged(f)
    /\ update' = [update EXCEPT !.todo = @ \ {f},
                                !.reading = {g \in {f} : Reports(g, watcher[g])}]
    /\ UNCHANGED <<enabled, storage, scopeOf, currentScope, calls, used, parsed, lost>>

\* parseTweakables() goes over the literals until it fails at one: at an error of
\* the syntax, or at a registered variable whose value it cannot take.  Literals
\* of variables not registered are skipped.
FailsAt(f) == {i \in DOMAIN content[f] :
    \/ content[f][i] = "Unterminated"
    \/ <<f, i>> \in Variables /\ Registered(<<f, i>>) /\ content[f][i] \notin Values}

Parses(f) == {v \in Variables :
    /\ v[1] = f
    /\ Registered(v)
    /\ v[2] \in DOMAIN content[f]
    /\ \A i \in FailsAt(f) : v[2] < i}

Literal(v) == content[v[1]][v[2]]

\* Mutant: the scopes of the files before are forgotten.
Affected_Mutant(f) ==
    {scopeOf[v] : v \in {u \in Parses(f) : storage[u] # Literal(u)}} \ {NoScope}

\* The scopes to run, once the file is read.
Affected(f) == update.scopes \cup
    ({scopeOf[v] : v \in {u \in Parses(f) : storage[u] # Literal(u)}} \ {NoScope})

\* readString() and parseTweakables().  If it fails, update() returns at once.
ReadFile(f) ==
    /\ Updating
    /\ f \in update.reading
    /\ content[f] # NoFile
    /\ storage' = [v \in Variables |-> IF v \in Parses(f) THEN Literal(v) ELSE storage[v]]
    /\ parsed' = parsed \cup Parses(f)
    /\ IF FailsAt(f) = {}
       THEN /\ update' = [update EXCEPT !.reading = {}, !.scopes = Affected(f)]
            /\ UNCHANGED lost
       ELSE /\ update' = NoUpdate
            /\ lost' = lost \cup Affected(f)
    /\ UNCHANGED <<fileVars, enabled, scopeOf, currentScope, calls, used>>

\* The file is gone since it was looked at: the assertion that it can be read.
AssertionFails(f) ==
    /\ Updating
    /\ f \in update.reading
    /\ content[f] = NoFile
    /\ update' = [NoUpdate EXCEPT !.phase = "Aborted"]
    /\ UNCHANGED <<fileVars, enabled, storage, scopeOf, currentScope, calls, used, parsed, lost>>

\* The files are done: the lambda of an affected scope is called, not through
\* scopeInternal().
RunScope(s) ==
    /\ Updating
    /\ update.todo \cup update.reading = {}
    /\ s \in update.scopes
    /\ calls' = <<[scope |-> s, left |-> Body[s], direct |-> TRUE]>>
    /\ update' = [update EXCEPT !.scopes = @ \ {s}]
    /\ lost' = lost \ {s}
    /\ UNCHANGED <<fileVars, enabled, storage, scopeOf, currentScope, used, parsed>>

EndUpdate ==
    /\ Updating
    /\ update.todo \cup update.reading = {}
    /\ update.scopes = {}
    /\ update' = NoUpdate
    /\ UNCHANGED <<fileVars, enabled, storage, scopeOf, currentScope, calls, used, parsed, lost>>

-----------------------------------------------------------------------------

Init ==
    /\ FilesInit
    /\ enabled = FALSE
    /\ storage = [v \in Variables |-> NoValue]
    /\ scopeOf = [v \in Variables |-> NoScope]
    /\ currentScope = NoScope
    /\ calls = <<>>
    /\ update = NoUpdate
    /\ used = [s \in Scopes |-> [v \in Variables |-> NoValue]]
    /\ parsed = {}
    /\ lost = {}

\* What runs to its end by itself: scope lambdas and update().
Program ==
    \/ \E v \in Variables : UseInScope(v)
    \/ \E s \in Scopes : CallNestedScope(s)
    \/ ScopeReturns
    \/ \E f \in Files : CheckFile(f)
    \/ \E f \in Files : ReadFile(f)
    \/ \E f \in Files : AssertionFails(f)
    \/ \E s \in Scopes : RunScope(s)
    \/ EndUpdate

Next ==
    \/ Edit /\ UNCHANGED tweakVars
    \/ Enable
    \/ \E v \in Outside : UseOutside(v)
    \/ \E s \in Scopes : CallScope(s)
    \/ BeginUpdate
    \/ Program

Spec == Init /\ [][Next]_vars

\* "periodically call update(), for best responsiveness ideally in each event
\* loop iteration" (Tweakable.h:91).
FairSpec == Spec /\ WF_vars(Program) /\ SF_vars(BeginUpdate)

-----------------------------------------------------------------------------

TypeOK ==
    /\ FilesTypeOK
    /\ enabled \in BOOLEAN
    /\ storage \in [Variables -> Values \cup {NoValue}]
    /\ scopeOf \in [Variables -> Scopes \cup {NoScope}]
    /\ currentScope \in Scopes \cup {NoScope}
    /\ calls \in Seq(Call)
    /\ update \in Update
    /\ used \in [Scopes -> [Variables -> Values \cup {NoValue}]]
    /\ parsed \subseteq Variables
    /\ lost \subseteq Scopes

\* The variable has the value that its file says, if the file has it and parses.
Current(v) ==
    content[v[1]] \in Contents /\ v[2] \in DOMAIN content[v[1]] /\ FailsAt(v[1]) = {} =>
        storage[v] = Literal(v)

\* However edits, failing updates and first uses follow one another, and whenever
\* a file changes under an update: unless the watcher of its file is about to
\* report, a variable that an update has parsed before has the value its file
\* says, so no edit of it is skipped for good.
ValuesCurrent ==
    Idle => \A v \in parsed : ~Reports(v[1], watcher[v[1]]) => Current(v)

\* Once the editor leaves the files alone, every variable gets the value its file
\* says, failing files beside it or not.
ValuesArrive ==
    <>(update.phase = "Aborted") \/ <>[](\A v \in parsed : Current(v))

\* Between updates, a scope has run with the values its variables have, unless it
\* was lost: "whenever one of these constants is changed, the corresponding scope
\* lambda gets called again" (Tweakable.h:121).
ScopesCurrent ==
    Idle => \A v \in Variables :
        scopeOf[v] \notin lost \cup {NoScope} => used[scopeOf[v]][v] = storage[v]

\* The same without exception: update() "For every value that was changed and was
\* part of a scope() call, executes the corresponding scope lambda"
\* (Tweakable.h:325), and when it fails "doesn't update anything"
\* (Tweakable.h:213).
ScopesRun ==
    Idle => \A s \in Scopes, v \in Variables :
        used[s][v] # NoValue /\ Registered(v) => used[s][v] = storage[v]
=============================================================================
