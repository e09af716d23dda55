---------------------------- MODULE Configuration ----------------------------
(***************************************************************************)
(* Utility::Configuration and ConfigurationGroup: trees of groups that are *)
(* read from a file, edited through any of their groups, and written back  *)
(* on request and, if an edit has marked them as changed, on destruction.  *)
(* The mark is set through a pointer that every group keeps to the         *)
(* configuration it is in.                                                 *)
(*                                                                         *)
(* There is one file and one standalone group that is in no configuration. *)
(***************************************************************************)
EXTENDS ConfigurationText, FiniteSets

CONSTANTS
    Configurations, \* where instances of Configuration are constructed
    Standalone,     \* where a group outside of any configuration is
    None,           \* no configuration
    Values,         \* values set by the application
    FlagSets,       \* flags that configurations are constructed with
    Files,          \* what may be in the file at first, with a bound on the
                    \* calls made then, saving and destruction not counted
    Rewrites,       \* what other programs put in it later
    NoFile,
    UnmarkedCount,  \* whether changes by calls that mark nothing are to be saved
    MaxDepth,       \* bound on the depth of groups
    MaxGroups,      \* bound on the groups of a configuration, itself included
    MaxItems        \* bound on the items of a group

ASSUME ConfigurationAssumption ==
    /\ Standalone \notin Configurations
    /\ None \notin Configurations
    /\ NoKey \notin Keys
    /\ NoName \notin Names
    /\ UnmarkedCount \in BOOLEAN
    /\ Values \subseteq AnyValue
    /\ Files \subseteq [text: AnyText \cup {NoFile}, calls: Nat]
    /\ Rewrites \subseteq AnyText \cup {NoFile}

VARIABLES
    groups,     \* _values and _groups of each place, <<>> where nothing is
    flags,      \* _flags
    named,      \* whether _filename is the name of the file
    file,       \* the text in the file
    writable,   \* whether the file can be written now
    synced,     \* history: contents last read or written, or left by a change
                \* that does not count
    calls       \* calls left

vars == <<groups, flags, named, file, writable, synced, calls>>

-----------------------------------------------------------------------------

Places == Configurations \cup {Standalone}

Constructed == {c \in Configurations : groups[c] # <<>>}

Without(gs) == [i \in DOMAIN gs |-> [gs[i] EXCEPT !.configuration = None]]

EmptyGroups(configuration) == <<Group(0, NoName, <<>>, configuration)>>

TypeOK ==
    /\ groups \in [Places -> Seq(AnyGroup(Configurations \cup {None}))]
    /\ DOMAIN flags = Configurations
    /\ named \in [Configurations -> BOOLEAN]
    /\ file \in AnyText \cup {NoFile}
    /\ writable \in BOOLEAN
    /\ DOMAIN synced = Configurations
    /\ calls \in Nat

Init ==
    /\ groups = [p \in Places |-> <<>>]
    /\ flags = [c \in Configurations |-> {}]
    /\ named = [c \in Configurations |-> FALSE]
    /\ \E f \in Files : file = f.text /\ calls = f.calls
    /\ writable = TRUE
    /\ synced = [c \in Configurations |-> <<>>]

Call == calls > 0 /\ calls' = calls - 1

\* Constructs c with what was read or nothing, and the name of the file or none.
Begin(c, gs, fl, isNamed) ==
    /\ groups' = [groups EXCEPT ![c] = gs]
    /\ flags' = [flags EXCEPT ![c] = fl]
    /\ named' = [named EXCEPT ![c] = isNamed]
    /\ synced' = [synced EXCEPT ![c] = Without(gs)]
    /\ UNCHANGED <<file, writable>>

ConstructEmpty(c, fl) ==
    /\ Call
    /\ c \notin Constructed
    /\ Begin(c, EmptyGroups(c), fl, FALSE)

\* Reads nothing if there is no file or it is to be truncated.  What cannot be
\* parsed is not going to be overwritten: the name is forgotten.
Open(c, fl) ==
    LET parsed == Parse(file, fl, c) IN
    /\ Call
    /\ c \notin Constructed
    /\ CASE file = NoFile -> Begin(c, EmptyGroups(c), fl \cup {"IsValid"}, "ReadOnly" \notin fl)
         [] file # NoFile /\ "Truncate" \in fl ->
                Begin(c, EmptyGroups(c), fl \cup {"IsValid", "Changed"}, "ReadOnly" \notin fl)
         [] file # NoFile /\ "Truncate" \notin fl /\ parsed.error ->
                Begin(c, parsed.groups, parsed.flags, FALSE)
         [] OTHER -> Begin(c, parsed.groups, parsed.flags \cup {"IsValid"}, "ReadOnly" \notin fl)

\* The same from a stream, of a text like that of the file.
OpenStream(c, fl) ==
    LET parsed == Parse(file, fl, c) IN
    /\ Call
    /\ c \notin Constructed
    /\ file # NoFile
    /\ CASE "Truncate" \in fl -> Begin(c, EmptyGroups(c), fl \cup {"IsValid", "Changed"}, FALSE)
         [] "Truncate" \notin fl /\ parsed.error -> Begin(c, parsed.groups, parsed.flags, FALSE)
         [] OTHER -> Begin(c, parsed.groups, parsed.flags \cup {"IsValid"}, FALSE)

SetFilename(c) ==
    /\ Call
    /\ c \in Constructed
    /\ named' = [named EXCEPT ![c] = TRUE]
    /\ UNCHANGED <<groups, flags, file, writable, synced>>

-----------------------------------------------------------------------------
\* Writing.

\* save() to the file; an error leaves everything as it is.
Write(c) ==
    IF writable
    THEN /\ file' = Saved(groups[c], flags[c])
         /\ synced' = [synced EXCEPT ![c] = Without(groups[c])]
    ELSE UNCHANGED <<file, synced>>

\* save(), and save() of a copy under the same name.
Save(c) ==
    /\ c \in Constructed
    /\ Write(c)
    /\ UNCHANGED <<groups, flags, named, writable, calls>>

Destroy(c) ==
    /\ c \in Constructed
    /\ IF "Changed" \in flags[c] /\ named[c] THEN Write(c) ELSE UNCHANGED <<file, synced>>
    /\ groups' = [groups EXCEPT ![c] = <<>>]
    /\ UNCHANGED <<flags, named, writable, calls>>

\* Another program.
WriteElsewhere(text) ==
    /\ Call
    /\ file' = text
    /\ UNCHANGED <<groups, flags, named, writable, synced>>

AllowWriting(allowed) ==
    /\ Call
    /\ writable' = allowed
    /\ UNCHANGED <<groups, flags, named, file, synced>>

-----------------------------------------------------------------------------
\* Editing group i of the place p.

Marked(p, i) ==
    LET c == groups[p][i].configuration IN
    IF c = None THEN flags ELSE [flags EXCEPT ![c] = @ \cup {"Changed"}]

Becomes(p, gs) ==
    /\ Call
    /\ groups' = [groups EXCEPT ![p] = gs]
    /\ UNCHANGED <<named, file, writable, synced>>

Edit(p, i, gs) == Becomes(p, gs) /\ flags' = Marked(p, i)

Matching(p, i, key) == {k \in DOMAIN groups[p][i].items : groups[p][i].items[k].key = key}

\* The member of a set of indices with so many before it.
IsNth(indices, k, index) == k \in indices /\ Cardinality({m \in indices : m < k}) = index

AddValue(p, i, key, value) ==
    /\ Len(groups[p][i].items) < MaxItems
    /\ Edit(p, i, [groups[p] EXCEPT ![i].items = Append(@, Item(key, value))])

\* The value of that index, or a new one if the index is that after the last.
SetValue(p, i, key, value, index) ==
    \/ \E k \in Matching(p, i, key) :
        /\ IsNth(Matching(p, i, key), k, index)
        /\ Edit(p, i, [groups[p] EXCEPT ![i].items[k].value = value])
    \/ /\ index = Cardinality(Matching(p, i, key))
       /\ AddValue(p, i, key, value)

RemoveValue(p, i, key, index) ==
    \E k \in Matching(p, i, key) :
        /\ IsNth(Matching(p, i, key), k, index)
        /\ Edit(p, i, [groups[p] EXCEPT ![i].items = RemoveAt(@, k)])

\* From the last to the first.
Backwards(n) == [k \in 1 .. n |-> n + 1 - k]

WithoutKey(items, key) ==
    LET Drop(left, k) == IF left[k].key = key THEN RemoveAt(left, k) ELSE left
    IN  FoldLeft(Drop, items, Backwards(Len(items)))

\* Marks even if there is none.
RemoveAllValues(p, i, key) ==
    Edit(p, i, [groups[p] EXCEPT ![i].items = WithoutKey(@, key)])

\* Mutant: subgroups keep their pointer.
Moved_Mutant(gs, depth, name, configuration) ==
    [i \in DOMAIN gs |-> [gs[i] EXCEPT !.depth = @ + depth,
                                       !.name = IF i = 1 THEN name ELSE @,
                                       !.configuration = IF i = 1 THEN configuration ELSE @]]

\* Groups put elsewhere, setConfigurationPointer() included.
Moved(gs, depth, name, configuration) ==
    [i \in DOMAIN gs |-> [depth |-> gs[i].depth + depth,
                          name |-> IF i = 1 THEN name ELSE gs[i].name,
                          items |-> gs[i].items,
                          configuration |-> configuration]]

Inserted(p, i, gs) ==
    SubSeq(groups[p], 1, EndOf(groups[p], i)) \o
    Moved(gs, groups[p][i].depth + 1, gs[1].name, groups[p][i].configuration) \o
    SubSeq(groups[p], EndOf(groups[p], i) + 1, Len(groups[p]))

Fits(p, i, gs) ==
    /\ Len(groups[p]) + Len(gs) <= MaxGroups
    /\ \A k \in DOMAIN gs : groups[p][i].depth + 1 + gs[k].depth <= MaxDepth

AddGroup(p, i, name) ==
    LET new == <<Group(0, name, <<>>, None)>> IN
    /\ Fits(p, i, new)
    /\ Edit(p, i, Inserted(p, i, new))

\* The standalone group becomes part of the configuration.
AddStandalone(c, i, name) ==
    LET new == [groups[Standalone] EXCEPT ![1].name = name] IN
    /\ groups[Standalone] # <<>>
    /\ Fits(c, i, new)
    /\ Call
    /\ groups' = [groups EXCEPT ![c] = Inserted(c, i, new), ![Standalone] = <<>>]
    /\ flags' = Marked(c, i)
    /\ UNCHANGED <<named, file, writable, synced>>

Removed(gs, j) == SubSeq(gs, 1, j - 1) \o SubSeq(gs, EndOf(gs, j) + 1, Len(gs))

\* Mutant: nothing is marked.
RemoveGroup_Mutant(p, i, j) ==
    /\ j \in Subgroups(groups[p], i)
    /\ Becomes(p, Removed(groups[p], j))
    /\ UNCHANGED flags

\* By name and index, or by pointer.
RemoveGroup(p, i, j) ==
    /\ j \in Subgroups(groups[p], i)
    /\ Edit(p, i, Removed(groups[p], j))

WithoutGroups(gs, namesakes) ==
    LET Drop(left, j) == IF j \in namesakes THEN Removed(left, j) ELSE left
    IN  FoldLeft(Drop, gs, Backwards(Len(gs)))

\* Marks even if there is none.
RemoveAllGroups(p, i, name) ==
    Edit(p, i, WithoutGroups(groups[p], {j \in Subgroups(groups[p], i) : groups[p][j].name = name}))

-----------------------------------------------------------------------------
\* Calls that mark nothing.

Changes(gs) ==
    /\ Call
    /\ groups' = gs
    /\ synced' = [c \in Configurations |->
                    IF UnmarkedCount \/ gs[c] = groups[c] THEN synced[c] ELSE Without(gs[c])]
    /\ UNCHANGED <<flags, named, file, writable>>

Subtree(gs, i) == SubSeq(gs, i, EndOf(gs, i))

\* Group i becomes new, apart from its own name and pointer.
Replaced(p, i, new) ==
    LET gs == groups[p] IN
    SubSeq(gs, 1, i - 1) \o
    Moved(new, gs[i].depth, gs[i].name, gs[i].configuration) \o
    SubSeq(gs, EndOf(gs, i) + 1, Len(gs))

Clear(p, i) == Changes([groups EXCEPT ![p] = Replaced(p, i, EmptyGroups(None))])

ConstructStandalone ==
    /\ groups[Standalone] = <<>>
    /\ Changes([groups EXCEPT ![Standalone] = EmptyGroups(None)])

\* The depth of the copy starts at 0.
Copied(gs, i) ==
    LET from == Subtree(gs, i)
    IN [k \in DOMAIN from |-> Group(from[k].depth - gs[i].depth,
                                    IF k = 1 THEN NoName ELSE from[k].name, from[k].items, None)]

CopyToStandalone(c, i) ==
    /\ groups[Standalone] = <<>>
    /\ Changes([groups EXCEPT ![Standalone] = Copied(groups[c], i)])

MoveToStandalone(c, i) ==
    /\ groups[Standalone] = <<>>
    /\ Changes([groups EXCEPT ![Standalone] = Copied(groups[c], i), ![c] = Replaced(c, i, EmptyGroups(None))])

FitsAt(p, i, gs) ==
    /\ i - 1 + Len(gs) + Len(groups[p]) - EndOf(groups[p], i) <= MaxGroups
    /\ \A k \in DOMAIN gs : groups[p][i].depth + gs[k].depth <= MaxDepth

\* Copy and move assignment to a group of a configuration.
AssignStandalone(c, i, keeps) ==
    /\ groups[Standalone] # <<>>
    /\ FitsAt(c, i, groups[Standalone])
    /\ Changes([groups EXCEPT ![c] = Replaced(c, i, groups[Standalone]),
                              ![Standalone] = IF keeps THEN @ ELSE EmptyGroups(None)])

\* Move construction and assignment of a whole configuration: what was in the
\* other one is gone, its changes too.
MoveConfiguration(c, d) ==
    /\ Call
    /\ c \in Constructed /\ d # c
    /\ groups' = [groups EXCEPT ![d] = Moved(groups[c], 0, NoName, d), ![c] = EmptyGroups(c)]
    /\ flags' = [flags EXCEPT ![d] = flags[c]]
    /\ named' = [named EXCEPT ![d] = named[c], ![c] = FALSE]
    /\ synced' = [synced EXCEPT ![d] = synced[c], ![c] = Without(EmptyGroups(c))]
    /\ UNCHANGED <<file, writable>>

-----------------------------------------------------------------------------

EditGroup(p, i) ==
    \/ \E key \in Keys, value \in Values : AddValue(p, i, key, value)
    \/ \E key \in Keys, value \in Values, index \in 0 .. MaxItems : SetValue(p, i, key, value, index)
    \/ \E key \in Keys, index \in 0 .. MaxItems - 1 : RemoveValue(p, i, key, index)
    \/ \E key \in Keys : RemoveAllValues(p, i, key)
    \/ \E name \in Names : AddGroup(p, i, name) \/ RemoveAllGroups(p, i, name)
    \/ \E j \in DOMAIN groups[p] : RemoveGroup(p, i, j)

UseStandalone(c, i) ==
    \/ CopyToStandalone(c, i)
    \/ MoveToStandalone(c, i)
    \/ \E keeps \in BOOLEAN : AssignStandalone(c, i, keeps)
    \/ \E name \in Names : AddStandalone(c, i, name)

Next ==
    \/ \E c \in Configurations, fl \in FlagSets : ConstructEmpty(c, fl) \/ Open(c, fl) \/ OpenStream(c, fl)
    \/ \E c \in Configurations : SetFilename(c) \/ Save(c) \/ Destroy(c)
    \/ \E text \in Rewrites : WriteElsewhere(text)
    \/ \E allowed \in BOOLEAN : AllowWriting(allowed)
    \/ \E p \in Places : \E i \in DOMAIN groups[p] : EditGroup(p, i) \/ Clear(p, i)
    \/ \E c \in Configurations : \E i \in DOMAIN groups[c] : UseStandalone(c, i)
    \/ ConstructStandalone
    \/ \E c, d \in Configurations : MoveConfiguration(c, d)

Spec == Init /\ [][Next]_vars

-----------------------------------------------------------------------------

(***************************************************************************)
(* What is saved is read back as it was, whatever was edited: no subgroup  *)
(* ends in another group because the header of its parent was omitted, and *)
(* no value changes.  Only an empty line at the end of the text is lost.   *)
(***************************************************************************)
EndsEmpty(gs) ==
    LET items == gs[Len(gs)].items IN items # <<>> /\ Last(items) = Item(NoKey, <<Empty>>)

WithoutLastEmpty(gs) ==
    IF EndsEmpty(gs) THEN [gs EXCEPT ![Len(gs)].items = Front(@)] ELSE gs

ReadsBack ==
    \A c \in Constructed :
        LET parsed == Parse(Saved(groups[c], flags[c]), {}, None) IN
        /\ ~parsed.error
        /\ Without(parsed.groups) = WithoutLastEmpty(Without(groups[c]))

(***************************************************************************)
(* Every group of a configuration points to it, and a group outside of any *)
(* to none, however deep and wherever it was added, copied or moved: else  *)
(* its edits would mark nothing, or an instance that is gone.              *)
(***************************************************************************)
PointersExact ==
    \A p \in Places : \A i \in DOMAIN groups[p] :
        groups[p][i].configuration = IF p = Standalone THEN None ELSE p

(***************************************************************************)
(* A configuration that knows its file leaves in it what it contains when  *)
(* it is destroyed, unless that is what it last read or wrote, or only     *)
(* calls that mark nothing have changed it and such changes do not count.  *)
(***************************************************************************)
IsSaved(c) ==
    \/ ~named[c]
    \/ ~writable
    \/ Without(groups[c]) = synced[c]
    \/ file' = Saved(groups[c], flags[c])

ChangesSaved == [][\A c \in Constructed : groups'[c] = <<>> => IsSaved(c)]_vars
=============================================================================
