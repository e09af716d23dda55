----------------------------- MODULE FileWatcher -----------------------------
(***************************************************************************)
(* Corrade::Utility::FileWatcher: one watcher per file, which compares the *)
(* modification time of the file with the one it remembers, against an     *)
(* editor that works on the files at the same time.                        *)
(*                                                                         *)
(* The time passes with every save, so no two have the same: the           *)
(* granularity of modification times is not modelled.  A program that      *)
(* writes without updating them is the one FileWatcher.h names: it clears  *)
(* the file first, which does, and populates it later, which does not.     *)
(***************************************************************************)
EXTENDS Integers

CONSTANTS
    Files,          \* the files that may be watched
    Contents,       \* what they may contain, other than nothing
    Empty,          \* the content of an empty file
    NoFile,         \* the file does not exist
    NoWatcher,      \* there is no watcher of the file
    Flags,          \* the flags of all watchers
    MaxEdits        \* bound: saves

\* ~std::uint64_t{}
NotChecked == -1

Watcher == [time: {NotChecked} \cup 0 .. MaxEdits, valid: BOOLEAN]

ASSUME FileWatcherAssumption ==
    /\ Empty \notin Contents
    /\ NoFile \notin Contents \cup {Empty}
    /\ Flags \subseteq {"IgnoreErrors", "IgnoreChangeIfEmpty"}
    /\ MaxEdits \in Nat
    /\ NoWatcher \notin Watcher

VARIABLES
    clock,          \* the time
    content,        \* the files' contents
    modified,       \* the files' modification times
    watcher,        \* the FileWatcher of each file
    seen            \* history: the version of each file that the watcher knows

fileVars == <<clock, content, modified, watcher, seen>>

Watched == {f \in Files : watcher[f] # NoWatcher}

-----------------------------------------------------------------------------
\* The editor.

\* A new version replaces the file or takes the place of the one deleted.
Save(f, c) ==
    /\ clock < MaxEdits
    /\ clock' = clock + 1
    /\ content' = [content EXCEPT ![f] = c]
    /\ modified' = [modified EXCEPT ![f] = clock + 1]
    /\ UNCHANGED <<watcher, seen>>

Clear(f) ==
    /\ content[f] # NoFile
    /\ Save(f, Empty)

Populate(f, c) ==
    /\ content[f] = Empty
    /\ content' = [content EXCEPT ![f] = c]
    /\ UNCHANGED <<clock, modified, watcher, seen>>

Delete(f) ==
    /\ content[f] # NoFile
    /\ content' = [content EXCEPT ![f] = NoFile]
    /\ UNCHANGED <<clock, modified, watcher, seen>>

Edit ==
    \/ \E f \in Files, c \in Contents : Save(f, c)
    \/ \E f \in Files : Clear(f)
    \/ \E f \in Files, c \in Contents : Populate(f, c)
    \/ \E f \in Files : Delete(f)

-----------------------------------------------------------------------------
\* hasChanged()

\* Mutant: a file that is empty by now is reported, too.
Reports_Mutant(f, w) ==
    /\ w.valid
    /\ content[f] # NoFile
    /\ w.time \notin {NotChecked, modified[f]}

\* hasChanged() of a watcher w of f is true.
Reports(f, w) ==
    /\ w.valid
    /\ content[f] # NoFile
    /\ w.time \notin {NotChecked, modified[f]}
    /\ "IgnoreChangeIfEmpty" \in Flags => content[f] # Empty

\* Mutant: the time is remembered even if it is not reported.
Remembers_Mutant(f, w) ==
    w.valid /\ content[f] # NoFile /\ w.time # modified[f]

\* The time is remembered when it is looked at first or when it is reported.
Remembers(f, w) ==
    \/ w.valid /\ content[f] # NoFile /\ w.time = NotChecked
    \/ Reports(f, w)

\* Mutant: the watch is aborted whatever the flags.
Checked_Mutant(f, w) ==
    [time |-> IF Remembers(f, w) THEN modified[f] ELSE w.time,
     valid |-> w.valid /\ content[f] # NoFile]

\* The watcher after hasChanged().  If there is no file it aborts the watch,
\* unless it ignores errors.
Checked(f, w) ==
    [time |-> IF Remembers(f, w) THEN modified[f] ELSE w.time,
     valid |-> w.valid /\ (content[f] = NoFile => "IgnoreErrors" \in Flags)]

\* The version known is the one reported last, or the one there was at the first
\* look; an empty file is no version then.
CheckWith(f, w) ==
    /\ watcher' = [watcher EXCEPT ![f] = Checked(f, w)]
    /\ seen' = [seen EXCEPT ![f] =
            IF Reports(f, w) \/ (Remembers(f, w) /\ content[f] # Empty)
            THEN content[f] ELSE @]
    /\ UNCHANGED <<clock, content, modified>>

HasChanged(f) == f \in Watched /\ CheckWith(f, watcher[f])

\* The constructor calls hasChanged() to look at the time first.
Construct(f) ==
    /\ f \notin Watched
    /\ CheckWith(f, [time |-> NotChecked, valid |-> TRUE])

\* The destructors of the watchers of F.
Destroy(F) ==
    /\ watcher' = [f \in Files |-> IF f \in F THEN NoWatcher ELSE watcher[f]]
    /\ seen' = [f \in Files |-> IF f \in F THEN NoFile ELSE seen[f]]
    /\ UNCHANGED <<clock, content, modified>>

-----------------------------------------------------------------------------

FilesInit ==
    /\ clock = 0
    /\ content \in [Files -> Contents \cup {Empty, NoFile}]
    /\ modified = [f \in Files |-> 0]
    /\ watcher = [f \in Files |-> NoWatcher]
    /\ seen = [f \in Files |-> NoFile]

FilesNext ==
    \/ Edit
    \/ \E f \in Files : Construct(f)
    \/ \E f \in Files : HasChanged(f)
    \/ \E F \in SUBSET Files : Destroy(F)

FilesSpec == FilesInit /\ [][FilesNext]_fileVars

-----------------------------------------------------------------------------

FilesTypeOK ==
    /\ content \in [Files -> Contents \cup {Empty, NoFile}]
    /\ clock \in 0 .. MaxEdits
    /\ modified \in [Files -> 0 .. MaxEdits]
    /\ watcher \in [Files -> Watcher \cup {NoWatcher}]
    /\ seen \in [Files -> Contents \cup {Empty, NoFile}]

\* Whatever the editor does and whenever hasChanged() is called, no version of a
\* file is missed once there was one to start with: unless hasChanged() is about
\* to report it, it is the version known.  A file that is cleared and populated
\* later is what Flag::IgnoreChangeIfEmpty is for (FileWatcher.h:71).
NoEditMissed ==
    \A f \in Watched :
        watcher[f].valid /\ seen[f] # NoFile /\ content[f] \in Contents =>
            Reports(f, watcher[f]) \/ content[f] = seen[f]
=============================================================================
