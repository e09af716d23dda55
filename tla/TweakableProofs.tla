--------------------------- MODULE TweakableProofs ---------------------------
(***************************************************************************)
(* What holds of the file watchers for any files, contents and number of   *)
(* saves, that Tweakable uses them as FileWatcher specifies, and what this *)
(* means for the values of the variables and for the scopes that use them. *)
(***************************************************************************)
EXTENDS Tweakable, SequenceTheorems, TLAPS

\* What a watcher remembers is past: the next save has another time.
Times ==
    /\ \A f \in Files : modified[f] <= clock
    /\ \A f \in Watched : watcher[f].time <= clock

\* A known version implies a watcher that has looked at the file.
KnownWatched ==
    \A f \in Files : seen[f] # NoFile => f \in Watched /\ watcher[f].time # NotChecked

\* A watcher does not remember the time of a file that was cleared, though it
\* may have looked at it: this is what makes it notice the file once it is
\* populated, at the same time.
EmptyNotKnown ==
    \A f \in Files : seen[f] # NoFile /\ content[f] = Empty => watcher[f].time # modified[f]

Watching == FilesTypeOK /\ Times /\ KnownWatched /\ EmptyNotKnown /\ NoEditMissed

-----------------------------------------------------------------------------

\* Init establishes the invariant.
LEMMA WatchingInit == ASSUME FilesInit PROVE Watching
<1> USE FileWatcherAssumption
<1>1. FilesTypeOK
  BY DEF FilesInit, FilesTypeOK
<1>2. Watched = {}
  BY DEF FilesInit, Watched
<1>3. Times
  BY <1>2 DEF FilesInit, Times
<1>4. KnownWatched /\ EmptyNotKnown
  BY DEF FilesInit, KnownWatched, EmptyNotKnown
<1>5. NoEditMissed
  BY <1>2 DEF NoEditMissed
<1> QED BY <1>1, <1>3, <1>4, <1>5 DEF Watching

\* A save, which may also clear the file, makes its time differ from every time
\* remembered.
LEMMA WatchingSave ==
    ASSUME Watching, "IgnoreChangeIfEmpty" \in Flags,
           NEW f \in Files, NEW c \in Contents \cup {Empty}, Save(f, c)
    PROVE  Watching'
<1> USE FileWatcherAssumption DEF Watching
<1>1. /\ clock \in 0 .. MaxEdits /\ clock' = clock + 1 /\ clock < MaxEdits
      /\ watcher' = watcher /\ seen' = seen /\ Watched' = Watched
      /\ modified'[f] = clock + 1 /\ content'[f] = c
      /\ \A g \in Files \ {f} : modified'[g] = modified[g] /\ content'[g] = content[g]
  BY DEF Save, FilesTypeOK, Watched
<1>2. FilesTypeOK'
  BY <1>1 DEF Save, FilesTypeOK
<1>3. Times'
  <2>1. \A g \in Files : modified[g] \in 0 .. MaxEdits
    BY DEF FilesTypeOK
  <2>2. \A g \in Watched : watcher[g].time \in {NotChecked} \cup 0 .. MaxEdits
    BY DEF FilesTypeOK, Watched, Watcher
  <2> QED BY <1>1, <2>1, <2>2 DEF Times, NotChecked
<1>4. KnownWatched'
  BY <1>1 DEF KnownWatched
<1>5. \A g \in Watched : watcher[g].time # clock + 1
  <2>1. \A g \in Watched : watcher[g].time \in {NotChecked} \cup 0 .. MaxEdits
    BY DEF FilesTypeOK, Watched, Watcher
  <2> QED BY <1>1, <2>1 DEF Times, NotChecked
<1>6. EmptyNotKnown'
  BY <1>1, <1>5 DEF EmptyNotKnown, KnownWatched
<1>7. NoEditMissed'
  <2> SUFFICES ASSUME NEW g \in Watched, watcher[g].valid, seen[g] # NoFile,
                      content'[g] \in Contents
               PROVE  Reports(g, watcher[g])' \/ content'[g] = seen[g]
    BY <1>1 DEF NoEditMissed
  <2>1. g \in Files
    BY DEF Watched
  <2>2. CASE g = f
    BY <1>1, <1>5, <2>1, <2>2 DEF Reports, KnownWatched
  <2>3. CASE g # f
    BY <1>1, <2>1, <2>3 DEF Reports, NoEditMissed
  <2> QED BY <2>2, <2>3
<1> QED BY <1>2, <1>3, <1>4, <1>6, <1>7

\* A file populated after it was cleared still has the time of the clearing.
LEMMA WatchingPopulate ==
    ASSUME Watching, "IgnoreChangeIfEmpty" \in Flags,
           NEW f \in Files, NEW c \in Contents, Populate(f, c)
    PROVE  Watching'
<1> USE FileWatcherAssumption DEF Watching
<1>1. /\ content[f] = Empty /\ content'[f] = c
      /\ UNCHANGED <<clock, modified, watcher, seen, Watched>>
      /\ \A g \in Files \ {f} : content'[g] = content[g]
  BY DEF Populate, FilesTypeOK, Watched
<1>2. FilesTypeOK' /\ Times' /\ KnownWatched' /\ EmptyNotKnown'
  BY <1>1 DEF Populate, FilesTypeOK, Times, KnownWatched, EmptyNotKnown
<1>3. NoEditMissed'
  <2> SUFFICES ASSUME NEW g \in Watched, watcher[g].valid, seen[g] # NoFile,
                      content'[g] \in Contents
               PROVE  Reports(g, watcher[g])' \/ content'[g] = seen[g]
    BY <1>1 DEF NoEditMissed
  <2>1. g \in Files
    BY DEF Watched
  <2>2. CASE g = f
    BY <1>1, <2>1, <2>2 DEF Reports, KnownWatched, EmptyNotKnown
  <2>3. CASE g # f
    BY <1>1, <2>1, <2>3 DEF Reports, NoEditMissed
  <2> QED BY <2>2, <2>3
<1> QED BY <1>2, <1>3

\* A file that does not exist claims nothing.
LEMMA WatchingDelete ==
    ASSUME Watching, "IgnoreChangeIfEmpty" \in Flags, NEW f \in Files, Delete(f)
    PROVE  Watching'
<1> USE FileWatcherAssumption DEF Watching
<1>1. /\ content'[f] = NoFile
      /\ UNCHANGED <<clock, modified, watcher, seen, Watched>>
      /\ \A g \in Files \ {f} : content'[g] = content[g]
  BY DEF Delete, FilesTypeOK, Watched
<1>2. FilesTypeOK' /\ Times' /\ KnownWatched' /\ EmptyNotKnown'
  BY <1>1 DEF Delete, FilesTypeOK, Times, KnownWatched, EmptyNotKnown
<1>3. NoEditMissed'
  BY <1>1 DEF NoEditMissed, Reports, Watched
<1> QED BY <1>2, <1>3

\* hasChanged() of a watcher in use or of a new one.
LEMMA WatchingCheck ==
    ASSUME Watching, "IgnoreChangeIfEmpty" \in Flags, NEW f \in Files,
           NEW w \in Watcher, CheckWith(f, w), w.time <= clock,
           \/ f \in Watched /\ w = watcher[f]
           \/ f \notin Watched /\ w.time = NotChecked
    PROVE  Watching'
<1> USE FileWatcherAssumption DEF Watching
<1>1. /\ UNCHANGED <<clock, content, modified>>
      /\ watcher'[f] = Checked(f, w)
      /\ seen'[f] = IF Reports(f, w) \/ (Remembers(f, w) /\ content[f] # Empty)
                    THEN content[f] ELSE seen[f]
      /\ \A g \in Files \ {f} : watcher'[g] = watcher[g] /\ seen'[g] = seen[g]
  BY DEF CheckWith, FilesTypeOK
<1>2. /\ content[f] \in Contents \cup {Empty, NoFile}
      /\ modified[f] \in 0 .. MaxEdits /\ clock \in 0 .. MaxEdits
      /\ w.time \in {NotChecked} \cup 0 .. MaxEdits /\ w.valid \in BOOLEAN
  BY DEF FilesTypeOK, Watcher
<1>3. Checked(f, w) \in Watcher
  BY <1>2 DEF Checked, Watcher
<1>4. FilesTypeOK'
  BY <1>3 DEF CheckWith, FilesTypeOK
<1>5. f \in Watched' /\ \A g \in Files \ {f} : g \in Watched' <=> g \in Watched
  BY <1>1, <1>3 DEF Watched
<1>6. Checked(f, w).time <= clock
  BY <1>2 DEF Checked, Times
<1>7. Times'
  BY <1>1, <1>5, <1>6 DEF Times, Watched
<1>8. seen'[f] # NoFile => Checked(f, w).time # NotChecked
  BY <1>1, <1>2 DEF Checked, Remembers, Reports, KnownWatched, NotChecked
<1>9. KnownWatched'
  BY <1>1, <1>5, <1>8 DEF KnownWatched
<1>10. seen'[f] # NoFile /\ content[f] = Empty => Checked(f, w).time # modified[f]
  BY <1>1, <1>2 DEF Checked, Remembers, Reports, KnownWatched, EmptyNotKnown
<1>11. EmptyNotKnown'
  BY <1>1, <1>10 DEF EmptyNotKnown
<1>12. Checked(f, w).valid => w.valid
  BY <1>2 DEF Checked
<1>13. NoEditMissed'
  <2> SUFFICES ASSUME NEW g \in Watched', watcher'[g].valid, seen'[g] # NoFile,
                      content[g] \in Contents
               PROVE  Reports(g, watcher[g])' \/ content[g] = seen'[g]
    BY <1>1 DEF NoEditMissed
  <2>1. g \in Files
    BY DEF Watched
  <2>2. CASE g = f
    <3>1. CASE Remembers(f, w)
      BY <1>1, <2>2, <3>1
    <3>2. CASE ~Remembers(f, w)
      <4>1. seen[f] # NoFile /\ f \in Watched /\ w = watcher[f] /\ w.time # NotChecked
        BY <1>1, <2>2, <3>2 DEF Remembers, KnownWatched
      <4>2. w.valid
        BY <1>1, <1>12, <2>2
      <4>3. content[f] = seen[f]
        BY <2>2, <3>2, <4>1, <4>2 DEF Remembers, NoEditMissed
      <4> QED BY <1>1, <2>2, <3>2, <4>3 DEF Remembers
    <3> QED BY <3>1, <3>2
  <2>3. CASE g # f
    BY <1>1, <1>5, <2>1, <2>3 DEF Reports, NoEditMissed
  <2> QED BY <2>2, <2>3
<1> QED BY <1>4, <1>7, <1>9, <1>11, <1>13

\* Nothing is known of a file that is not watched any more.
LEMMA WatchingDestroy ==
    ASSUME Watching, NEW F \in SUBSET Files, Destroy(F)
    PROVE  Watching'
<1> USE FileWatcherAssumption DEF Watching
<1>1. /\ UNCHANGED <<clock, content, modified>>
      /\ \A g \in F : watcher'[g] = NoWatcher /\ seen'[g] = NoFile
      /\ \A g \in Files \ F : watcher'[g] = watcher[g] /\ seen'[g] = seen[g]
  BY DEF Destroy
<1>2. FilesTypeOK'
  BY DEF Destroy, FilesTypeOK
<1>3. Watched' = Watched \ F
  BY <1>1 DEF Watched
<1>4. Times' /\ KnownWatched' /\ EmptyNotKnown'
  BY <1>1, <1>3 DEF Times, KnownWatched, EmptyNotKnown, Watched
<1>5. NoEditMissed'
  BY <1>1, <1>3 DEF NoEditMissed, Reports, Watched
<1> QED BY <1>2, <1>4, <1>5

\* Every step of the editor and of the watchers keeps the invariant.
LEMMA WatchingNext ==
    ASSUME Watching, "IgnoreChangeIfEmpty" \in Flags, [FilesNext]_fileVars
    PROVE  Watching'
<1> USE FileWatcherAssumption
<1>1. ASSUME NEW f \in Files, NEW c \in Contents, Save(f, c) PROVE Watching'
  BY <1>1, WatchingSave
<1>2. ASSUME NEW f \in Files, Clear(f) PROVE Watching'
  BY <1>2, WatchingSave DEF Clear
<1>3. ASSUME NEW f \in Files, NEW c \in Contents, Populate(f, c) PROVE Watching'
  BY <1>3, WatchingPopulate
<1>4. ASSUME NEW f \in Files, Delete(f) PROVE Watching'
  BY <1>4, WatchingDelete
<1>5. ASSUME NEW f \in Files, Construct(f) PROVE Watching'
  <2> DEFINE w == [time |-> NotChecked, valid |-> TRUE]
  <2>1. w \in Watcher /\ w.time = NotChecked /\ w.time <= clock
    BY DEF Watcher, NotChecked, Watching, FilesTypeOK
  <2>2. CheckWith(f, w) /\ f \notin Watched
    BY <1>5 DEF Construct
  <2> HIDE DEF w
  <2> QED BY <2>1, <2>2, WatchingCheck
<1>6. ASSUME NEW f \in Files, HasChanged(f) PROVE Watching'
  <2>1. watcher[f] \in Watcher /\ watcher[f].time <= clock
    BY <1>6 DEF HasChanged, Watching, FilesTypeOK, Watched, Times
  <2> QED BY <1>6, <2>1, WatchingCheck DEF HasChanged
<1>7. ASSUME NEW F \in SUBSET Files, Destroy(F) PROVE Watching'
  BY <1>7, WatchingDestroy
<1>8. CASE UNCHANGED fileVars
  BY <1>8 DEF fileVars, Watching, FilesTypeOK, Times, KnownWatched, EmptyNotKnown,
              NoEditMissed, Watched, Reports
<1> QED BY <1>1, <1>2, <1>3, <1>4, <1>5, <1>6, <1>7, <1>8 DEF FilesNext, Edit

\* No version of a file is missed by a watcher that ignores changes to an empty
\* file (FileWatcher::hasChanged()).
THEOREM WatchersCorrect ==
    ASSUME "IgnoreChangeIfEmpty" \in Flags
    PROVE  FilesSpec => []NoEditMissed
<1>1. FilesInit => Watching
  BY WatchingInit
<1>2. Watching /\ [FilesNext]_fileVars => Watching'
  BY WatchingNext
<1>3. Watching => NoEditMissed
  BY DEF Watching
<1> QED BY <1>1, <1>2, <1>3, PTL DEF FilesSpec

-----------------------------------------------------------------------------

\* A step of Tweakable is one of the watchers, or leaves them and the files alone.
LEMMA StepsAreFileSteps == ASSUME [Next]_vars PROVE [FilesNext]_fileVars
<1>1. ASSUME Edit PROVE FilesNext
  BY <1>1 DEF FilesNext
<1>2. ASSUME Enable PROVE FilesNext
  BY <1>2 DEF Enable, FilesNext
<1>3. ASSUME NEW v \in Variables, Register(v) PROVE [FilesNext]_fileVars
  <2>1. v[1] \in Files
    BY DEF Variables
  <2> QED BY <1>3, <2>1 DEF Register, FilesNext
<1>4. ASSUME NEW v \in Outside, UseOutside(v) PROVE [FilesNext]_fileVars
  BY <1>3, <1>4, TweakableAssumption DEF UseOutside
<1>5. ASSUME NEW s \in Scopes, CallScope(s) PROVE UNCHANGED fileVars
  BY <1>5 DEF CallScope, EnterScope
<1>6. ASSUME BeginUpdate PROVE UNCHANGED fileVars
  BY <1>6 DEF BeginUpdate
<1>7. ASSUME Program PROVE [FilesNext]_fileVars
  <2>1. ASSUME NEW v \in Variables, UseInScope(v) PROVE [FilesNext]_fileVars
    BY <1>3, <2>1 DEF UseInScope
  <2>2. ASSUME NEW s \in Scopes, CallNestedScope(s) PROVE UNCHANGED fileVars
    BY <2>2 DEF CallNestedScope, EnterScope
  <2>3. ASSUME NEW f \in Files, CheckFile(f) PROVE FilesNext
    BY <2>3 DEF CheckFile, FilesNext
  <2>4. ASSUME NEW f \in Files, ReadFile(f) \/ AssertionFails(f) PROVE UNCHANGED fileVars
    BY <2>4 DEF ReadFile, AssertionFails
  <2>5. ASSUME NEW s \in Scopes, RunScope(s) PROVE UNCHANGED fileVars
    BY <2>5 DEF RunScope
  <2>6. ASSUME ScopeReturns \/ EndUpdate PROVE UNCHANGED fileVars
    BY <2>6 DEF ScopeReturns, EndUpdate
  <2> QED BY <1>7, <2>1, <2>2, <2>3, <2>4, <2>5, <2>6 DEF Program
<1>8. CASE UNCHANGED vars
  BY <1>8 DEF vars
<1> QED BY <1>1, <1>2, <1>4, <1>5, <1>6, <1>7, <1>8 DEF Next

\* Tweakable drives the files and the watchers as FileWatcher specifies.
THEOREM ImplementsFileWatcher == Spec => FilesSpec
<1>1. Init => FilesInit
  BY DEF Init
<1>2. [Next]_vars => [FilesNext]_fileVars
  BY StepsAreFileSteps
<1> QED BY <1>1, <1>2, PTL DEF Spec, FilesSpec

\* So update() misses no version of a source file, however saves, failing updates
\* and first uses of variables follow one another.
THEOREM NoEditMissedByUpdate == Spec => []NoEditMissed
<1>1. "IgnoreChangeIfEmpty" \in Flags
  BY TweakableAssumption
<1> QED BY <1>1, ImplementsFileWatcher, WatchersCorrect, PTL

-----------------------------------------------------------------------------
(***************************************************************************)
(* The values.  A file that was reported is read before anything else: in  *)
(* between, its variables are behind.                                      *)
(***************************************************************************)

Valid == \A f \in Watched : watcher[f].valid

Shaped(u) == u = [phase |-> u.phase, todo |-> u.todo, reading |-> u.reading, scopes |-> u.scopes]

Reading ==
    /\ Shaped(update)
    /\ update.reading \subseteq Files
    /\ \A f, g \in update.reading : f = g
    /\ \A f \in update.reading : seen[f] # NoFile

ParsedKnown ==
    /\ storage \in [Variables -> Values \cup {NoValue}]
    /\ parsed \subseteq Variables
    /\ \A v \in parsed : Registered(v) /\ seen[v[1]] # NoFile

ParsedCurrent ==
    \A v \in parsed :
        v[1] \notin update.reading /\ ~Reports(v[1], watcher[v[1]]) => Current(v)

ValuesInv == Watching /\ Valid /\ Reading /\ ParsedKnown /\ ParsedCurrent

\* A file whose version is known has a watcher that looked at it and goes on.
LEMMA KnownFile ==
    ASSUME Watching, Valid, NEW f \in Files, seen[f] # NoFile
    PROVE  /\ f \in Watched /\ watcher[f] \in Watcher /\ watcher[f].valid
           /\ watcher[f].time # NotChecked /\ watcher[f].time <= clock
           /\ content[f] = Empty => watcher[f].time # modified[f]
BY DEF Watching, Valid, FilesTypeOK, Times, KnownWatched, EmptyNotKnown, Watched

\* No watcher gives up, since errors are ignored.
LEMMA ValidNext ==
    ASSUME Watching, Valid, [FilesNext]_fileVars
    PROVE  Valid'
<1> USE FileWatcherAssumption, TweakableAssumption
<1>0. "IgnoreErrors" \in Flags
  OBVIOUS
<1>1. ASSUME NEW f \in Files, NEW w, w.valid = TRUE, CheckWith(f, w) PROVE Valid'
  <2>1. Checked(f, w).valid = TRUE
    BY <1>0, <1>1 DEF Checked
  <2>2. /\ watcher'[f] = Checked(f, w)
        /\ \A g \in Files \ {f} : watcher'[g] = watcher[g]
    BY <1>1 DEF CheckWith, Watching, FilesTypeOK
  <2> QED BY <2>1, <2>2 DEF Valid, Watched
<1>2. ASSUME Edit PROVE Valid'
  BY <1>2 DEF Edit, Save, Clear, Populate, Delete, Valid, Watched
<1>3. ASSUME NEW f \in Files, Construct(f) PROVE Valid'
  <2>1. PICK w : w = [time |-> NotChecked, valid |-> TRUE]
    OBVIOUS
  <2> QED BY <1>1, <1>3, <2>1 DEF Construct
<1>4. ASSUME NEW f \in Files, HasChanged(f) PROVE Valid'
  <2>1. watcher[f].valid = TRUE
    BY <1>4 DEF HasChanged, Valid, Watching, FilesTypeOK, Watched, Watcher
  <2> QED BY <1>1, <1>4, <2>1 DEF HasChanged
<1>5. ASSUME NEW F \in SUBSET Files, Destroy(F) PROVE Valid'
  BY <1>5 DEF Destroy, Valid, Watched
<1>6. CASE UNCHANGED fileVars
  BY <1>6 DEF fileVars, Valid, Watched
<1> QED BY <1>2, <1>3, <1>4, <1>5, <1>6 DEF FilesNext

\* What matters of a file to its variables.
LEMMA StaysCurrent ==
    ASSUME NEW v \in Variables, Current(v), content'[v[1]] = content[v[1]],
           storage'[v] = storage[v],
           \A u \in Variables : Registered(u) => Registered(u)'
    PROVE  Current(v)'
<1>1. FailsAt(v[1]) \subseteq FailsAt(v[1])'
  BY DEF FailsAt, Registered
<1> QED BY <1>1 DEF Current, Literal

\* A step that has nothing to do with the files.
LEMMA FilesAlone ==
    ASSUME ValuesInv, UNCHANGED <<fileVars, storage, parsed>>,
           Shaped(update'), update'.reading = update.reading
    PROVE  ValuesInv'
<1>1. Watching'
  BY WatchingNext, TweakableAssumption DEF ValuesInv
<1>2. Valid' /\ ParsedKnown' /\ Reading'
  BY DEF ValuesInv, Valid, Watched, ParsedKnown, Registered, Reading, fileVars
<1>3. ParsedCurrent'
  BY DEF ValuesInv, ParsedKnown, ParsedCurrent, Current, Literal, FailsAt, Reports, Registered, fileVars
<1> QED BY <1>1, <1>2, <1>3 DEF ValuesInv

\* The editor saves a new time, or there is nothing that could be current.
LEMMA EditStep ==
    ASSUME ValuesInv, Edit, UNCHANGED tweakVars
    PROVE  ValuesInv'
<1> USE FileWatcherAssumption, TweakableAssumption
<1>1. Watching' /\ Valid'
  BY WatchingNext, ValidNext DEF ValuesInv, FilesNext
<1>2. UNCHANGED <<watcher, seen, storage, parsed, update>>
  BY DEF Edit, Save, Clear, Populate, Delete, tweakVars
<1>3. Reading' /\ ParsedKnown'
  BY <1>2 DEF ValuesInv, Reading, ParsedKnown, Registered
<1>4. ParsedCurrent'
  <2> SUFFICES ASSUME NEW v \in parsed, v[1] \notin update.reading, ~Reports(v[1], watcher[v[1]])'
               PROVE  Current(v)'
    BY <1>2 DEF ParsedCurrent
  <2>1. v \in Variables /\ v[1] \in Files /\ seen[v[1]] # NoFile
    BY DEF ValuesInv, ParsedKnown, Variables
  <2>2. /\ watcher[v[1]] \in Watcher /\ watcher[v[1]].valid
        /\ watcher[v[1]].time # NotChecked /\ watcher[v[1]].time <= clock
        /\ content[v[1]] = Empty => watcher[v[1]].time # modified[v[1]]
    BY <2>1, KnownFile DEF ValuesInv
  <2>3. ASSUME content'[v[1]] \in Contents, modified'[v[1]] # watcher[v[1]].time PROVE FALSE
    BY <1>2, <2>2, <2>3 DEF Reports
  <2>4. ASSUME content'[v[1]] \notin Contents PROVE Current(v)'
    BY <2>4 DEF Current
  <2>5. ASSUME UNCHANGED <<content[v[1]], modified[v[1]]>> PROVE Current(v)'
    <3>1. Current(v)
      BY <1>2, <2>5 DEF ValuesInv, ParsedCurrent, Reports
    <3> QED BY <1>2, <2>1, <2>5, <3>1, StaysCurrent DEF Registered
  <2>6. /\ clock \in 0 .. MaxEdits /\ DOMAIN content = Files /\ DOMAIN modified = Files
        /\ watcher[v[1]].time \in Int
    BY <2>2 DEF ValuesInv, Watching, FilesTypeOK, Watcher, NotChecked
  <2>7. ASSUME NEW f \in Files, NEW c \in Contents \cup {Empty}, Save(f, c) PROVE Current(v)'
    <3>1. CASE f = v[1]
      <4>1. modified'[f] = clock + 1 /\ clock + 1 # watcher[f].time
        BY <2>2, <2>6, <2>7, <3>1 DEF Save
      <4> QED BY <2>3, <2>4, <3>1, <4>1
    <3>2. CASE f # v[1]
      BY <2>1, <2>5, <2>6, <2>7, <3>2 DEF Save
    <3> QED BY <3>1, <3>2
  <2>8. ASSUME NEW f \in Files, NEW c \in Contents, Populate(f, c) PROVE Current(v)'
    <3>1. CASE f = v[1]
      BY <2>2, <2>3, <2>4, <2>8, <3>1 DEF Populate
    <3>2. CASE f # v[1]
      BY <2>1, <2>5, <2>6, <2>8, <3>2 DEF Populate
    <3> QED BY <3>1, <3>2
  <2>9. ASSUME NEW f \in Files, Delete(f) PROVE Current(v)'
    <3>1. CASE f = v[1]
      BY <2>1, <2>4, <2>6, <2>9, <3>1 DEF Delete
    <3>2. CASE f # v[1]
      BY <2>1, <2>5, <2>6, <2>9, <3>2 DEF Delete
    <3> QED BY <3>1, <3>2
  <2> QED BY <2>7, <2>8, <2>9 DEF Edit, Clear
<1> QED BY <1>1, <1>3, <1>4 DEF ValuesInv

\* The first use of a variable starts to watch its file, which has no parsed
\* variables then, and leaves the values there are.
LEMMA RegisterStep ==
    ASSUME ValuesInv, NEW v \in Variables, Register(v), UNCHANGED <<update, parsed>>
    PROVE  ValuesInv'
<1> USE FileWatcherAssumption, TweakableAssumption
<1>0. v[1] \in Files
  BY DEF Variables
<1>1. [FilesNext]_fileVars
  BY <1>0 DEF Register, FilesNext
<1>2. Watching' /\ Valid'
  BY <1>1, WatchingNext, ValidNext DEF ValuesInv
<1>3. /\ storage' \in [Variables -> Values \cup {NoValue}]
      /\ \A u \in Variables : Registered(u) => storage'[u] = storage[u] /\ Registered(u)'
  BY DEF ValuesInv, ParsedKnown, Register, Registered
<1>4. \A f \in Files : seen[f] # NoFile =>
        /\ seen'[f] = seen[f] /\ watcher'[f] = watcher[f]
        /\ content'[f] = content[f] /\ modified'[f] = modified[f]
  <2> SUFFICES ASSUME NEW f \in Files, seen[f] # NoFile
               PROVE  /\ seen'[f] = seen[f] /\ watcher'[f] = watcher[f]
                      /\ content'[f] = content[f] /\ modified'[f] = modified[f]
    OBVIOUS
  <2>1. f \in Watched
    BY KnownFile DEF ValuesInv
  <2>2. CASE UNCHANGED fileVars
    BY <2>2 DEF fileVars
  <2>3. CASE v[1] \notin Watched /\ Construct(v[1])
    BY <2>1, <2>3 DEF Construct, CheckWith, ValuesInv, Watching, FilesTypeOK
  <2> QED BY <2>2, <2>3 DEF Register
<1>5. Reading'
  BY <1>4 DEF ValuesInv, Reading, Shaped
<1>6. ParsedKnown'
  BY <1>3, <1>4 DEF ValuesInv, ParsedKnown, Variables
<1>7. ParsedCurrent'
  <2> SUFFICES ASSUME NEW u \in parsed, u[1] \notin update.reading, ~Reports(u[1], watcher[u[1]])'
               PROVE  Current(u)'
    BY DEF ParsedCurrent
  <2>1. u \in Variables /\ u[1] \in Files /\ Registered(u) /\ seen[u[1]] # NoFile
    BY DEF ValuesInv, ParsedKnown, Variables
  <2>2. ~Reports(u[1], watcher[u[1]])
    BY <1>4, <2>1 DEF Reports
  <2>3. Current(u)
    BY <2>2 DEF ValuesInv, ParsedCurrent
  <2> QED BY <1>3, <1>4, <2>1, <2>3, StaysCurrent
<1> QED BY <1>2, <1>5, <1>6, <1>7 DEF ValuesInv

\* A file that is reported is to be read; of any other, the watcher stays as it is.
LEMMA CheckStep ==
    ASSUME ValuesInv, NEW f \in Files, CheckFile(f)
    PROVE  ValuesInv'
<1> USE FileWatcherAssumption, TweakableAssumption
<1>1. Watching' /\ Valid'
  BY WatchingNext, ValidNext DEF ValuesInv, CheckFile, FilesNext
<1>2. /\ UNCHANGED <<content, modified, storage, parsed>>
      /\ f \in Watched /\ update.reading = {}
      /\ update'.reading = {g \in {f} : Reports(g, watcher[g])}
      /\ Shaped(update')
      /\ watcher'[f] = Checked(f, watcher[f])
      /\ seen'[f] = IF Reports(f, watcher[f]) \/ (Remembers(f, watcher[f]) /\ content[f] # Empty)
                    THEN content[f] ELSE seen[f]
      /\ \A g \in Files \ {f} : watcher'[g] = watcher[g] /\ seen'[g] = seen[g]
  BY DEF ValuesInv, Watching, FilesTypeOK, Reading, CheckFile, HasChanged, CheckWith, Shaped
<1>3. \A g \in Files : seen[g] # NoFile => seen'[g] # NoFile
  BY <1>2 DEF Remembers, Reports
<1>4. Reading'
  BY <1>2 DEF Reading, Reports
<1>5. ParsedKnown'
  BY <1>2, <1>3 DEF ValuesInv, ParsedKnown, Registered, Variables
<1>6. ParsedCurrent'
  <2> SUFFICES ASSUME NEW v \in parsed, v[1] \notin update'.reading, ~Reports(v[1], watcher[v[1]])'
               PROVE  Current(v)'
    BY <1>2 DEF ParsedCurrent
  <2>1. v \in Variables /\ v[1] \in Files /\ seen[v[1]] # NoFile
    BY DEF ValuesInv, ParsedKnown, Variables
  <2>2. ~Reports(v[1], watcher[v[1]])
    <3>1. CASE v[1] = f
      BY <1>2, <3>1
    <3>2. CASE v[1] # f
      BY <1>2, <2>1, <3>2 DEF Reports
    <3> QED BY <3>1, <3>2
  <2>3. Current(v)
    BY <1>2, <2>2 DEF ValuesInv, ParsedCurrent
  <2> QED BY <1>2, <2>1, <2>3, StaysCurrent DEF Registered
<1> QED BY <1>1, <1>4, <1>5, <1>6 DEF ValuesInv

\* parseTweakables() gives every registered variable that the file has its value,
\* if it does not fail.
LEMMA ReadStep ==
    ASSUME ValuesInv, NEW f \in Files, ReadFile(f)
    PROVE  ValuesInv'
<1> USE FileWatcherAssumption, TweakableAssumption
<1>1. /\ UNCHANGED fileVars
      /\ f \in update.reading /\ f \in Files /\ seen[f] # NoFile
      /\ \A g \in update.reading : g = f
      /\ storage' = [v \in Variables |-> IF v \in Parses(f) THEN Literal(v) ELSE storage[v]]
      /\ parsed' = parsed \cup Parses(f)
  BY DEF ReadFile, ValuesInv, Reading
<1>2. update'.reading = {} /\ Shaped(update')
  <2>1. update' = NoUpdate \/ \E S : update' = [update EXCEPT !.reading = {}, !.scopes = S]
    BY DEF ReadFile
  <2>2. CASE update' = NoUpdate
    BY <2>2 DEF NoUpdate, Shaped
  <2>3. ASSUME NEW S, update' = [update EXCEPT !.reading = {}, !.scopes = S]
        PROVE  update'.reading = {} /\ Shaped(update')
    <3>1. update = [phase |-> update.phase, todo |-> update.todo,
                    reading |-> update.reading, scopes |-> update.scopes]
      BY DEF ValuesInv, Reading, Shaped
    <3>2. update' = [phase |-> update.phase, todo |-> update.todo, reading |-> {}, scopes |-> S]
      BY <2>3, <3>1
    <3> QED BY <3>2 DEF Shaped
  <2> QED BY <2>1, <2>2, <2>3
<1>3. Watching' /\ Valid' /\ Reading'
  <2>1. Watching' /\ Valid'
    BY <1>1, WatchingNext, ValidNext DEF ValuesInv
  <2> QED BY <1>2, <2>1 DEF Reading
<1>4. \A v \in Parses(f) : v \in Variables /\ v[1] = f /\ Registered(v) /\ Literal(v) \in Values
  <2> SUFFICES ASSUME NEW v \in Parses(f)
               PROVE  v \in Variables /\ v[1] = f /\ Registered(v) /\ Literal(v) \in Values
    OBVIOUS
  <2>1. /\ v \in Variables /\ v[1] = f /\ Registered(v) /\ v[2] \in DOMAIN content[f]
        /\ \A i \in FailsAt(f) : v[2] < i
    BY DEF Parses
  <2>2. v = <<f, v[2]>> /\ v[2] \in Int
    BY <2>1 DEF Variables
  <2>3. v[2] \notin FailsAt(f)
    BY <2>1, <2>2
  <2> QED BY <2>1, <2>2, <2>3 DEF FailsAt, Literal
<1>5. /\ storage' \in [Variables -> Values \cup {NoValue}]
      /\ \A v \in Variables : Registered(v)' <=> Registered(v)
      /\ \A v \in Parses(f) : storage'[v] = Literal(v)
      /\ \A v \in Variables : v[1] # f => storage'[v] = storage[v]
  BY <1>1, <1>4 DEF ValuesInv, ParsedKnown, Registered, Literals
<1>6. ParsedKnown'
  BY <1>1, <1>4, <1>5 DEF ValuesInv, ParsedKnown, fileVars
<1>7. ASSUME NEW v \in parsed', ~Reports(v[1], watcher[v[1]])' PROVE Current(v)'
  <2>1. v \in Variables
    BY <1>7, <1>6 DEF ParsedKnown
  <2>2. FailsAt(v[1])' = FailsAt(v[1]) /\ content' = content
    BY <1>1, <1>5 DEF FailsAt, fileVars
  <2>3. CASE v[1] = f
    <3>1. Registered(v)
      BY <1>5, <1>6, <1>7, <2>1 DEF ParsedKnown
    <3>2. v[2] \in DOMAIN content[f] /\ FailsAt(f) = {} => v \in Parses(f)
      BY <2>1, <2>3, <3>1 DEF Parses
    <3> QED BY <1>5, <2>2, <2>3, <3>2 DEF Current, Literal
  <2>4. CASE v[1] # f
    <3>1. v \in parsed
      BY <1>1, <1>4, <1>7, <2>4
    <3>2. Current(v)
      BY <1>1, <1>7, <2>4, <3>1 DEF ValuesInv, ParsedCurrent, Reports, fileVars
    <3> QED BY <1>5, <2>1, <2>2, <2>4, <3>2 DEF Current, Literal
  <2> QED BY <2>3, <2>4
<1>8. ParsedCurrent'
  BY <1>7 DEF ParsedCurrent
<1> QED BY <1>3, <1>6, <1>8 DEF ValuesInv

\* Without the file, nothing is read, and nothing could be current.
LEMMA AssertionStep ==
    ASSUME ValuesInv, NEW f \in Files, AssertionFails(f)
    PROVE  ValuesInv'
<1> USE FileWatcherAssumption, TweakableAssumption
<1>1. /\ UNCHANGED <<fileVars, storage, parsed>>
      /\ content[f] = NoFile /\ \A g \in update.reading : g = f
      /\ update'.reading = {} /\ Shaped(update')
  BY DEF AssertionFails, ValuesInv, Reading, NoUpdate, Shaped
<1>2. Watching' /\ Valid'
  BY <1>1, WatchingNext, ValidNext DEF ValuesInv
<1>3. Reading' /\ ParsedKnown'
  BY <1>1 DEF ValuesInv, Reading, ParsedKnown, Registered, fileVars
<1>4. ParsedCurrent'
  <2> SUFFICES ASSUME NEW v \in parsed, ~Reports(v[1], watcher[v[1]])'
               PROVE  Current(v)'
    BY <1>1 DEF ParsedCurrent
  <2>1. CASE v[1] = f
    BY <1>1, <2>1 DEF Current, fileVars
  <2>2. CASE v[1] # f
    <3>1. v \in Variables
      BY DEF ValuesInv, ParsedKnown
    <3>2. Current(v)
      BY <1>1, <2>2 DEF ValuesInv, ParsedCurrent, Reports, fileVars
    <3> QED BY <1>1, <3>1, <3>2, StaysCurrent DEF Registered, fileVars
  <2> QED BY <2>1, <2>2
<1> QED BY <1>2, <1>3, <1>4 DEF ValuesInv

\* enable() forgets the variables.
LEMMA EnableStep ==
    ASSUME ValuesInv, Enable
    PROVE  ValuesInv'
<1>1. Watching' /\ Valid'
  BY WatchingNext, ValidNext, TweakableAssumption DEF ValuesInv, Enable, FilesNext
<1>2. update.reading = {} /\ update' = update
  BY DEF Enable, Idle, NoUpdate
<1>3. Reading' /\ ParsedKnown' /\ ParsedCurrent'
  BY <1>2 DEF ValuesInv, Enable, Reading, ParsedKnown, ParsedCurrent
<1> QED BY <1>1, <1>3 DEF ValuesInv

LEMMA ValuesNext ==
    ASSUME ValuesInv, [Next]_vars
    PROVE  ValuesInv'
<1> USE DEF ValuesInv
<1>0. Shaped(update)
  BY DEF Reading
<1>1. CASE Edit /\ UNCHANGED tweakVars
  BY <1>1, EditStep
<1>2. CASE Enable
  BY <1>2, EnableStep
<1>3. ASSUME NEW v \in Outside, UseOutside(v) PROVE ValuesInv'
  BY <1>3, RegisterStep, TweakableAssumption DEF UseOutside
<1>4. ASSUME NEW s \in Scopes, NEW callers, EnterScope(s, callers) PROVE ValuesInv'
  BY <1>0, <1>4, FilesAlone DEF EnterScope
<1>5. CASE BeginUpdate
  BY <1>5, FilesAlone DEF BeginUpdate, Idle, NoUpdate, Shaped
<1>6. ASSUME NEW v \in Variables, UseInScope(v) PROVE ValuesInv'
  <2>1. CASE enabled
    BY <1>6, <2>1, RegisterStep DEF UseInScope
  <2>2. CASE ~enabled
    BY <1>0, <1>6, <2>2, FilesAlone DEF UseInScope
  <2> QED BY <2>1, <2>2
<1>7. CASE ScopeReturns
  BY <1>0, <1>7, FilesAlone DEF ScopeReturns
<1>8. ASSUME NEW s \in Scopes, RunScope(s) PROVE ValuesInv'
  BY <1>0, <1>8, FilesAlone DEF RunScope, Shaped
<1>9. CASE EndUpdate
  <2>1. update.reading = {} /\ update'.reading = {} /\ Shaped(update')
    BY <1>9 DEF EndUpdate, NoUpdate, Shaped
  <2> QED BY <1>9, <2>1, FilesAlone DEF EndUpdate
<1>10. CASE UNCHANGED vars
  BY <1>0, <1>10, FilesAlone DEF vars, tweakVars
<1> QED BY <1>1, <1>2, <1>3, <1>4, <1>5, <1>6, <1>7, <1>8, <1>9, <1>10, CheckStep, ReadStep, AssertionStep
        DEF Next, Program, CallScope, CallNestedScope

LEMMA ValuesInit == ASSUME Init PROVE ValuesInv
<1>1. Watching
  BY WatchingInit DEF Init
<1>2. Valid
  BY DEF Init, FilesInit, Valid, Watched
<1>3. Reading /\ ParsedKnown /\ ParsedCurrent
  BY DEF Init, Reading, Shaped, NoUpdate, ParsedKnown, ParsedCurrent
<1> QED BY <1>1, <1>2, <1>3 DEF ValuesInv

(***************************************************************************)
(* Unless its watcher is about to report, a variable that an update has    *)
(* parsed has the value its file says, however edits, failing updates and  *)
(* first uses follow one another (Tweakable::update()).                    *)
(***************************************************************************)
THEOREM ValuesAlwaysCurrent == Spec => []ValuesCurrent
<1>1. Init => ValuesInv
  BY ValuesInit
<1>2. ValuesInv /\ [Next]_vars => ValuesInv'
  BY ValuesNext
<1>3. ValuesInv => ValuesCurrent
  BY DEF ValuesInv, ParsedCurrent, ValuesCurrent, Idle, NoUpdate
<1> QED BY <1>1, <1>2, <1>3, PTL DEF Spec

-----------------------------------------------------------------------------
(***************************************************************************)
(* The scopes.  A scope that has to run again is lost, or about to be run, *)
(* or it runs and has not come to the variable yet.                        *)
(***************************************************************************)

CallsSound ==
    /\ calls \in Seq(Call)
    /\ \A i \in 1 .. Len(calls) : Range(calls[i].left) \subseteq Range(Body[calls[i].scope])

\* The current scope is the one that runs, after a nested one and under update()
\* it is none.
CurrentSound ==
    currentScope # NoScope =>
        enabled /\ calls # <<>> /\ ~Top.direct /\ currentScope = Top.scope

ScopeOfSound ==
    /\ used \in [Scopes -> [Variables -> Values \cup {NoValue}]]
    /\ scopeOf \in [Variables -> Scopes \cup {NoScope}]
    /\ \A v \in Variables : scopeOf[v] # NoScope => enabled /\ v \in Range(Body[scopeOf[v]])

\* In one of the calls c, s has still to use v.
Pending(c, s, v) == \E i \in 1 .. Len(c) : c[i].scope = s /\ v \in Range(c[i].left)

UsesKept ==
    update.phase # "Aborted" =>
        \A v \in Variables :
            \/ scopeOf[v] \in lost \cup update.scopes \cup {NoScope}
            \/ used[scopeOf[v]][v] = storage[v]
            \/ Pending(calls, scopeOf[v], v)

ScopesInv == CallsSound /\ CurrentSound /\ ScopeOfSound /\ UsesKept

\* The call that runs.
LEMMA TopCall ==
    ASSUME CallsSound, calls # <<>>
    PROVE  /\ Len(calls) \in Nat \ {0} /\ Top \in Call
           /\ Range(Top.left) \subseteq Range(Body[Top.scope])
<1>1. Len(calls) \in Nat \ {0}
  BY EmptySeq DEF CallsSound
<1> QED BY <1>1, ElementOfSeq DEF CallsSound, Top

\* A lambda that did the next thing it does has the others to do.
LEMMA AdvancedCalls ==
    ASSUME CallsSound, NEW x \in Doing
    PROVE  /\ calls # <<>> /\ Len(calls) \in Nat \ {0} /\ x \in Range(Body[Top.scope])
           /\ Advanced \in Seq(Call) /\ Len(Advanced) = Len(calls)
           /\ Advanced[Len(calls)].scope = Top.scope /\ Advanced[Len(calls)].direct = Top.direct
           /\ \A i \in 1 .. Len(calls) : Range(Advanced[i].left) \subseteq Range(Body[Advanced[i].scope])
           /\ \A s, v : Pending(calls, s, v) => Pending(Advanced, s, v) \/ (s = Top.scope /\ v = x)
<1>1. calls # <<>>
  BY DEF Doing
<1>2. /\ Len(calls) \in Nat \ {0} /\ Top \in Call /\ Top = calls[Len(calls)]
      /\ Range(Top.left) \subseteq Range(Body[Top.scope])
  BY <1>1, TopCall DEF Top
<1>3. Top.left \in Seq(Variables \cup Scopes) /\ 1 \in DOMAIN Top.left /\ x = Top.left[1]
  BY <1>1, <1>2 DEF Doing, Call
<1>4. Top.left # <<>>
  BY <1>3
<1>5. /\ Tail(Top.left) \in Seq(Variables \cup Scopes)
      /\ Len(Tail(Top.left)) = Len(Top.left) - 1 /\ Len(Top.left) \in Nat
      /\ \A i \in 1 .. Len(Tail(Top.left)) : Tail(Top.left)[i] = Top.left[i + 1]
  BY <1>3, <1>4, HeadTailProperties, LenProperties
<1>6. /\ \A y \in Range(Top.left) : y = x \/ y \in Range(Tail(Top.left))
      /\ Range(Tail(Top.left)) \subseteq Range(Top.left)
  <2>1. DOMAIN Top.left = 1 .. Len(Top.left) /\ DOMAIN Tail(Top.left) = 1 .. Len(Top.left) - 1
    BY <1>3, <1>5, LenProperties
  <2>2. ASSUME NEW i \in 1 .. Len(Top.left), i # 1
        PROVE  Top.left[i] \in Range(Tail(Top.left))
    <3>1. i - 1 \in 1 .. Len(Top.left) - 1 /\ (i - 1) + 1 = i
      BY <1>5, <2>2
    <3>2. Tail(Top.left)[i - 1] = Top.left[i]
      BY <1>5, <3>1
    <3> QED BY <2>1, <3>1, <3>2 DEF Range
  <2>3. ASSUME NEW i \in 1 .. Len(Top.left) - 1
        PROVE  Tail(Top.left)[i] \in Range(Top.left)
    <3>1. i + 1 \in 1 .. Len(Top.left)
      BY <1>5, <2>3
    <3> QED BY <1>5, <2>1, <2>3, <3>1 DEF Range
  <2> QED BY <1>3, <2>1, <2>2, <2>3 DEF Range
<1> DEFINE t == [Top EXCEPT !.left = Tail(Top.left)]
<1>7. t \in Call /\ t.scope = Top.scope /\ t.direct = Top.direct /\ t.left = Tail(Top.left)
  BY <1>2, <1>5 DEF Call
<1> HIDE DEF t
<1>8. /\ Advanced \in Seq(Call) /\ Len(Advanced) = Len(calls)
      /\ \A i \in 1 .. Len(calls) : Advanced[i] = IF i = Len(calls) THEN t ELSE calls[i]
  <2>1. Advanced = [calls EXCEPT ![Len(calls)] = t]
    BY DEF Advanced, t
  <2>2. Len(calls) \in 1 .. Len(calls) /\ calls \in Seq(Call)
    BY <1>2 DEF CallsSound
  <2> QED BY <1>7, <2>1, <2>2, ExceptSeq
<1>9. Len(calls) \in 1 .. Len(calls)
  BY <1>2
<1>10. \A i \in 1 .. Len(calls) : Range(Advanced[i].left) \subseteq Range(Body[Advanced[i].scope])
  BY <1>2, <1>6, <1>7, <1>8 DEF CallsSound
<1>11. ASSUME NEW s, NEW v, Pending(calls, s, v) PROVE Pending(Advanced, s, v) \/ (s = Top.scope /\ v = x)
  <2>1. PICK i \in 1 .. Len(calls) : calls[i].scope = s /\ v \in Range(calls[i].left)
    BY <1>11 DEF Pending
  <2>2. CASE i = Len(calls)
    BY <1>2, <1>6, <1>7, <1>8, <2>1, <2>2 DEF Pending
  <2>3. CASE i # Len(calls)
    BY <1>8, <2>1, <2>3 DEF Pending
  <2> QED BY <2>2, <2>3
<1>12. x \in Range(Body[Top.scope])
  BY <1>2, <1>3 DEF Range
<1> QED BY <1>1, <1>2, <1>7, <1>8, <1>9, <1>10, <1>11, <1>12

\* What leaves variables, scopes and calls alone.
LEMMA ScopesAlone ==
    ASSUME ScopesInv, UNCHANGED <<enabled, storage, scopeOf, currentScope, calls, used, lost>>,
           \/ update'.phase = "Aborted"
           \/ update.phase # "Aborted" /\ update'.scopes = update.scopes
           \/ update' = update
    PROVE  ScopesInv'
<1>1. CallsSound' /\ CurrentSound' /\ ScopeOfSound'
  BY DEF ScopesInv, CallsSound, CurrentSound, Top, ScopeOfSound
<1>2. UsesKept'
  BY DEF ScopesInv, UsesKept, Pending
<1> QED BY <1>1, <1>2 DEF ScopesInv

\* registerVariable(): the lambda that runs gets the value.
LEMMA ScopesUse ==
    ASSUME ScopesInv, ValuesInv, ValuesInv', NEW x \in Variables, UseInScope(x)
    PROVE  ScopesInv'
<1> USE TweakableAssumption
<1>1. /\ x \in Doing /\ calls' = Advanced
      /\ UNCHANGED <<enabled, currentScope, update, lost>>
      /\ CallsSound /\ ScopeOfSound /\ CurrentSound
  BY DEF UseInScope, ScopesInv
<1>2. /\ calls # <<>> /\ Len(calls) \in Nat \ {0} /\ x \in Range(Body[Top.scope])
      /\ calls' \in Seq(Call) /\ Len(calls') = Len(calls)
      /\ calls'[Len(calls)].scope = Top.scope /\ calls'[Len(calls)].direct = Top.direct
      /\ \A i \in 1 .. Len(calls) : Range(calls'[i].left) \subseteq Range(Body[calls'[i].scope])
      /\ \A s, v : Pending(calls, s, v) => Pending(calls', s, v) \/ (s = Top.scope /\ v = x)
  BY <1>1, AdvancedCalls
<1>3. CallsSound'
  BY <1>2 DEF CallsSound
<1>4. CurrentSound'
  <2>1. Top' = calls'[Len(calls)] /\ calls' # <<>>
    BY <1>2 DEF Top
  <2> QED BY <1>1, <1>2, <2>1 DEF CurrentSound
<1>5. PICK top \in Scopes : top = Top.scope
  BY <1>1, <1>2, TopCall DEF Call
<1>6. currentScope \in {NoScope, top}
  BY <1>1, <1>5 DEF CurrentSound
<1>7. /\ used' \in [Scopes -> [Variables -> Values \cup {NoValue}]]
      /\ scopeOf' \in [Variables -> Scopes \cup {NoScope}]
      /\ \A v \in Variables \ {x} : storage'[v] = storage[v] /\ scopeOf'[v] = scopeOf[v]
      /\ \A s \in Scopes, v \in Variables \ {x} : used'[s][v] = used[s][v]
      /\ ~enabled => UNCHANGED <<storage, scopeOf, used>>
      /\ enabled => /\ used'[top][x] = storage'[x]
                    /\ \A s \in Scopes \ {top} : used'[s][x] = used[s][x]
                    /\ \/ scopeOf'[x] = scopeOf[x] /\ storage'[x] = storage[x]
                       \/ scopeOf'[x] \in {NoScope, top}
  <2>1. CASE ~enabled
    BY <1>1, <2>1 DEF UseInScope, ScopeOfSound
  <2>2. CASE enabled
    <3>1. /\ storage' = IF Registered(x) THEN storage ELSE [storage EXCEPT ![x] = Compiled]
          /\ scopeOf' = IF Registered(x) THEN scopeOf ELSE [scopeOf EXCEPT ![x] = currentScope]
          /\ used' = [used EXCEPT ![top][x] = storage'[x]]
      BY <1>5, <2>2 DEF UseInScope, Register
    <3>2. storage \in [Variables -> Values \cup {NoValue}] /\ storage' \in [Variables -> Values \cup {NoValue}]
      BY DEF ValuesInv, ParsedKnown
    <3>3. PICK val \in Values \cup {NoValue} : val = storage'[x]
      BY <3>2
    <3>4. used' = [used EXCEPT ![top][x] = val]
      BY <3>1, <3>3
    <3>5. used' \in [Scopes -> [Variables -> Values \cup {NoValue}]]
      BY <1>1, <1>5, <3>3, <3>4 DEF ScopeOfSound
    <3>6. /\ \A s \in Scopes, v \in Variables \ {x} : used'[s][v] = used[s][v]
          /\ used'[top][x] = val
          /\ \A s \in Scopes \ {top} : used'[s][x] = used[s][x]
      BY <1>1, <1>5, <3>3, <3>4 DEF ScopeOfSound
    <3>7. /\ scopeOf' \in [Variables -> Scopes \cup {NoScope}]
          /\ \A v \in Variables \ {x} : storage'[v] = storage[v] /\ scopeOf'[v] = scopeOf[v]
          /\ \/ scopeOf'[x] = scopeOf[x] /\ storage'[x] = storage[x]
             \/ scopeOf'[x] \in {NoScope, top}
      BY <1>1, <1>5, <1>6, <3>1, <3>2 DEF ScopeOfSound
    <3> QED BY <2>2, <3>3, <3>5, <3>6, <3>7
  <2> QED BY <2>1, <2>2
<1>8. ScopeOfSound'
  <2> SUFFICES ASSUME NEW v \in Variables, scopeOf'[v] # NoScope
               PROVE  enabled' /\ v \in Range(Body[scopeOf'[v]])
    BY <1>7 DEF ScopeOfSound
  <2>1. CASE scopeOf'[v] = scopeOf[v]
    BY <1>1, <2>1 DEF ScopeOfSound
  <2>2. CASE scopeOf'[v] # scopeOf[v]
    <3>1. v = x /\ enabled /\ scopeOf'[v] = top
      BY <1>7, <2>2
    <3> QED BY <1>1, <1>2, <1>5, <3>1
  <2> QED BY <2>1, <2>2
<1>9. UsesKept'
  <2> SUFFICES ASSUME update.phase # "Aborted", NEW v \in Variables,
                      NEW s, s = scopeOf'[v], s \notin lost \cup update.scopes \cup {NoScope}
               PROVE  used'[s][v] = storage'[v] \/ Pending(calls', s, v)
    BY <1>1 DEF UsesKept
  <2>1. s \in Scopes
    BY <1>7
  <2>2. ASSUME scopeOf'[v] = scopeOf[v], storage'[v] = storage[v], used'[s][v] = used[s][v],
               v # x \/ s # top
        PROVE  used'[s][v] = storage'[v] \/ Pending(calls', s, v)
    <3>1. used[s][v] = storage[v] \/ Pending(calls, s, v)
      BY <2>2 DEF ScopesInv, UsesKept
    <3>2. Pending(calls, s, v) => Pending(calls', s, v)
      BY <1>2, <1>5, <2>2
    <3> QED BY <2>2, <3>1, <3>2
  <2>3. CASE v # x
    BY <1>7, <2>1, <2>2, <2>3
  <2>4. CASE v = x /\ enabled
    <3>1. CASE s = top
      BY <1>7, <2>4, <3>1
    <3>2. CASE s # top
      BY <1>7, <2>1, <2>2, <2>4, <3>2
    <3> QED BY <3>1, <3>2
  <2>5. CASE ~enabled
    <3>1. s = scopeOf[v]
      BY <1>7, <2>5
    <3> QED BY <1>1, <2>5, <3>1 DEF ScopeOfSound
  <2> QED BY <2>3, <2>4, <2>5
<1> QED BY <1>3, <1>4, <1>8, <1>9 DEF ScopesInv

\* A call of a scope is about to do all that its lambda does.
CalledIn(callers, t, c) ==
    /\ c \in Seq(Call) /\ c # <<>> /\ Len(c) \in Nat /\ c[Len(c)] = t
    /\ \A i \in 1 .. Len(c) : Range(c[i].left) \subseteq Range(Body[c[i].scope])
    /\ \A r, v : Pending(callers, r, v) => Pending(c, r, v)
    /\ \A v \in Range(Body[t.scope]) : Pending(c, t.scope, v)

LEMMA CalledAfter ==
    ASSUME NEW callers \in Seq(Call), NEW t \in Call, t.left = Body[t.scope],
           NEW c, c = Append(callers, t),
           \A i \in 1 .. Len(callers) : Range(callers[i].left) \subseteq Range(Body[callers[i].scope])
    PROVE  CalledIn(callers, t, c)
<1>1. /\ c \in Seq(Call) /\ Len(c) = Len(callers) + 1 /\ Len(callers) \in Nat
      /\ \A i \in 1 .. Len(callers) : c[i] = callers[i]
      /\ c[Len(callers) + 1] = t
  BY AppendProperties, LenProperties
<1>2. Len(c) \in Nat /\ c # <<>> /\ c[Len(c)] = t /\ Len(c) \in 1 .. Len(c)
  BY <1>1
<1>3. \A i \in 1 .. Len(c) : i \in 1 .. Len(callers) \/ i = Len(c)
  BY <1>1
<1>4. \A i \in 1 .. Len(callers) : i \in 1 .. Len(c)
  BY <1>1
<1>5. \A i \in 1 .. Len(c) : Range(c[i].left) \subseteq Range(Body[c[i].scope])
  BY <1>1, <1>2, <1>3
<1>6. \A r, v : Pending(callers, r, v) => Pending(c, r, v)
  BY <1>1, <1>4 DEF Pending
<1>7. \A v \in Range(Body[t.scope]) : Pending(c, t.scope, v)
  BY <1>2 DEF Pending
<1> QED BY <1>1, <1>2, <1>5, <1>6, <1>7 DEF CalledIn

\* scopeInternal(): the scope is no longer lost, as its lambda runs.
LEMMA ScopesEnter ==
    ASSUME ScopesInv, NEW s \in Scopes, NEW callers,
           (callers = calls /\ calls = <<>>) \/ (callers = Advanced /\ s \in Doing),
           EnterScope(s, callers)
    PROVE  ScopesInv'
<1> USE TweakableAssumption
<1> DEFINE t == [scope |-> s, left |-> Body[s], direct |-> FALSE]
<1>0. t \in Call /\ t.scope = s /\ t.left = Body[s] /\ ~t.direct
  BY DEF Call
<1> HIDE DEF t
<1>1. /\ currentScope' = IF enabled THEN s ELSE currentScope
      /\ calls' = Append(callers, t)
      /\ lost' = lost \ {s}
      /\ UNCHANGED <<enabled, storage, scopeOf, update, used>>
      /\ CallsSound /\ ScopeOfSound /\ CurrentSound
  BY DEF EnterScope, ScopesInv, t
<1>2. /\ callers \in Seq(Call)
      /\ \A i \in 1 .. Len(callers) : Range(callers[i].left) \subseteq Range(Body[callers[i].scope])
      /\ \A r \in Scopes, v \in Variables : Pending(calls, r, v) => Pending(callers, r, v)
  <2>1. CASE callers = calls
    BY <1>1, <2>1 DEF CallsSound
  <2>2. CASE callers = Advanced /\ s \in Doing
    <3>1. \A v \in Variables : v # s
      OBVIOUS
    <3>2. /\ Len(calls) \in Nat \ {0}
          /\ Advanced \in Seq(Call) /\ Len(Advanced) = Len(calls)
          /\ \A i \in 1 .. Len(calls) : Range(Advanced[i].left) \subseteq Range(Body[Advanced[i].scope])
          /\ \A r, v : Pending(calls, r, v) => Pending(Advanced, r, v) \/ (r = Top.scope /\ v = s)
      BY <1>1, <2>2, AdvancedCalls
    <3> QED BY <2>2, <3>1, <3>2
  <2> QED BY <2>1, <2>2
<1>3. /\ calls' \in Seq(Call) /\ calls' # <<>> /\ Len(calls') \in Nat
      /\ calls'[Len(calls')] = t
      /\ \A i \in 1 .. Len(calls') : Range(calls'[i].left) \subseteq Range(Body[calls'[i].scope])
      /\ \A r, v : Pending(callers, r, v) => Pending(calls', r, v)
      /\ \A v \in Range(Body[s]) : Pending(calls', s, v)
  <2>1. PICK c : c = calls'
    OBVIOUS
  <2>2. CalledIn(callers, t, c)
    <3>1. t \in Call /\ t.left = Body[t.scope] /\ callers \in Seq(Call) /\ c = Append(callers, t)
      BY <1>0, <1>1, <1>2, <2>1
    <3>2. \A i \in 1 .. Len(callers) : Range(callers[i].left) \subseteq Range(Body[callers[i].scope])
      BY <1>2
    <3> QED BY ONLY <3>1, <3>2, CalledAfter
  <2> QED BY <1>0, <2>1, <2>2 DEF CalledIn
<1>4. CallsSound'
  BY <1>3 DEF CallsSound
<1>5. CurrentSound'
  <2>1. Top'.scope = s /\ ~Top'.direct
    BY <1>0, <1>3 DEF Top
  <2> QED BY <1>1, <1>3, <2>1 DEF CurrentSound
<1>6. ScopeOfSound'
  BY <1>1 DEF ScopeOfSound
<1>7. UsesKept'
  <2> SUFFICES ASSUME update.phase # "Aborted", NEW v \in Variables,
                      scopeOf[v] \notin (lost \ {s}) \cup update.scopes \cup {NoScope}
               PROVE  used[scopeOf[v]][v] = storage[v] \/ Pending(calls', scopeOf[v], v)
    BY <1>1 DEF UsesKept
  <2>1. CASE scopeOf[v] = s
    BY <1>1, <1>3, <2>1 DEF ScopeOfSound
  <2>2. CASE scopeOf[v] # s
    <3>1. used[scopeOf[v]][v] = storage[v] \/ Pending(calls, scopeOf[v], v)
      BY <2>2 DEF ScopesInv, UsesKept
    <3>2. scopeOf[v] \in Scopes
      BY <1>1 DEF ScopeOfSound
    <3> QED BY <1>2, <1>3, <3>1, <3>2
  <2> QED BY <2>1, <2>2
<1> QED BY <1>4, <1>5, <1>6, <1>7 DEF ScopesInv

\* The lambda that returns has nothing left to do, and no scope is the current one.
LEMMA ScopesReturn ==
    ASSUME ScopesInv, ScopeReturns
    PROVE  ScopesInv'
<1>1. /\ calls # <<>> /\ Top.left = <<>>
      /\ currentScope' = IF enabled /\ ~Top.direct THEN NoScope ELSE currentScope
      /\ calls' = SubSeq(calls, 1, Len(calls) - 1)
      /\ UNCHANGED <<enabled, storage, scopeOf, update, used, lost>>
      /\ CallsSound /\ ScopeOfSound /\ CurrentSound
  BY DEF ScopeReturns, ScopesInv
<1>2. Len(calls) \in Nat \ {0} /\ Top = calls[Len(calls)]
  BY <1>1, TopCall DEF Top
<1>3. /\ calls' \in Seq(Call) /\ Len(calls') = Len(calls) - 1
      /\ \A i \in 1 .. Len(calls) - 1 : calls'[i] = calls[i]
  <2>1. /\ calls \in Seq(Call) /\ 1 \in 1 .. Len(calls) + 1 /\ Len(calls) - 1 \in 0 .. Len(calls)
        /\ (Len(calls) - 1) - 1 + 1 = Len(calls) - 1 /\ 1 <= (Len(calls) - 1) + 1
    BY <1>1, <1>2 DEF CallsSound
  <2>2. /\ SubSeq(calls, 1, Len(calls) - 1) \in Seq(Call)
        /\ Len(SubSeq(calls, 1, Len(calls) - 1)) = Len(calls) - 1
        /\ \A i \in 1 .. Len(calls) - 1 : SubSeq(calls, 1, Len(calls) - 1)[i] = calls[i]
    <3>1. Len(calls) \in Nat /\ Len(calls) >= 1
      BY <1>2
    <3> QED BY <2>1, <3>1, SubSeqProperties
  <2> QED BY <1>1, <2>2
<1>4. CallsSound'
  <2>1. \A i \in 1 .. Len(calls) - 1 : i \in 1 .. Len(calls)
    BY <1>2
  <2>2. \A i \in 1 .. Len(calls') : i \in 1 .. Len(calls) /\ calls'[i] = calls[i]
    BY <1>3, <2>1
  <2> QED BY <1>1, <1>3, <2>2 DEF CallsSound
<1>5. currentScope' = NoScope
  BY <1>1 DEF CurrentSound
<1>6. CurrentSound' /\ ScopeOfSound'
  BY <1>1, <1>5 DEF CurrentSound, ScopeOfSound
<1>7. ASSUME NEW s, NEW v, NEW i \in 1 .. Len(calls), calls[i].scope = s, v \in Range(calls[i].left)
      PROVE  Pending(calls', s, v)
  <2>1. i # Len(calls)
    BY <1>1, <1>2, <1>7 DEF Range
  <2>2. i \in 1 .. Len(calls) - 1
    BY <1>2, <2>1
  <2> QED BY <1>3, <1>7, <2>2 DEF Pending
<1>8. ASSUME NEW s, NEW v, Pending(calls, s, v) PROVE Pending(calls', s, v)
  <2>1. PICK i \in 1 .. Len(calls) : calls[i].scope = s /\ v \in Range(calls[i].left)
    BY <1>8 DEF Pending
  <2> QED BY <1>7, <2>1
<1>9. UsesKept'
  BY <1>1, <1>8 DEF ScopesInv, UsesKept
<1> QED BY <1>4, <1>6, <1>9 DEF ScopesInv

\* parseTweakables(): the scopes of the changed variables are to be run, or are
\* lost as the file fails.
LEMMA ScopesRead ==
    ASSUME ScopesInv, ValuesInv, NEW f \in Files, ReadFile(f)
    PROVE  ScopesInv'
<1>1. /\ calls = <<>> /\ update.phase = "Running"
      /\ storage' = [v \in Variables |-> IF v \in Parses(f) THEN Literal(v) ELSE storage[v]]
      /\ UNCHANGED <<enabled, scopeOf, currentScope, calls, used>>
      /\ CallsSound /\ ScopeOfSound /\ CurrentSound
  BY DEF ReadFile, Updating, ScopesInv
<1>2. Affected(f) \cup lost \subseteq lost' \cup update'.scopes
  <2>1. CASE FailsAt(f) = {}
    <3>1. update = [phase |-> update.phase, todo |-> update.todo,
                    reading |-> update.reading, scopes |-> update.scopes]
      BY DEF ValuesInv, Reading, Shaped
    <3>2. update' = [update EXCEPT !.reading = {}, !.scopes = Affected(f)] /\ lost' = lost
      BY <2>1 DEF ReadFile
    <3>3. update' = [phase |-> update.phase, todo |-> update.todo, reading |-> {}, scopes |-> Affected(f)]
      BY <3>1, <3>2
    <3> QED BY <3>2, <3>3
  <2>2. CASE FailsAt(f) # {}
    BY <2>2 DEF ReadFile
  <2> QED BY <2>1, <2>2
<1>3. CallsSound' /\ CurrentSound' /\ ScopeOfSound'
  BY <1>1 DEF CallsSound, CurrentSound, Top, ScopeOfSound
<1>4. UsesKept'
  <2> SUFFICES ASSUME NEW v \in Variables,
                      scopeOf[v] \notin Affected(f) \cup lost \cup {NoScope}
               PROVE  used[scopeOf[v]][v] = storage'[v]
    BY <1>1, <1>2 DEF UsesKept
  <2>1. scopeOf[v] \notin update.scopes
    BY DEF Affected
  <2>2. ~Pending(calls, scopeOf[v], v)
    BY <1>1 DEF Pending
  <2>3. used[scopeOf[v]][v] = storage[v]
    BY <1>1, <2>1, <2>2 DEF ScopesInv, UsesKept
  <2>4. v \in Parses(f) => storage[v] = Literal(v)
    BY DEF Affected
  <2> QED BY <1>1, <2>3, <2>4
<1> QED BY <1>3, <1>4 DEF ScopesInv

\* update() calls the lambda, not through scopeInternal().
LEMMA ScopesRunStep ==
    ASSUME ScopesInv, ValuesInv, NEW s \in Scopes, RunScope(s)
    PROVE  ScopesInv'
<1> USE TweakableAssumption
<1> DEFINE t == [scope |-> s, left |-> Body[s], direct |-> TRUE]
<1>0. t \in Call /\ t.scope = s /\ t.left = Body[s]
  BY DEF Call
<1> HIDE DEF t
<1>1. /\ calls = <<>> /\ update.phase = "Running" /\ lost' = lost \ {s}
      /\ calls' = <<t>>
      /\ UNCHANGED <<enabled, storage, scopeOf, currentScope, used>>
      /\ CallsSound /\ ScopeOfSound /\ CurrentSound
  BY DEF RunScope, Updating, ScopesInv, t
<1>2. update'.scopes = update.scopes \ {s}
  BY DEF RunScope, ValuesInv, Reading, Shaped
<1>3. calls' = Append(calls, t)
  BY <1>1
<1>4. /\ calls' \in Seq(Call) /\ calls' # <<>> /\ Len(calls') \in Nat
      /\ \A i \in 1 .. Len(calls') : Range(calls'[i].left) \subseteq Range(Body[calls'[i].scope])
      /\ \A r, v : Pending(calls, r, v) => Pending(calls', r, v)
      /\ \A v \in Range(Body[s]) : Pending(calls', s, v)
  <2>1. PICK c : c = calls'
    OBVIOUS
  <2>2. CalledIn(calls, t, c)
    <3>1. t \in Call /\ t.left = Body[t.scope] /\ calls \in Seq(Call) /\ c = Append(calls, t)
      BY <1>0, <1>1, <1>3, <2>1 DEF CallsSound
    <3>2. \A i \in 1 .. Len(calls) : Range(calls[i].left) \subseteq Range(Body[calls[i].scope])
      BY <1>1 DEF CallsSound
    <3> QED BY ONLY <3>1, <3>2, CalledAfter
  <2> QED BY <1>0, <2>1, <2>2 DEF CalledIn
<1>5. CallsSound'
  BY <1>4 DEF CallsSound
<1>6. CurrentSound' /\ ScopeOfSound'
  BY <1>1 DEF CurrentSound, ScopeOfSound
<1>7. UsesKept'
  <2> SUFFICES ASSUME NEW v \in Variables,
                      scopeOf[v] \notin (lost \ {s}) \cup (update.scopes \ {s}) \cup {NoScope}
               PROVE  used[scopeOf[v]][v] = storage[v] \/ Pending(calls', scopeOf[v], v)
    BY <1>1, <1>2 DEF UsesKept
  <2>1. CASE scopeOf[v] = s
    BY <1>1, <1>4, <2>1 DEF ScopeOfSound
  <2>2. CASE scopeOf[v] # s
    BY <1>1, <1>4, <2>2 DEF ScopesInv, UsesKept
  <2> QED BY <2>1, <2>2
<1> QED BY <1>5, <1>6, <1>7 DEF ScopesInv

\* Outside of all scopes there is no current scope.
LEMMA ScopesOutside ==
    ASSUME ScopesInv, ValuesInv, NEW x \in Variables, UseOutside(x)
    PROVE  ScopesInv'
<1>1. /\ calls = <<>> /\ Register(x)
      /\ UNCHANGED <<enabled, currentScope, calls, update, used, lost>>
      /\ CallsSound /\ ScopeOfSound /\ CurrentSound
  BY DEF UseOutside, Idle, ScopesInv
<1>2. currentScope = NoScope
  BY <1>1 DEF CurrentSound
<1>3. /\ scopeOf' \in [Variables -> Scopes \cup {NoScope}]
      /\ \A v \in Variables : scopeOf'[v] = NoScope \/ (scopeOf'[v] = scopeOf[v] /\ storage'[v] = storage[v])
  <2>1. storage \in [Variables -> Values \cup {NoValue}]
    BY DEF ValuesInv, ParsedKnown
  <2> QED BY <1>1, <1>2, <2>1 DEF Register, ScopeOfSound
<1>4. CallsSound' /\ CurrentSound'
  BY <1>1, <1>2 DEF CallsSound, CurrentSound
<1>5. ScopeOfSound'
  BY <1>1, <1>3 DEF ScopeOfSound
<1>6. UsesKept'
  BY <1>1, <1>3 DEF ScopesInv, UsesKept, Pending
<1> QED BY <1>4, <1>5, <1>6 DEF ScopesInv

LEMMA ScopesNext ==
    ASSUME ScopesInv, ValuesInv, ValuesInv', [Next]_vars
    PROVE  ScopesInv'
<1>0. Shaped(update)
  BY DEF ValuesInv, Reading
<1>1. CASE Edit /\ UNCHANGED tweakVars
  BY <1>1, ScopesAlone DEF tweakVars
<1>2. CASE Enable
  <2>1. /\ calls = <<>> /\ calls' = calls /\ enabled' /\ currentScope' = NoScope
        /\ scopeOf' = [v \in Variables |-> NoScope]
        /\ used' = [s \in Scopes |-> [v \in Variables |-> NoValue]]
    BY <1>2 DEF Enable, Idle
  <2>2. CallsSound' /\ CurrentSound'
    BY <2>1 DEF ScopesInv, CallsSound, CurrentSound
  <2>3. ScopeOfSound' /\ UsesKept'
    BY <2>1 DEF ScopeOfSound, UsesKept
  <2> QED BY <2>2, <2>3 DEF ScopesInv
<1>3. CASE BeginUpdate
  <2>1. update.phase = "None" /\ update.scopes = {} /\ update'.scopes = {}
    BY <1>3 DEF BeginUpdate, Idle, NoUpdate
  <2> QED BY <1>3, <2>1, ScopesAlone DEF BeginUpdate
<1>4. ASSUME NEW f \in Files, CheckFile(f) PROVE ScopesInv'
  <2>1. update.phase = "Running" /\ update'.scopes = update.scopes
    BY <1>0, <1>4 DEF CheckFile, Updating, Shaped
  <2> QED BY <1>4, <2>1, ScopesAlone DEF CheckFile
<1>5. ASSUME NEW f \in Files, AssertionFails(f) PROVE ScopesInv'
  <2>1. update'.phase = "Aborted"
    BY <1>5 DEF AssertionFails, NoUpdate
  <2> QED BY <1>5, <2>1, ScopesAlone DEF AssertionFails
<1>6. CASE EndUpdate
  <2>1. update.phase = "Running" /\ update'.scopes = update.scopes
    BY <1>6 DEF EndUpdate, Updating, NoUpdate
  <2> QED BY <1>6, <2>1, ScopesAlone DEF EndUpdate
<1>7. CASE UNCHANGED vars
  BY <1>7, ScopesAlone DEF vars, tweakVars
<1>8. ASSUME NEW s \in Scopes, CallScope(s) \/ CallNestedScope(s) PROVE ScopesInv'
  BY <1>8, ScopesEnter DEF CallScope, CallNestedScope, Idle
<1>9. ASSUME NEW v \in Outside, UseOutside(v) PROVE ScopesInv'
  BY <1>9, ScopesOutside, TweakableAssumption
<1> QED BY <1>1, <1>2, <1>3, <1>4, <1>5, <1>6, <1>7, <1>8, <1>9,
           ScopesUse, ScopesReturn, ScopesRead, ScopesRunStep DEF Next, Program

(***************************************************************************)
(* Between updates, a scope has run with the values its variables have,    *)
(* unless a failing update() lost it, or the variable got into no scope    *)
(* (Tweakable::update(), Implementation::scopeInternal()).                 *)
(***************************************************************************)
THEOREM ScopesAlwaysCurrent == Spec => []ScopesCurrent
<1>1. Init => ValuesInv /\ ScopesInv
  <2> SUFFICES ASSUME Init PROVE ValuesInv /\ ScopesInv
    OBVIOUS
  <2>1. ValuesInv
    BY ValuesInit
  <2>2. CallsSound /\ CurrentSound
    BY DEF Init, CallsSound, CurrentSound
  <2>3. ScopeOfSound /\ UsesKept
    BY DEF Init, ScopeOfSound, UsesKept
  <2> QED BY <2>1, <2>2, <2>3 DEF ScopesInv
<1>2. ValuesInv /\ ScopesInv /\ [Next]_vars => ValuesInv' /\ ScopesInv'
  BY ValuesNext, ScopesNext
<1>3. ScopesInv => ScopesCurrent
  BY DEF ScopesInv, UsesKept, Pending, ScopesCurrent, Idle, NoUpdate
<1> QED BY <1>1, <1>2, <1>3, PTL DEF Spec
=============================================================================
