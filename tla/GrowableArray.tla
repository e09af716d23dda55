---------------------------- MODULE GrowableArray ----------------------------
(***************************************************************************)
(* The growing operations on Containers::Array, for elements that are not  *)
(* trivially copyable and ArrayNewAllocator.  Memory is a row of cells,    *)
(* each of them raw or with an element constructed in it; an element moved *)
(* away is still constructed.  An operation that constructs over an        *)
(* element, uses a raw cell or frees memory with elements in it is a       *)
(* fault.  Elements are appended and inserted from outside and from the    *)
(* array itself.                                                           *)
(***************************************************************************)
EXTENDS Integers, Sequences, FiniteSets, SequencesExt

CONSTANTS
    Values,             \* what an element can hold
    Zero,               \* a value-initialized element
    Raw, Moved,         \* a cell without an element, an element moved away
    ElementSize,        \* sizeof(T)
    Offset,             \* AllocatorTraits<T>::Offset, in front of the elements
    Alignment,          \* DefaultAllocationAlignment
    MaxSize,            \* bound: elements
    MaxReserve,         \* bound: the capacity asked for
    MaxAdded            \* bound: elements added by one call

ASSUME GrowableArrayAssumption ==
    /\ Zero \in Values
    /\ Raw # Moved
    /\ {Raw, Moved} \cap Values = {}
    /\ {ElementSize, Offset, Alignment} \subseteq Nat \ {0}
    /\ {MaxSize, MaxReserve, MaxAdded} \subseteq Nat

VARIABLES
    array,              \* cells: its memory; size; growable: its deleter is the allocator's;
                        \* fault: some operation was one
    contents            \* history: the elements as the calls ask for

arrayVars == <<array, contents>>

Cell == Values \cup {Raw, Moved}

ArrayTypeOK ==
    /\ array.cells \in [0 .. Cardinality(DOMAIN array.cells) - 1 -> Cell]
    /\ array.size \in Nat
    /\ array.growable \in BOOLEAN
    /\ array.fault \in BOOLEAN
    /\ contents \in Seq(Values)

-----------------------------------------------------------------------------

Memory(n) == [p \in 0 .. n - 1 |-> Raw]

IsRaw(a, p) == p \in DOMAIN a.cells /\ a.cells[p] = Raw

IsElement(a, p) == p \in DOMAIN a.cells /\ a.cells[p] # Raw

Elements(a) == {p \in DOMAIN a.cells : a.cells[p] # Raw}

Construct(a, p, v) == [a EXCEPT !.cells[p] = v, !.fault = @ \/ ~IsRaw(a, p)]

Destruct(a, p) == [a EXCEPT !.cells[p] = Raw, !.fault = @ \/ ~IsElement(a, p)]

\* new(dst) T{move(src)} and dst = move(src)
MoveWithin(a, src, dst, wasFit) ==
    [a EXCEPT !.cells = IF {src, dst} \subseteq DOMAIN @ THEN [@ EXCEPT ![dst] = a.cells[src], ![src] = Moved] ELSE @,
              !.fault = @ \/ ~IsElement(a, src) \/ ~wasFit]

\* Places of n cells, one after another.
Upwards(first, n) == [k \in 1 .. n |-> first + k - 1]

Downwards(last, n) == [k \in 1 .. n |-> last - k + 1]

DestructEach(a, places) == FoldLeft(Destruct, a, places)

DestructRange(a, first, end) == DestructEach(a, Upwards(first, end - first))

\* Each element to the cell that many further, which is raw or has an element.
MoveConstructEach(a, places, by) ==
    LET Do(b, p) == MoveWithin(b, p, p + by, IsRaw(b, p + by)) IN FoldLeft(Do, a, places)

MoveAssignEach(a, places, by) ==
    LET Do(b, p) == MoveWithin(b, p, p + by, IsElement(b, p + by)) IN FoldLeft(Do, a, places)

\* arrayCopyConstruct() of values from outside, into cells from the given one on
CopyOutside(a, at, values) ==
    LET Do(b, k) == Construct(b, at + k - 1, values[k]) IN FoldLeft(Do, a, Upwards(1, Len(values)))

ConstructRange(a, first, end, v) ==
    IF first < end THEN CopyOutside(a, first, [k \in 1 .. end - first |-> v]) ELSE a

\* arrayMoveConstruct() into other memory
MoveConstruct(from, to, src, dst, count) ==
    [to EXCEPT !.cells = [p \in DOMAIN @ |-> IF p \in dst .. dst + count - 1
                                             THEN from.cells[src + p - dst] ELSE @[p]],
               !.fault = @ \/ \E k \in 0 .. count - 1 : ~IsElement(from, src + k) \/ ~IsRaw(to, dst + k)]

\* Other memory for the array, of the growing allocator or of Array itself.  The
\* old one goes with its size elements, which have to be all that it has.
Allocate(a, capacity, size, growable) ==
    [cells |-> Memory(capacity), size |-> size, growable |-> growable,
     fault |-> a.fault \/ Elements(a) # 0 .. a.size - 1]

\* arrayCapacity()
Capacity(a) == IF a.growable THEN Cardinality(DOMAIN a.cells) ELSE a.size

\* arrayGrowth()
Grow(current, desired) ==
    LET bytes == ElementSize * current + Offset
        grown == CASE bytes < Alignment -> Alignment
                   [] bytes >= Alignment /\ bytes < 64 -> bytes * 2
                   [] OTHER -> bytes + bytes \div 2
        candidate == (grown - Offset) \div ElementSize
    IN  IF desired > candidate THEN desired ELSE candidate

Reallocate(a, capacity) ==
    MoveConstruct(a, Allocate(a, capacity, a.size, TRUE), 0, 0, a.size)

\* arrayGrowBy(), the new cells still raw
GrowBy(a, count) ==
    IF count = 0 THEN a
    ELSE LET grown == CASE ~a.growable -> Reallocate(a, Grow(0, a.size + count))
                        [] a.growable /\ a.size + count > Capacity(a) ->
                              Reallocate(a, Grow(Capacity(a), a.size + count))
                        [] OTHER -> a
         IN  [grown EXCEPT !.size = @ + count]

\* Mutant: every element is constructed anew, also the ones that overlap.
ShiftForward_Mutant(a, src, dst, count) ==
    DestructEach(MoveConstructEach(a, Downwards(src + count - 1, count), dst - src), Upwards(src, count))

\* arrayShiftForward(), from the back
ShiftForward(a, src, dst, count) ==
    LET apart == IF src + count < dst THEN count ELSE dst - src
        constructed == MoveConstructEach(a, Downwards(src + count - 1, apart), dst - src)
        assigned == MoveAssignEach(constructed, Downwards(src + count - apart - 1, count - apart), dst - src)
    IN  DestructEach(assigned, Downwards(src + apart - 1, apart))

\* arrayGrowAtBy(), the new cells still raw
GrowAtBy(a, index, count) ==
    IF count = 0 THEN a
    ELSE LET apart == MoveConstruct(a, Allocate(a, Grow(0, a.size + count), a.size, TRUE), 0, 0, index)
             grown == IF a.size + count > Capacity(a) THEN Reallocate(a, Grow(Capacity(a), a.size + count)) ELSE a
             moved == IF a.growable THEN ShiftForward(grown, index, index + count, a.size - index)
                      ELSE MoveConstruct(a, apart, index, index + count, a.size - index)
         IN  [moved EXCEPT !.size = @ + count]

\* arrayShiftBackward(), from the front
ShiftBackward(a, src, dst, moveCount, destructCount) ==
    DestructEach(MoveAssignEach(a, Upwards(src, moveCount), dst - src),
                 Upwards(src + moveCount - destructCount, destructCount))

\* arrayCopyConstruct() of elements of the array
CopyOwn(a, at, offset, count) ==
    LET Do(b, k) ==
            IF offset + k \notin DOMAIN b.cells \/ b.cells[offset + k] = Raw THEN [b EXCEPT !.fault = TRUE]
            ELSE Construct(b, at + k, b.cells[offset + k])
    IN  FoldLeft(Do, a, Upwards(0, count))

\* Mutant: a slice right at the index is taken to stay where it is.
RelocateOffset_Mutant(offset, index, count) == IF index < offset THEN offset + count ELSE offset

\* Where a slice of the array is after count cells were made free at the index.
RelocateOffset(offset, index, count) == IF index <= offset THEN offset + count ELSE offset

-----------------------------------------------------------------------------

\* The sequences the calls ask for, at indices counted from 0.
InsertedAt(q, index, s) == SubSeq(q, 1, index) \o s \o SubSeq(q, index + 1, Len(q))

RemovedAt(q, index, count) == SubSeq(q, 1, index) \o SubSeq(q, index + count + 1, Len(q))

Slice(q, offset, count) == SubSeq(q, offset + 1, offset + count)

Zeros(n) == [p \in 1 .. n |-> Zero]

Smaller(m, n) == IF m < n THEN m ELSE n

Added == UNION {[1 .. n -> Values] : n \in 0 .. MaxAdded}

Room(count) == array.size + count <= MaxSize

Index == 0 .. array.size

-----------------------------------------------------------------------------

\* array = Array<T>{...}, with a deleter of Array; ~Array() of what it was.
AssignArray(values) ==
    /\ Len(values) <= MaxSize
    /\ array' = CopyOutside(Allocate(array, Len(values), Len(values), FALSE), 0, values)
    /\ contents' = values

\* arrayAppend() of values from elsewhere
ArrayAppend(values) ==
    /\ Room(Len(values))
    /\ array' = CopyOutside(GrowBy(array, Len(values)), array.size, values)
    /\ contents' = contents \o values

\* arrayAppend() of a slice of the array
ArrayAppendOwn(offset, count) ==
    /\ Room(count)
    /\ offset + count <= array.size
    /\ array' = IF offset >= Capacity(array) THEN GrowBy(array, count)
                ELSE CopyOwn(GrowBy(array, count), array.size, offset, count)
    /\ contents' = contents \o Slice(contents, offset, count)

\* arrayAppend(ValueInit)
ArrayAppendValueInit(count) ==
    /\ Room(count)
    /\ array' = ConstructRange(GrowBy(array, count), array.size, array.size + count, Zero)
    /\ contents' = contents \o Zeros(count)

\* arrayInsert() of values from elsewhere
ArrayInsert(index, values) ==
    /\ Room(Len(values))
    /\ array' = CopyOutside(GrowAtBy(array, index, Len(values)), index, values)
    /\ contents' = InsertedAt(contents, index, values)

\* arrayInsert() of a slice of the array; the index may not be inside it.
ArrayInsertOwn(index, offset, count) ==
    /\ Room(count)
    /\ offset + count <= array.size
    /\ index <= offset \/ offset + count <= index
    /\ array' = IF offset >= Capacity(array) THEN GrowAtBy(array, index, count)
                ELSE CopyOwn(GrowAtBy(array, index, count), index, RelocateOffset(offset, index, count), count)
    /\ contents' = InsertedAt(contents, index, Slice(contents, offset, count))

\* arrayInsert(ValueInit)
ArrayInsertValueInit(index, count) ==
    /\ Room(count)
    /\ array' = ConstructRange(GrowAtBy(array, index, count), index, index + count, Zero)
    /\ contents' = InsertedAt(contents, index, Zeros(count))

\* The parts before and after what is removed, in other memory.
MovedApart(index, count) ==
    LET before == MoveConstruct(array, Allocate(array, array.size - count, array.size - count, TRUE), 0, 0, index)
    IN  MoveConstruct(array, before, index + count, index, array.size - index - count)

\* arrayRemove()
ArrayRemove(index, count) ==
    /\ index + count <= array.size
    /\ array' = CASE count = 0 -> array
                  [] count > 0 /\ ~array.growable -> MovedApart(index, count)
                  [] OTHER -> [ShiftBackward(array, index + count, index, array.size - index - count, count)
                               EXCEPT !.size = @ - count]
    /\ contents' = RemovedAt(contents, index, count)

\* arrayRemoveUnordered(): the last elements take the places, where there are
\* any; not so in an array that is not growable.
ArrayRemoveUnordered(index, count) ==
    LET moveCount == Smaller(count, array.size - count - index) IN
    /\ index + count <= array.size
    /\ array' = CASE count = 0 -> array
                  [] count > 0 /\ ~array.growable -> MovedApart(index, count)
                  [] OTHER -> [ShiftBackward(array, array.size - moveCount, index, moveCount, count)
                               EXCEPT !.size = @ - count]
    /\ contents' = IF array.growable
                   THEN SubSeq(contents, 1, index) \o Slice(contents, array.size - moveCount, moveCount)
                            \o SubSeq(contents, index + count + 1, array.size - moveCount)
                   ELSE RemovedAt(contents, index, count)

\* arrayRemoveSuffix()
ArrayRemoveSuffix(count) ==
    /\ count <= array.size
    /\ array' = CASE count = 0 -> array
                  [] count > 0 /\ ~array.growable -> MovedApart(array.size - count, count)
                  [] OTHER -> [DestructRange(array, array.size - count, array.size) EXCEPT !.size = @ - count]
    /\ contents' = SubSeq(contents, 1, array.size - count)

\* arrayClear()
ArrayClear ==
    /\ array' = IF array.growable THEN [DestructRange(array, 0, array.size) EXCEPT !.size = 0]
                ELSE Allocate(array, 0, 0, FALSE)
    /\ contents' = <<>>

\* arrayReserve()
ArrayReserve(capacity) ==
    /\ array' = IF Capacity(array) >= capacity THEN array ELSE Reallocate(array, capacity)
    /\ UNCHANGED contents

\* arrayResize(NoInit)
Resized(size) ==
    CASE array.size = size -> array
      [] array.size # size /\ ~array.growable ->
            MoveConstruct(array, Allocate(array, size, size, TRUE), 0, 0, Smaller(array.size, size))
      [] array.size # size /\ array.growable /\ Capacity(array) < size ->
            [Reallocate(array, size) EXCEPT !.size = size]
      [] OTHER -> [DestructRange(array, size, array.size) EXCEPT !.size = size]

\* arrayResize(ValueInit)
ArrayResize(size) ==
    /\ array' = ConstructRange(Resized(size), array.size, size, Zero)
    /\ contents' = SubSeq(contents, 1, Smaller(size, array.size)) \o Zeros(size - array.size)

\* arrayShrink(NoInit)
ArrayShrinkNoInit ==
    /\ array' = IF ~array.growable THEN array
                ELSE MoveConstruct(array, Allocate(array, array.size, array.size, FALSE), 0, 0, array.size)
    /\ UNCHANGED contents

\* arrayShrink(ValueInit): the new elements are there before they are assigned.
ArrayShrinkValueInit ==
    LET fresh == ConstructRange(Allocate(array, array.size, array.size, FALSE), 0, array.size, Zero) IN
    /\ array' = IF ~array.growable THEN array
                ELSE [fresh EXCEPT !.cells = [p \in DOMAIN @ |-> array.cells[p]]]
    /\ UNCHANGED contents

-----------------------------------------------------------------------------

ArrayInit ==
    /\ array = [cells |-> Memory(0), size |-> 0, growable |-> FALSE, fault |-> FALSE]
    /\ contents = <<>>

ArrayNext ==
    \/ \E values \in Added : AssignArray(values) \/ ArrayAppend(values)
    \/ \E values \in Added, index \in Index : ArrayInsert(index, values)
    \/ \E offset \in Index, count \in 0 .. MaxAdded : ArrayAppendOwn(offset, count)
    \/ \E index, offset \in Index, count \in 0 .. MaxAdded : ArrayInsertOwn(index, offset, count)
    \/ \E count \in 0 .. MaxAdded : ArrayAppendValueInit(count)
    \/ \E index \in Index, count \in 0 .. MaxAdded : ArrayInsertValueInit(index, count)
    \/ \E index, count \in Index : ArrayRemove(index, count) \/ ArrayRemoveUnordered(index, count)
    \/ \E count \in Index : ArrayRemoveSuffix(count)
    \/ ArrayClear
    \/ \E capacity \in 0 .. MaxReserve : ArrayReserve(capacity)
    \/ \E size \in 0 .. MaxSize : ArrayResize(size)
    \/ ArrayShrinkNoInit
    \/ ArrayShrinkValueInit

ArraySpec == ArrayInit /\ [][ArrayNext]_arrayVars

-----------------------------------------------------------------------------

(***************************************************************************)
(* No operation, whatever was done before it, constructs over an element,  *)
(* assigns to or moves from a raw cell, destructs twice, or frees memory   *)
(* with elements in it: the cells with an element are exactly the first    *)
(* size ones, which is what every deleter relies on (arrayShiftForward(),  *)
(* arrayShiftBackward(), arrayGrowBy(), arrayGrowAtBy() and their users).  *)
(***************************************************************************)
LifetimesExact ==
    /\ ~array.fault
    /\ Elements(array) = 0 .. array.size - 1
    /\ ~array.growable => DOMAIN array.cells = 0 .. array.size - 1

(***************************************************************************)
(* The array holds the elements that its operations ask for, in order,     *)
(* also when they come from the array itself, which may move while they    *)
(* are copied (arrayAppend(), arrayInsert(), arrayRemove(),                *)
(* arrayRemoveUnordered(), arrayResize(), arrayShrink()).                  *)
(***************************************************************************)
ContentsExact ==
    /\ array.size = Len(contents)
    /\ \A p \in 0 .. array.size - 1 : array.cells[p] = contents[p + 1]
=============================================================================
