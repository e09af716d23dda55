-------------------------- MODULE ContainersProofs --------------------------
(***************************************************************************)
(* Proofs about LinkedList and GrowableArray.                              *)
(*                                                                         *)
(* The links of the items and the ends of the lists always agree, for any  *)
(* lists and items.  What insert() and cut() do to the links is proved     *)
(* once, about any links that agree; an operation that uses both is then   *)
(* two steps.  The same for the order of the items.  Both hold whatever    *)
(* the destructors of items call while clear() erases them; that clear()   *)
(* goes well until one of them changes what comes next is ClearsInv.       *)
(*                                                                         *)
(* The elements of an array live exactly as long as they should and are    *)
(* the ones that the calls ask for, for any values, any sizes and any      *)
(* growth.  The loops of the model are folds over places; FoldFacts says   *)
(* what an invariant of their steps gives for all of them, once for each   *)
(* kind of step.  The invariant of the specification is                    *)
(* Sound(array, contents); inside an operation the array is Opened, with   *)
(* a gap of raw cells that the next part of the operation fills.           *)
(***************************************************************************)
EXTENDS Containers, SequenceTheorems, FiniteSetTheorems, TLAPS

-----------------------------------------------------------------------------
\* LinkedList.

\* The links as they are before insert(): the item in no list, the place in it.
CanInsert(k, its, l, i, before) ==
    /\ k \in Links /\ Linked(k, its)
    /\ l \in Lists /\ i \in its /\ i \in Items
    /\ k.list[i] = None
    /\ before = None \/ (before \in Items /\ k.list[before] = l)

\* insert() keeps the links of every item and the ends of every list in agreement.
LEMMA InsertedLinks ==
    ASSUME NEW k, NEW its, NEW l, NEW i, NEW before, CanInsert(k, its, l, i, before)
    PROVE  /\ Inserted(k, l, i, before) \in Links
           /\ Linked(Inserted(k, l, i, before), its)
           /\ Inserted(k, l, i, before).list = [k.list EXCEPT ![i] = l]
<1> DEFINE n == Inserted(k, l, i, before)
<1> USE LinkedListAssumption
<1>1. CASE before = None /\ k.first[l] = None
  <2>1. n = [list |-> [k.list EXCEPT ![i] = l], previous |-> k.previous, next |-> k.next,
             first |-> [k.first EXCEPT ![l] = i], last |-> [k.last EXCEPT ![l] = i]]
    BY <1>1 DEF Inserted, CanInsert, Links
  <2>2. n \in Links
    BY <2>1 DEF CanInsert, Links, ItemOrNone
  <2> HIDE DEF n
  <2>3. Linked(n, its)
    BY <1>1, <2>1 DEF CanInsert, Linked, ItemLinked, EndsLinked, Links, ItemOrNone
  <2> QED BY <2>1, <2>2, <2>3 DEF n
<1>2. CASE before = None /\ k.first[l] # None
  <2>0. k.last[l] \in Items /\ k.list[k.last[l]] = l /\ k.next[k.last[l]] = None
    BY <1>2 DEF CanInsert, Linked, EndsLinked, ItemLinked, Links, ItemOrNone
  <2>1. n = [list |-> [k.list EXCEPT ![i] = l], previous |-> [k.previous EXCEPT ![i] = k.last[l]],
             next |-> [k.next EXCEPT ![k.last[l]] = i],
             first |-> k.first, last |-> [k.last EXCEPT ![l] = i]]
    BY <1>2 DEF Inserted, CanInsert, Links
  <2>2. n \in Links
    BY <2>0, <2>1 DEF CanInsert, Links, ItemOrNone
  <2> HIDE DEF n
  <2>3. Linked(n, its)
    BY <1>2, <2>0, <2>1 DEF CanInsert, Linked, ItemLinked, EndsLinked, Links, ItemOrNone
  <2> QED BY <2>1, <2>2, <2>3 DEF n
<1>3. CASE before # None /\ k.previous[before] = None
  <2>0. before \in Items /\ k.first[l] = before
    BY <1>3 DEF CanInsert, Linked, EndsLinked, ItemLinked, Links, ItemOrNone
  <2>1. n = [list |-> [k.list EXCEPT ![i] = l], previous |-> [k.previous EXCEPT ![before] = i],
             next |-> [k.next EXCEPT ![i] = before],
             first |-> [k.first EXCEPT ![l] = i], last |-> k.last]
    BY <1>3, <2>0 DEF Inserted, CanInsert, Links
  <2>2. n \in Links
    BY <2>0, <2>1 DEF CanInsert, Links, ItemOrNone
  <2> HIDE DEF n
  <2>3. Linked(n, its)
    BY <1>3, <2>0, <2>1 DEF CanInsert, Linked, ItemLinked, EndsLinked, Links, ItemOrNone
  <2> QED BY <2>1, <2>2, <2>3 DEF n
<1>4. CASE before # None /\ k.previous[before] # None
  <2> DEFINE p == k.previous[before]
  <2>0. before \in Items /\ p \in Items /\ k.next[p] = before /\ k.list[p] = l
    BY <1>4 DEF CanInsert, Linked, EndsLinked, ItemLinked, Links, ItemOrNone
  <2>1. n = [list |-> [k.list EXCEPT ![i] = l], previous |-> [k.previous EXCEPT ![i] = p, ![before] = i],
             next |-> [k.next EXCEPT ![i] = before, ![p] = i],
             first |-> k.first, last |-> k.last]
    BY <1>4, <2>0 DEF Inserted, CanInsert, Links
  <2>2. n \in Links
    BY <2>0, <2>1 DEF CanInsert, Links, ItemOrNone
  <2> HIDE DEF n
  <2>3. Linked(n, its)
    BY <1>4, <2>0, <2>1 DEF CanInsert, Linked, ItemLinked, EndsLinked, Links, ItemOrNone
  <2> QED BY <2>1, <2>2, <2>3 DEF n
<1> QED BY <1>1, <1>2, <1>3, <1>4


\* cut() keeps the links of every other item and the ends of every list in
\* agreement, and leaves the item with no links.
LEMMA CutLinks ==
    ASSUME NEW k, NEW its, NEW i \in Items,
           k \in Links, Linked(k, its), k.list[i] # None
    PROVE  /\ CutOut(k, i) \in Links
           /\ Linked(CutOut(k, i), its)
           /\ CutOut(k, i).list = [k.list EXCEPT ![i] = None]
<1> DEFINE n == CutOut(k, i)
           l == k.list[i]
           p == k.previous[i]
           x == k.next[i]
<1> USE LinkedListAssumption
<1>0. l \in Lists /\ p \in ItemOrNone /\ x \in ItemOrNone
  BY DEF Links
<1>p. p # None => p \in Items /\ k.next[p] = i /\ k.list[p] = l
  BY <1>0 DEF Linked, ItemLinked, ItemOrNone
<1>x. x # None => x \in Items /\ k.previous[x] = i /\ k.list[x] = l
  BY <1>0 DEF Linked, ItemLinked, ItemOrNone
<1>e. (p = None <=> k.first[l] = i) /\ (x = None <=> k.last[l] = i)
  BY <1>0 DEF Linked, ItemLinked
<1>n. /\ n \in Links
      /\ n.list = [k.list EXCEPT ![i] = None]
      /\ \A j \in Items : n.previous[j] = IF j = i THEN None ELSE IF j = x THEN p ELSE k.previous[j]
      /\ \A j \in Items : n.next[j] = IF j = i THEN None ELSE IF j = p THEN x ELSE k.next[j]
      /\ \A m \in Lists : n.first[m] = IF m = l /\ p = None THEN x ELSE k.first[m]
      /\ \A m \in Lists : n.last[m] = IF m = l /\ x = None THEN p ELSE k.last[m]
  <2>1. CASE i = k.first[l]
    BY <2>1, <1>0, <1>p, <1>x, <1>e DEF CutOut, Unlinked, Links, ItemOrNone
  <2>2. CASE i # k.first[l] /\ i = k.last[l]
    BY <2>2, <1>0, <1>p, <1>x, <1>e DEF CutOut, Unlinked, Links, ItemOrNone
  <2>3. CASE i # k.first[l] /\ i # k.last[l]
    BY <2>3, <1>0, <1>p, <1>x, <1>e DEF CutOut, Unlinked, Links, ItemOrNone
  <2> QED BY <2>1, <2>2, <2>3
<1> HIDE DEF n
<1>2. ASSUME NEW j \in Items PROVE ItemLinked(n, its, j)
  BY <1>n, <1>0, <1>p, <1>x, <1>e DEF Linked, ItemLinked, EndsLinked, Links, ItemOrNone
<1>3. ASSUME NEW m \in Lists PROVE EndsLinked(n, m)
  BY <1>n, <1>0, <1>p, <1>x, <1>e DEF Linked, ItemLinked, EndsLinked, Links, ItemOrNone
<1> QED BY <1>n, <1>2, <1>3 DEF n, Linked

\* Taking over another list's items keeps the agreement.
LEMMA AdoptedLinks ==
    ASSUME NEW k, NEW its, NEW l \in Lists, NEW other \in Lists,
           k \in Links, Linked(k, its), l # other, k.first[l] = None
    PROVE  Adopted(k, l, other) \in Links /\ Linked(Adopted(k, l, other), its)
<1> DEFINE n == Adopted(k, l, other)
<1> USE LinkedListAssumption
<1>n. /\ n \in Links
      /\ n.previous = k.previous /\ n.next = k.next
      /\ \A j \in Items : n.list[j] = IF k.list[j] = other THEN l ELSE k.list[j]
      /\ n.first = [k.first EXCEPT ![l] = k.first[other], ![other] = None]
      /\ n.last = [k.last EXCEPT ![l] = k.last[other], ![other] = None]
  BY DEF Adopted, Links, ItemOrNone
<1> HIDE DEF n
<1>2. ASSUME NEW j \in Items PROVE ItemLinked(n, its, j)
  BY <1>n DEF Linked, ItemLinked, EndsLinked, Links, ItemOrNone
<1>3. ASSUME NEW m \in Lists PROVE EndsLinked(n, m)
  BY <1>n DEF Linked, ItemLinked, EndsLinked, Links, ItemOrNone
<1> QED BY <1>n, <1>2, <1>3 DEF n, Linked

\* Items in no list may come and go.
LEMMA OtherItems ==
    ASSUME NEW k, NEW its, NEW others, Linked(k, its),
           \A j \in Items : k.list[j] # None => j \in others
    PROVE  Linked(k, others)
BY DEF Linked, ItemLinked

\* An item in no list may be destroyed.
LEMMA DestroyedLinks ==
    ASSUME NEW k, NEW its, NEW i \in Items, Linked(k, its), k.list[i] = None
    PROVE  Linked(k, its \ {i})
<1>1. \A j \in Items : k.list[j] # None => j \in its \ {i}
  BY DEF Linked, ItemLinked
<1> QED BY <1>1, OtherItems

\* An item is in no list once it was cut out of the one it may have been in.
LEMMA CutIfLinked ==
    ASSUME NEW k, NEW its, NEW i \in Items, NEW n, k \in Links, Linked(k, its),
           n = IF k.list[i] = None THEN k ELSE CutOut(k, i)
    PROVE  n \in Links /\ Linked(n, its) /\ n.list[i] = None
<1>1. CASE k.list[i] = None
  BY <1>1
<1>2. CASE k.list[i] # None
  <2>1. n \in Links /\ Linked(n, its) /\ n.list = [k.list EXCEPT ![i] = None]
    BY <1>2, CutLinks
  <2> QED BY <2>1 DEF Links
<1> QED BY <1>1, <1>2

\* Taking the place of another item is insert() and cut().
LEMMA ReplacedLinks ==
    ASSUME NEW k, NEW its, NEW i \in Items, NEW other \in Items,
           k \in Links, Linked(k, its), i \in its, k.list[i] = None
    PROVE  Replaced(k, i, other) \in Links /\ Linked(Replaced(k, i, other), its)
<1> USE LinkedListAssumption
<1>1. CASE k.list[other] = None
  BY <1>1 DEF Replaced
<1>2. CASE k.list[other] # None
  <2> DEFINE n == Inserted(k, k.list[other], i, k.next[other])
  <2>1. CanInsert(k, its, k.list[other], i, k.next[other])
    BY <1>2 DEF CanInsert, Links, Linked, ItemLinked, ItemOrNone
  <2>2. n \in Links /\ Linked(n, its) /\ n.list = [k.list EXCEPT ![i] = k.list[other]]
    BY <2>1, InsertedLinks
  <2>3. n.list[other] # None
    BY <2>2, <1>2 DEF Links
  <2> HIDE DEF n
  <2>4. CutOut(n, other) \in Links /\ Linked(CutOut(n, other), its)
    BY <2>2, <2>3, CutLinks
  <2> QED BY <2>4, <1>2 DEF Replaced, n
<1> QED BY <1>1, <1>2

-----------------------------------------------------------------------------

\* LinksAgree is inductive with the types that it needs; the history has no part in it.
ListInv ==
    /\ links \in Links
    /\ items \subseteq Items
    /\ clears \in Seq(Frames)
    /\ LinksAgree

LEMMA ListInvInit == ListInit => ListInv
BY LinkedListAssumption
   DEF ListInit, ListInv, Links, LinksAgree, Linked, ItemLinked, EndsLinked, ItemOrNone

\* The innermost frame.
LEMMA TopFrame ==
    ASSUME clears \in Seq(Frames), clears # <<>>
    PROVE  Top \in Frames /\ Len(clears) \in 1 .. Len(clears) /\ Len(clears) \in Nat \ {0}
<1>1. Len(clears) \in Nat /\ Len(clears) # 0
  BY EmptySeq, LenProperties
<1>2. Len(clears) \in 1 .. Len(clears)
  BY <1>1
<1> QED BY <1>1, <1>2, ElementOfSeq DEF Top

\* The innermost frame changed.
LEMMA OtherTop ==
    ASSUME clears \in Seq(Frames), clears # <<>>, NEW f \in Frames,
           NEW fs, fs = [clears EXCEPT ![Len(clears)] = f]
    PROVE  /\ fs \in Seq(Frames)
           /\ Len(fs) = Len(clears)
           /\ fs[Len(clears)] = f
           /\ \A k \in 1 .. Len(clears) : k # Len(clears) => fs[k] = clears[k]
<1>1. Len(clears) \in 1 .. Len(clears)
  BY TopFrame
<1> QED BY <1>1, ExceptSeq, LenProperties

\* A list that is empty and assigned to itself stays as it is.
LEMMA AdoptedSelf ==
    ASSUME NEW k \in Links, NEW its, NEW l \in Lists, Linked(k, its), k.first[l] = None
    PROVE  Adopted(k, l, l) = k
<1>1. k.last[l] = None
  BY DEF Linked, EndsLinked
<1>2. /\ [k.first EXCEPT ![l] = k.first[l], ![l] = None] = k.first
      /\ [k.last EXCEPT ![l] = k.last[l], ![l] = None] = k.last
      /\ [i \in Items |-> IF k.list[i] = l THEN l ELSE k.list[i]] = k.list
  BY <1>1 DEF Links
<1> QED BY <1>2 DEF Adopted, Links

\* Every operation on lists and items, and every step of clear(), keeps it.
LEMMA ListInvNext == ListInv /\ [ListNext]_listVars => ListInv'
<1> SUFFICES ASSUME ListInv, [ListNext]_listVars PROVE ListInv'
  OBVIOUS
<1> USE LinkedListAssumption
<1>0. links \in Links /\ items \subseteq Items /\ Linked(links, items) /\ clears \in Seq(Frames)
  BY DEF ListInv, LinksAgree
<1>f. ASSUME clears' \in Seq(Frames), items' \subseteq Items, links' \in Links, Linked(links', items')
      PROVE  ListInv'
  BY <1>f DEF ListInv, LinksAgree
<1>c. ASSUME clears' = clears, items' \subseteq Items, links' \in Links, Linked(links', items') PROVE ListInv'
  BY <1>c, <1>f, <1>0
<1>1. ASSUME NEW i \in Items, ConstructItem(i) PROVE ListInv'
  <2>1. Linked(links, items')
    BY <1>0, <1>1, OtherItems DEF ConstructItem, Linked, ItemLinked
  <2> QED BY <2>1, <1>0, <1>1, <1>c DEF ConstructItem, CallsOn
<1>2. ASSUME NEW l \in Lists, NEW i \in Items, NEW before \in ItemOrNone, InsertItem(l, i, before)
      PROVE  ListInv'
  <2>1. CanInsert(links, items, l, i, before)
    BY <1>0, <1>2 DEF InsertItem, CanInsert, ItemOrNone
  <2> QED BY <2>1, <1>0, <1>2, <1>c, InsertedLinks DEF InsertItem, CallsOn
<1>3. ASSUME NEW i \in Items, Cut(i) PROVE ListInv'
  BY <1>0, <1>3, <1>c, CutLinks DEF Cut, CallsOn
<1>4. ASSUME NEW i \in Items, NEW before \in ItemOrNone, Move(i, before) PROVE ListInv'
  <2> DEFINE k == CutOut(links, i)
  <2>1. k \in Links /\ Linked(k, items) /\ k.list = [links.list EXCEPT ![i] = None]
    BY <1>0, <1>4, CutLinks DEF Move
  <2> HIDE DEF k
  <2>2. CanInsert(k, items, links.list[i], i, before)
    BY <2>1, <1>0, <1>4 DEF Move, CanInsert, ItemOrNone, Links
  <2> QED BY <2>1, <2>2, <1>0, <1>4, <1>c, InsertedLinks DEF Move, CallsOn, k
<1>5. ASSUME NEW i \in Items, DestroyItem(i) PROVE ListInv'
  <2>1. links' \in Links /\ Linked(links', items) /\ links'.list[i] = None
    BY <1>0, <1>5, CutIfLinked DEF DestroyItem
  <2>2. Linked(links', items \ {i})
    BY <2>1, DestroyedLinks
  <2> QED BY <2>1, <2>2, <1>0, <1>5, <1>c DEF DestroyItem, CallsOn
<1>6. ASSUME NEW i \in Items, NEW other \in Items, MoveConstructItem(i, other) PROVE ListInv'
  <2>1. Linked(links, items') /\ links.list[i] = None
    BY <1>0, <1>6, OtherItems DEF MoveConstructItem, Linked, ItemLinked
  <2> QED BY <2>1, <1>0, <1>6, <1>c, ReplacedLinks DEF MoveConstructItem, CallsOn
<1>7. ASSUME NEW i \in Items, NEW other \in Items, MoveAssignItem(i, other) PROVE ListInv'
  <2> DEFINE k == IF links.list[i] = None THEN links ELSE CutOut(links, i)
  <2>1. k \in Links /\ Linked(k, items) /\ k.list[i] = None
    BY <1>0, CutIfLinked
  <2> HIDE DEF k
  <2>2. Replaced(k, i, other) \in Links /\ Linked(Replaced(k, i, other), items)
    BY <2>1, <1>7, ReplacedLinks DEF MoveAssignItem
  <2> QED BY <2>2, <1>0, <1>7, <1>c DEF MoveAssignItem, CallsOn, k
<1>8. ASSUME NEW l \in Lists, NEW other \in Lists, MoveConstructList(l, other) PROVE ListInv'
  BY <1>0, <1>8, <1>c, AdoptedLinks DEF MoveConstructList, CallsOn
<1>9. ASSUME NEW l \in Lists, NEW then \in Lists \cup {None}, Clear(l, then) PROVE ListInv'
  <2>1. [list |-> l, erased |-> None, next |-> links.first[l], then |-> then] \in Frames
    BY <1>0 DEF Frames, ItemOrNone, Links
  <2>2. clears' \in Seq(Frames)
    BY <2>1, <1>0, <1>9, AppendProperties DEF Clear
  <2> QED BY <2>2, <1>0, <1>9, <1>f DEF Clear
<1>10. CASE EraseNext
  <2> DEFINE i == Top.next
             f == [Top EXCEPT !.erased = i, !.next = links.next[i]]
  <2>1. clears # <<>> /\ Top \in Frames /\ i \in Items
    BY <1>0, <1>10, TopFrame DEF EraseNext, Looping, Frames, ItemOrNone
  <2>2. f \in Frames
    BY <2>1, <1>0 DEF Frames, Links, ItemOrNone
  <2>3. clears' \in Seq(Frames)
    BY <2>1, <2>2, <1>0, <1>10, OtherTop DEF EraseNext, Top
  <2> QED BY <2>3, <1>0, <1>10, <1>f DEF EraseNext
<1>11. CASE EraseReturns
  <2> DEFINE i == Top.erased
             f == [Top EXCEPT !.erased = None]
  <2>1. clears # <<>> /\ Top \in Frames /\ i \in Items
    BY <1>0, <1>11, TopFrame DEF EraseReturns, Calls, Frames, ItemOrNone
  <2>2. f \in Frames
    BY <2>1 DEF Frames, ItemOrNone
  <2>3. clears' \in Seq(Frames)
    BY <2>1, <2>2, <1>0, <1>11, OtherTop DEF EraseReturns, Top
  <2>4. links' \in Links /\ Linked(links', items) /\ links'.list[i] = None
    BY <2>1, <1>0, <1>11, CutIfLinked DEF EraseReturns
  <2>5. Linked(links', items \ {i})
    BY <2>1, <2>4, DestroyedLinks
  <2> QED BY <2>3, <2>4, <2>5, <1>0, <1>11, <1>f DEF EraseReturns
<1>12. CASE ClearReturns
  <2> DEFINE l == Top.list
             then == Top.then
             lost == then # None /\ links.first[l] # None
  <2>1. clears # <<>> /\ l \in Lists /\ then \in Lists \cup {None}
    BY <1>0, <1>12, TopFrame DEF ClearReturns, Looping, Frames
  <2>2. CASE lost
    BY <2>2, <1>0, <1>12, <1>f DEF ClearReturns
  <2>3. CASE ~lost
    <3>1. clears' \in Seq(Frames)
      <4>1. clears' = SubSeq(clears, 1, Len(clears) - 1)
        BY <2>3, <1>12 DEF ClearReturns
      <4>2. Len(clears) \in Nat \ {0}
        BY <2>1, <1>0, TopFrame
      <4> QED BY <4>1, <4>2, <1>0, SubSeqProperties
    <3>2. CASE then = None
      BY <2>3, <3>1, <3>2, <1>0, <1>12, <1>f DEF ClearReturns
    <3>3. CASE then # None /\ then = l
      BY <2>1, <2>3, <3>1, <3>3, <1>0, <1>12, <1>f, AdoptedSelf DEF ClearReturns
    <3>4. CASE then # None /\ then # l
      <4>1. then \in Lists /\ links.first[l] = None
        BY <2>1, <2>3, <3>4
      <4>2. Adopted(links, l, then) \in Links /\ Linked(Adopted(links, l, then), items)
        BY <4>1, <2>1, <3>4, <1>0, AdoptedLinks
      <4> QED BY <4>2, <2>3, <3>1, <3>4, <1>0, <1>12, <1>f DEF ClearReturns
    <3> QED BY <3>2, <3>3, <3>4
  <2> QED BY <2>2, <2>3
<1>13. CASE UNCHANGED listVars
  BY <1>13 DEF ListInv, LinksAgree, listVars
<1> QED BY <1>1, <1>2, <1>3, <1>4, <1>5, <1>6, <1>7, <1>8, <1>9, <1>10, <1>11, <1>12, <1>13 DEF ListNext

(***************************************************************************)
(* The links of neighbours and the ends of their list agree at all times,  *)
(* also for a destructor of an item that clear() erases and for what it    *)
(* calls (LinkedList::insert(), cut(), move(), clear() and the moves of    *)
(* items and lists).                                                       *)
(***************************************************************************)
THEOREM LinksAlwaysAgree == ListSpec => []LinksAgree
<1>1. ListInv => LinksAgree
  BY DEF ListInv
<1> QED BY ListInvInit, ListInvNext, <1>1, PTL DEF ListSpec

-----------------------------------------------------------------------------
(***************************************************************************)
(* The links pass the items of a list in the order of the calls.  No item  *)
(* is twice in an order, which follows from no link but is kept with them. *)
(***************************************************************************)
Distinct(q) == \A p, r \in DOMAIN q : q[p] = q[r] => p = r

ExactIn(k, q, l) ==
    /\ k.first[l] = IF q = <<>> THEN None ELSE q[1]
    /\ k.last[l] = IF q = <<>> THEN None ELSE q[Len(q)]
    /\ {i \in Items : k.list[i] = l} = {q[p] : p \in DOMAIN q}
    /\ \A p \in DOMAIN q :
        /\ k.next[q[p]] = IF p = Len(q) THEN None ELSE q[p + 1]
        /\ k.previous[q[p]] = IF p = 1 THEN None ELSE q[p - 1]

Exact(k, o) ==
    /\ o \in [Lists -> Seq(Items)]
    /\ \A l \in Lists : Distinct(o[l]) /\ ExactIn(k, o[l], l)

\* An element more at a position, an element less.
OneMore(q, i, at, r) ==
    /\ Len(r) = Len(q) + 1
    /\ \A p \in 1 .. Len(q) + 1 : r[p] = IF p < at THEN q[p] ELSE IF p = at THEN i ELSE q[p - 1]

OneLess(q, at, r) ==
    /\ Len(r) = Len(q) - 1
    /\ \A p \in 1 .. Len(q) - 1 : r[p] = IF p < at THEN q[p] ELSE q[p + 1]

\* What insert() makes of the links, the item between two others or at an end.
PutIn(k, n, l, i, pr, before) ==
    /\ n.list = [k.list EXCEPT ![i] = l]
    /\ \A j \in Items : n.previous[j] = IF j = i THEN pr ELSE IF j = before THEN i ELSE k.previous[j]
    /\ \A j \in Items : n.next[j] = IF j = i THEN before ELSE IF j = pr THEN i ELSE k.next[j]
    /\ \A m \in Lists : n.first[m] = IF m = l /\ pr = None THEN i ELSE k.first[m]
    /\ \A m \in Lists : n.last[m] = IF m = l /\ before = None THEN i ELSE k.last[m]

\* What cut() makes of them.
TakenOut(k, n, i) ==
    /\ n.list = [k.list EXCEPT ![i] = None]
    /\ \A j \in Items : n.previous[j] =
         IF j = i THEN None ELSE IF j = k.next[i] THEN k.previous[i] ELSE k.previous[j]
    /\ \A j \in Items : n.next[j] =
         IF j = i THEN None ELSE IF j = k.previous[i] THEN k.next[i] ELSE k.next[j]
    /\ \A m \in Lists : n.first[m] =
         IF m = k.list[i] /\ k.previous[i] = None THEN k.next[i] ELSE k.first[m]
    /\ \A m \in Lists : n.last[m] =
         IF m = k.list[i] /\ k.next[i] = None THEN k.previous[i] ELSE k.last[m]

\* insert(), field by field: the item after its predecessor and before the item
\* at its place.
LEMMA InsertedPoints ==
    ASSUME NEW k, NEW its, NEW l, NEW i, NEW before, CanInsert(k, its, l, i, before),
           NEW n, n = Inserted(k, l, i, before),
           NEW pr, pr = IF before = None THEN k.last[l] ELSE k.previous[before]
    PROVE  PutIn(k, n, l, i, pr, before)
<1> USE LinkedListAssumption
<1>1. k.previous[i] = None /\ k.next[i] = None
  BY DEF CanInsert, Linked, ItemLinked
<1>2. CASE before = None /\ k.first[l] = None
  <2>1. pr = None
    BY <1>2 DEF CanInsert, Linked, EndsLinked
  <2>2. n = [list |-> [k.list EXCEPT ![i] = l], previous |-> k.previous, next |-> k.next,
             first |-> [k.first EXCEPT ![l] = i], last |-> [k.last EXCEPT ![l] = i]]
    BY <1>2 DEF Inserted, CanInsert, Links
  <2> QED BY <1>1, <1>2, <2>1, <2>2 DEF CanInsert, Links, PutIn
<1>3. CASE before = None /\ k.first[l] # None
  <2>1. pr \in Items /\ pr = k.last[l]
    BY <1>3 DEF CanInsert, Linked, EndsLinked, Links, ItemOrNone
  <2>2. n = [list |-> [k.list EXCEPT ![i] = l], previous |-> [k.previous EXCEPT ![i] = pr],
             next |-> [k.next EXCEPT ![pr] = i],
             first |-> k.first, last |-> [k.last EXCEPT ![l] = i]]
    BY <1>3, <2>1 DEF Inserted, CanInsert, Links
  <2>3. pr # i
    BY <1>3, <2>1 DEF CanInsert, Linked, EndsLinked
  <2> QED BY <1>1, <1>3, <2>1, <2>2, <2>3 DEF CanInsert, Links, PutIn
<1>4. CASE before # None /\ k.previous[before] = None
  <2>1. before \in Items /\ k.first[l] = before /\ before # i
    BY <1>4 DEF CanInsert, Linked, ItemLinked
  <2>2. n = [list |-> [k.list EXCEPT ![i] = l], previous |-> [k.previous EXCEPT ![before] = i],
             next |-> [k.next EXCEPT ![i] = before],
             first |-> [k.first EXCEPT ![l] = i], last |-> k.last]
    BY <1>4, <2>1 DEF Inserted, CanInsert, Links
  <2> QED BY <1>1, <1>4, <2>1, <2>2 DEF CanInsert, Links, PutIn
<1>5. CASE before # None /\ k.previous[before] # None
  <2>1. before \in Items /\ pr \in Items /\ before # i /\ k.next[pr] = before /\ pr # i
    BY <1>5 DEF CanInsert, Linked, ItemLinked, Links, ItemOrNone
  <2>2. n = [list |-> [k.list EXCEPT ![i] = l], previous |-> [k.previous EXCEPT ![i] = pr, ![before] = i],
             next |-> [k.next EXCEPT ![i] = before, ![pr] = i],
             first |-> k.first, last |-> k.last]
    BY <1>5, <2>1 DEF Inserted, CanInsert, Links
  <2> QED BY <1>1, <1>5, <2>1, <2>2 DEF CanInsert, Links, PutIn
<1> QED BY <1>2, <1>3, <1>4, <1>5

\* cut(), field by field.
LEMMA CutPoints ==
    ASSUME NEW k, NEW its, NEW i \in Items, k \in Links, Linked(k, its), k.list[i] # None,
           NEW n, n = CutOut(k, i)
    PROVE  TakenOut(k, n, i)
<1> DEFINE l == k.list[i]
           p == k.previous[i]
           x == k.next[i]
<1> USE LinkedListAssumption
<1>0. l \in Lists /\ p \in ItemOrNone /\ x \in ItemOrNone
  BY DEF Links
<1>p. p # None => p \in Items /\ k.next[p] = i /\ k.list[p] = l
  BY <1>0 DEF Linked, ItemLinked, ItemOrNone
<1>x. x # None => x \in Items /\ k.previous[x] = i /\ k.list[x] = l
  BY <1>0 DEF Linked, ItemLinked, ItemOrNone
<1>e. (p = None <=> k.first[l] = i) /\ (x = None <=> k.last[l] = i)
  BY <1>0 DEF Linked, ItemLinked
<1>1. CASE i = k.first[l]
  BY <1>1, <1>0, <1>p, <1>x, <1>e DEF CutOut, Unlinked, Links, ItemOrNone, TakenOut
<1>2. CASE i # k.first[l] /\ i = k.last[l]
  BY <1>2, <1>0, <1>p, <1>x, <1>e DEF CutOut, Unlinked, Links, ItemOrNone, TakenOut
<1>3. CASE i # k.first[l] /\ i # k.last[l]
  BY <1>3, <1>0, <1>p, <1>x, <1>e DEF CutOut, Unlinked, Links, ItemOrNone, TakenOut
<1> QED BY <1>1, <1>2, <1>3

\* One more element in a sequence.
LEMMA InsertSeq ==
    ASSUME NEW q \in Seq(Items), NEW i \in Items, NEW at \in 1 .. Len(q) + 1,
           NEW r, r = SubSeq(q, 1, at - 1) \o <<i>> \o SubSeq(q, at, Len(q))
    PROVE  r \in Seq(Items) /\ OneMore(q, i, at, r)
<1>0. Len(q) \in Nat /\ at \in Nat /\ at >= 1 /\ \A p \in 1 .. Len(q) : q[p] \in Items
  BY LenProperties, ElementOfSeq
<1> DEFINE a == SubSeq(q, 1, at - 1)
           b == SubSeq(q, at, Len(q))
           c == a \o <<i>>
<1>1. a \in Seq(Items) /\ Len(a) = at - 1 /\ \A p \in 1 .. at - 1 : a[p] = q[p]
  BY <1>0, SubSeqProperties
<1>2. b \in Seq(Items) /\ Len(b) = Len(q) + 1 - at /\ \A p \in 1 .. Len(q) + 1 - at : b[p] = q[at + p - 1]
  BY <1>0, SubSeqProperties
<1>3. <<i>> \in Seq(Items) /\ Len(<<i>>) = 1 /\ <<i>>[1] = i
  OBVIOUS
<1> HIDE DEF a, b
<1>4. c \in Seq(Items) /\ Len(c) = at /\ \A p \in 1 .. at : c[p] = IF p < at THEN q[p] ELSE i
  BY <1>0, <1>1, <1>3, ConcatProperties
<1> HIDE DEF c
<1>5. /\ c \o b \in Seq(Items)
      /\ Len(c \o b) = Len(c) + Len(b)
      /\ \A p \in 1 .. Len(c) + Len(b) : (c \o b)[p] = IF p <= Len(c) THEN c[p] ELSE b[p - Len(c)]
  BY <1>2, <1>4, ConcatProperties
<1>6. r = c \o b
  BY DEF a, b, c
<1>7. ASSUME NEW p \in 1 .. Len(q) + 1
      PROVE  (c \o b)[p] = IF p < at THEN q[p] ELSE IF p = at THEN i ELSE q[p - 1]
  <2>0. (c \o b)[p] = IF p <= at THEN c[p] ELSE b[p - at]
    <3>1. Len(c) + Len(b) = Len(q) + 1 /\ Len(c) = at
      BY <1>0, <1>2, <1>4
    <3> QED BY <1>5, <3>1
  <2>1. CASE p <= at
    <3>1. p \in 1 .. at
      BY <1>0, <2>1
    <3>2. c[p] = IF p < at THEN q[p] ELSE i
      BY <1>4, <3>1
    <3>3. p # at => p < at
      BY <1>0, <2>1
    <3>4. ~(p < at) => p = at
      BY <3>3
    <3> QED BY <2>0, <2>1, <3>2, <3>4
  <2>2. CASE p > at
    <3>1. p - at \in 1 .. Len(q) + 1 - at /\ at + (p - at) - 1 = p - 1
      BY <1>0, <2>2
    <3>2. b[p - at] = q[p - 1]
      BY <1>2, <3>1
    <3> QED BY <1>0, <2>0, <2>2, <3>2
  <2>3. p <= at \/ p > at
    BY <1>0
  <2> QED BY <2>1, <2>2, <2>3
<1>8. Len(c \o b) = Len(q) + 1
  BY <1>0, <1>2, <1>4, <1>5
<1> QED BY <1>5, <1>6, <1>7, <1>8 DEF OneMore

\* One element less.
LEMMA RemoveSeq ==
    ASSUME NEW q \in Seq(Items), NEW at \in 1 .. Len(q),
           NEW r, r = SubSeq(q, 1, at - 1) \o SubSeq(q, at + 1, Len(q))
    PROVE  r \in Seq(Items) /\ OneLess(q, at, r)
<1>0. Len(q) \in Nat /\ at \in Nat /\ at >= 1 /\ at <= Len(q) /\ \A p \in 1 .. Len(q) : q[p] \in Items
  BY LenProperties, ElementOfSeq
<1> DEFINE a == SubSeq(q, 1, at - 1)
           b == SubSeq(q, at + 1, Len(q))
<1>1. a \in Seq(Items) /\ Len(a) = at - 1 /\ \A p \in 1 .. at - 1 : a[p] = q[p]
  BY <1>0, SubSeqProperties
<1>2. b \in Seq(Items) /\ Len(b) = Len(q) - at /\ \A p \in 1 .. Len(q) - at : b[p] = q[at + 1 + p - 1]
  BY <1>0, SubSeqProperties
<1> HIDE DEF a, b
<1>3. /\ a \o b \in Seq(Items)
      /\ Len(a \o b) = Len(a) + Len(b)
      /\ \A p \in 1 .. Len(a) + Len(b) : (a \o b)[p] = IF p <= Len(a) THEN a[p] ELSE b[p - Len(a)]
  BY <1>1, <1>2, ConcatProperties
<1>4. r = a \o b
  BY DEF a, b
<1>5. ASSUME NEW p \in 1 .. Len(q) - 1
      PROVE  (a \o b)[p] = IF p < at THEN q[p] ELSE q[p + 1]
  <2>0. (a \o b)[p] = IF p <= at - 1 THEN a[p] ELSE b[p - (at - 1)]
    <3>1. Len(a) + Len(b) = Len(q) - 1 /\ Len(a) = at - 1
      BY <1>0, <1>1, <1>2
    <3> QED BY <1>3, <3>1
  <2>1. CASE p < at
    <3>1. p \in 1 .. at - 1
      BY <1>0, <2>1
    <3>2. a[p] = q[p] /\ p <= at - 1
      BY <1>0, <1>1, <2>1, <3>1
    <3> QED BY <2>0, <2>1, <3>2
  <2>2. CASE p >= at
    <3>1. p - (at - 1) \in 1 .. Len(q) - at /\ at + 1 + (p - (at - 1)) - 1 = p + 1
      BY <1>0, <2>2
    <3>2. b[p - (at - 1)] = q[p + 1]
      BY <1>2, <3>1
    <3> QED BY <1>0, <2>0, <2>2, <3>2
  <2>3. p < at \/ p >= at
    BY <1>0
  <2> QED BY <2>1, <2>2, <2>3
<1>6. Len(a \o b) = Len(q) - 1
  BY <1>0, <1>1, <1>2, <1>3
<1> QED BY <1>3, <1>4, <1>5, <1>6 DEF OneLess

\* insert() on the list it is called on.
LEMMA InsertedIn ==
    ASSUME NEW k \in Links, NEW n, NEW l \in Lists, NEW i \in Items, NEW before, NEW pr,
           NEW q \in Seq(Items), NEW at \in 1 .. Len(q) + 1, NEW r \in Seq(Items),
           OneMore(q, i, at, r), PutIn(k, n, l, i, pr, before),
           k.list[i] = None, Distinct(q), ExactIn(k, q, l),
           before = IF at = Len(q) + 1 THEN None ELSE q[at],
           pr = IF at = 1 THEN None ELSE q[at - 1]
    PROVE  Distinct(r) /\ ExactIn(n, r, l)
<1> USE LinkedListAssumption
<1>0. /\ Len(q) \in Nat /\ at \in Nat /\ at >= 1 /\ at <= Len(q) + 1
      /\ DOMAIN q = 1 .. Len(q) /\ DOMAIN r = 1 .. Len(q) + 1
      /\ Len(r) = Len(q) + 1
      /\ k.list \in [Items -> Lists \cup {None}]
  BY LenProperties DEF Links, OneMore
<1>u. Len(q) \in Nat /\ at \in Nat /\ at >= 1 /\ at <= Len(q) + 1 /\ Len(r) = Len(q) + 1
  BY <1>0
<1>1. \A p \in 1 .. Len(q) : q[p] \in Items /\ k.list[q[p]] = l /\ q[p] # i /\ q[p] # None
  <2>1. \A p \in 1 .. Len(q) : q[p] \in Items
    BY ElementOfSeq
  <2>2. \A p \in 1 .. Len(q) : q[p] \in {j \in Items : k.list[j] = l}
    BY <1>0 DEF ExactIn
  <2> QED BY <2>1, <2>2
<1>2. \A p, w \in 1 .. Len(q) : q[p] = q[w] => p = w
  BY <1>0 DEF Distinct
<1>n. \A w \in 1 .. Len(q) :
        /\ k.next[q[w]] = IF w = Len(q) THEN None ELSE q[w + 1]
        /\ k.previous[q[w]] = IF w = 1 THEN None ELSE q[w - 1]
  BY <1>0 DEF ExactIn
<1>3. r[at] = i /\ \A w \in 1 .. Len(q) : (w < at => r[w] = q[w]) /\ (w >= at => r[w + 1] = q[w])
  <2>1. r[at] = i
    BY <1>0 DEF OneMore
  <2>2. ASSUME NEW w \in 1 .. Len(q), w < at PROVE r[w] = q[w]
    BY <1>0, <2>2 DEF OneMore
  <2>3. ASSUME NEW w \in 1 .. Len(q), w >= at PROVE r[w + 1] = q[w]
    <3>1. w + 1 \in 1 .. Len(q) + 1 /\ ~(w + 1 < at) /\ w + 1 # at /\ (w + 1) - 1 = w
      BY <1>0, <2>3
    <3> QED BY <3>1 DEF OneMore
  <2> QED BY <2>1, <2>2, <2>3
<1>4. ASSUME NEW p \in 1 .. Len(q) + 1
      PROVE  \/ p = at
             \/ p \in 1 .. Len(q) /\ p < at
             \/ \E w \in 1 .. Len(q) : w >= at /\ p = w + 1
  <2>1. CASE p < at
    BY <1>0, <2>1
  <2>2. CASE p > at
    <3>1. p - 1 \in 1 .. Len(q) /\ p - 1 >= at /\ p = (p - 1) + 1
      BY <1>0, <2>2
    <3> QED BY <3>1
  <2>3. p = at \/ p < at \/ p > at
    BY <1>0
  <2> QED BY <2>1, <2>2, <2>3
<1>5. Distinct(r)
  <2> SUFFICES ASSUME NEW p \in 1 .. Len(q) + 1, NEW w \in 1 .. Len(q) + 1, r[p] = r[w]
               PROVE  p = w
    BY <1>0 DEF Distinct
  <2>1. CASE p = at
    <3>1. w # at => \E u \in 1 .. Len(q) : r[w] = q[u]
      BY <1>3, <1>4
    <3> QED BY <1>1, <1>3, <2>1, <3>1
  <2>2. CASE p \in 1 .. Len(q) /\ p < at
    <3>1. r[p] = q[p] /\ q[p] # i
      BY <1>1, <1>3, <2>2
    <3>2. w # at
      BY <1>3, <3>1
    <3>3. CASE w \in 1 .. Len(q) /\ w < at
      BY <1>2, <1>3, <2>2, <3>1, <3>3
    <3>4. ASSUME NEW x \in 1 .. Len(q), x >= at, w = x + 1 PROVE FALSE
      <4>0. r[w] = q[x]
        BY <1>3, <3>4
      <4>1. p = x
        BY <1>2, <2>2, <3>1, <4>0
      <4> QED BY <1>u, <2>2, <3>4, <4>1
    <3> QED BY <1>4, <3>2, <3>3, <3>4
  <2>3. CASE \E u \in 1 .. Len(q) : u >= at /\ p = u + 1
    <3>1. PICK u \in 1 .. Len(q) : u >= at /\ p = u + 1
      BY <2>3
    <3>2. r[p] = q[u] /\ q[u] # i
      BY <1>1, <1>3, <3>1
    <3>3. w # at
      BY <1>3, <3>2
    <3>4. CASE w \in 1 .. Len(q) /\ w < at
      <4>1. u = w
        BY <1>2, <1>3, <3>2, <3>4
      <4> QED BY <1>u, <3>1, <3>4, <4>1
    <3>5. CASE \E x \in 1 .. Len(q) : x >= at /\ w = x + 1
      BY <1>2, <1>3, <3>1, <3>2, <3>5
    <3> QED BY <1>4, <3>3, <3>4, <3>5
  <2> QED BY <1>4, <2>1, <2>2, <2>3
<1>6. \A w \in 1 .. Len(q) : (q[w] = pr <=> w + 1 = at) /\ (q[w] = before <=> w = at)
  <2> TAKE w \in 1 .. Len(q)
  <2>1. CASE at = 1
    BY <1>0, <1>1, <1>2, <2>1
  <2>2. CASE at # 1
    <3>1. at - 1 \in 1 .. Len(q)
      BY <1>0, <2>2
    <3>2. q[w] = pr <=> w = at - 1
      BY <1>2, <2>2, <3>1
    <3>3. q[w] = before <=> w = at
      BY <1>0, <1>1, <1>2
    <3> QED BY <1>0, <3>2, <3>3
  <2> QED BY <2>1, <2>2
<1>7. n.next[i] = before /\ n.previous[i] = pr
  BY DEF PutIn
<1>8. \A w \in 1 .. Len(q) :
        /\ n.next[q[w]] = IF w + 1 = at THEN i ELSE IF w = Len(q) THEN None ELSE q[w + 1]
        /\ n.previous[q[w]] = IF w = at THEN i ELSE IF w = 1 THEN None ELSE q[w - 1]
  BY SMTT(30), <1>1, <1>6, <1>n DEF PutIn
<1>9. n.first[l] = r[1]
  BY <1>0, <1>1, <1>3 DEF ExactIn, PutIn
<1>10. n.last[l] = r[Len(r)]
  <2>1. CASE at = Len(q) + 1
    BY <1>0, <1>3, <2>1 DEF PutIn
  <2>2. CASE at # Len(q) + 1
    <3>1. Len(q) \in 1 .. Len(q) /\ at \in 1 .. Len(q) /\ Len(q) >= at /\ q # <<>>
      BY <1>0, <2>2
    <3> QED BY <1>0, <1>1, <1>3, <2>2, <3>1 DEF ExactIn, PutIn
  <2> QED BY <2>1, <2>2
<1>11. {j \in Items : n.list[j] = l} = {r[p] : p \in DOMAIN r}
  <2>1. ASSUME NEW p \in 1 .. Len(q) + 1 PROVE r[p] \in Items /\ n.list[r[p]] = l
    <3>1. r[p] = i \/ \E w \in 1 .. Len(q) : r[p] = q[w]
      BY <1>3, <1>4
    <3> QED BY <1>0, <1>1, <3>1 DEF PutIn
  <2>2. ASSUME NEW j \in Items, n.list[j] = l PROVE \E p \in 1 .. Len(q) + 1 : r[p] = j
    <3>1. CASE j = i
      BY <1>3, <3>1
    <3>2. CASE j # i
      <4>1. k.list[j] = l
        BY <1>0, <2>2, <3>2 DEF PutIn
      <4>2. PICK w \in 1 .. Len(q) : q[w] = j
        BY <1>0, <4>1 DEF ExactIn
      <4>3. w \in 1 .. Len(q) + 1 /\ w + 1 \in 1 .. Len(q) + 1 /\ (w < at \/ w >= at)
        BY <1>0
      <4> QED BY <1>3, <4>2, <4>3
    <3> QED BY <3>1, <3>2
  <2> DEFINE A == {j \in Items : n.list[j] = l}
             B == {r[p] : p \in DOMAIN r}
  <2>3. ASSUME NEW j \in A PROVE j \in B
    BY <1>0, <2>2
  <2>4. ASSUME NEW j \in B PROVE j \in A
    BY <1>0, <2>1
  <2> QED BY <2>3, <2>4
<1>12. ASSUME NEW p \in 1 .. Len(q) + 1
       PROVE  /\ n.next[r[p]] = IF p = Len(r) THEN None ELSE r[p + 1]
              /\ n.previous[r[p]] = IF p = 1 THEN None ELSE r[p - 1]
  <2>1. CASE p = at
    <3>1. at # Len(q) + 1 => at \in 1 .. Len(q)
      BY <1>0
    <3>2. at # 1 => at - 1 \in 1 .. Len(q) /\ at - 1 < at
      BY <1>0
    <3> QED BY <1>0, <1>3, <1>7, <2>1, <3>1, <3>2
  <2>2. CASE p \in 1 .. Len(q) /\ p < at
    <3>1. p # Len(r) /\ p # at
      BY <1>0, <2>2
    <3>2. p + 1 # at => p + 1 \in 1 .. Len(q) /\ p + 1 < at /\ p # Len(q)
      <4>1. p \in Nat /\ p >= 1 /\ p < at
        BY <1>u, <2>2
      <4> QED BY <1>u, <4>1
    <3>3. p # 1 => p - 1 \in 1 .. Len(q) /\ p - 1 < at
      BY <1>0, <2>2
    <3> QED BY <1>3, <1>8, <2>2, <3>1, <3>2, <3>3
  <2>3. CASE \E w \in 1 .. Len(q) : w >= at /\ p = w + 1
    <3>1. PICK w \in 1 .. Len(q) : w >= at /\ p = w + 1
      BY <2>3
    <3>u. w \in Nat /\ w >= 1 /\ w <= Len(q) /\ w >= at /\ p = w + 1
      BY <1>u, <3>1
    <3>2. p # 1 /\ w + 1 # at /\ p - 1 = w /\ (w = Len(q) <=> p = Len(r))
      BY <1>u, <3>u
    <3>3. w # Len(q) => w + 1 \in 1 .. Len(q) /\ w + 1 >= at
      BY <1>u, <3>u
    <3>4. w # at => w # 1 /\ w - 1 \in 1 .. Len(q) /\ w - 1 >= at /\ (w - 1) + 1 = w
      BY <1>0, <3>1
    <3>5. r[p] = q[w]
      BY <1>3, <3>1
    <3>6. w # Len(q) => r[p + 1] = q[w + 1]
      BY <1>3, <3>1, <3>3
    <3>7. w # at => r[w] = q[w - 1]
      BY <1>3, <3>4
    <3>8. r[at] = i
      BY <1>3
    <3> QED BY <1>8, <3>1, <3>2, <3>4, <3>5, <3>6, <3>7, <3>8
  <2> QED BY <1>4, <2>1, <2>2, <2>3
<1>13. r # <<>>
  BY <1>0
<1>14. ExactIn(n, r, l)
  BY <1>0, <1>9, <1>10, <1>11, <1>12, <1>13 DEF ExactIn
<1> QED BY <1>5, <1>14

\* cut() on the list of the item.
LEMMA TakenOutIn ==
    ASSUME NEW k \in Links, NEW n, NEW l \in Lists, NEW i \in Items,
           NEW q \in Seq(Items), NEW at \in 1 .. Len(q), NEW r \in Seq(Items),
           OneLess(q, at, r), TakenOut(k, n, i),
           q[at] = i, k.list[i] = l, Distinct(q), ExactIn(k, q, l)
    PROVE  Distinct(r) /\ ExactIn(n, r, l)
<1> USE LinkedListAssumption
<1> DEFINE pr == k.previous[i]
           nx == k.next[i]
<1>0. /\ Len(q) \in Nat /\ at \in Nat /\ at >= 1 /\ at <= Len(q)
      /\ DOMAIN q = 1 .. Len(q) /\ DOMAIN r = 1 .. Len(q) - 1
      /\ Len(r) = Len(q) - 1
      /\ k.list \in [Items -> Lists \cup {None}]
  BY LenProperties DEF Links, OneLess
<1>u. Len(q) \in Nat /\ at \in Nat /\ at >= 1 /\ at <= Len(q) /\ Len(r) = Len(q) - 1
  BY <1>0
<1>1. \A p \in 1 .. Len(q) : q[p] \in Items /\ k.list[q[p]] = l /\ q[p] # None
  <2>1. \A p \in 1 .. Len(q) : q[p] \in Items
    BY ElementOfSeq
  <2>2. \A p \in 1 .. Len(q) : q[p] \in {j \in Items : k.list[j] = l}
    BY <1>0 DEF ExactIn
  <2> QED BY <2>1, <2>2
<1>2. \A p, w \in 1 .. Len(q) : q[p] = q[w] => p = w
  BY <1>0 DEF Distinct
<1>n. \A w \in 1 .. Len(q) :
        /\ k.next[q[w]] = IF w = Len(q) THEN None ELSE q[w + 1]
        /\ k.previous[q[w]] = IF w = 1 THEN None ELSE q[w - 1]
  BY <1>0 DEF ExactIn
<1>3. /\ \A w \in 1 .. Len(q) : w < at => r[w] = q[w]
      /\ \A w \in 1 .. Len(q) : w > at => r[w - 1] = q[w]
  <2>1. ASSUME NEW w \in 1 .. Len(q), w < at PROVE r[w] = q[w]
    <3>1. w \in 1 .. Len(q) - 1
      BY <1>u, <2>1
    <3> QED BY <2>1, <3>1 DEF OneLess
  <2>2. ASSUME NEW w \in 1 .. Len(q), w > at PROVE r[w - 1] = q[w]
    <3>1. w - 1 \in 1 .. Len(q) - 1 /\ ~(w - 1 < at) /\ (w - 1) + 1 = w
      BY <1>u, <2>2
    <3> QED BY <3>1 DEF OneLess
  <2> QED BY <2>1, <2>2
<1>4. ASSUME NEW p \in 1 .. Len(q) - 1
      PROVE  \/ p \in 1 .. Len(q) /\ p < at
             \/ \E w \in 1 .. Len(q) : w > at /\ p = w - 1
  <2>1. CASE p < at
    BY <1>u, <2>1
  <2>2. CASE p >= at
    <3>1. p + 1 \in 1 .. Len(q) /\ p + 1 > at /\ p = (p + 1) - 1
      BY <1>u, <2>2
    <3> QED BY <3>1
  <2>3. p < at \/ p >= at
    BY <1>u
  <2> QED BY <2>1, <2>2, <2>3
<1>5. Distinct(r)
  <2> SUFFICES ASSUME NEW p \in 1 .. Len(q) - 1, NEW w \in 1 .. Len(q) - 1, r[p] = r[w]
               PROVE  p = w
    BY <1>0 DEF Distinct
  <2>1. ASSUME NEW v \in 1 .. Len(q) - 1
        PROVE  \E x \in 1 .. Len(q) : r[v] = q[x] /\ ((x < at /\ v = x) \/ (x > at /\ v = x - 1))
    <3>1. CASE v \in 1 .. Len(q) /\ v < at
      BY <1>3, <3>1
    <3>2. CASE \E x \in 1 .. Len(q) : x > at /\ v = x - 1
      BY <1>3, <3>2
    <3> QED BY <1>4, <3>1, <3>2
  <2>2. PICK x \in 1 .. Len(q) : r[p] = q[x] /\ ((x < at /\ p = x) \/ (x > at /\ p = x - 1))
    BY <2>1
  <2>3. PICK y \in 1 .. Len(q) : r[w] = q[y] /\ ((y < at /\ w = y) \/ (y > at /\ w = y - 1))
    BY <2>1
  <2>4. x = y
    BY <1>2, <2>2, <2>3
  <2> QED BY <1>u, <2>2, <2>3, <2>4
<1>6. /\ pr = IF at = 1 THEN None ELSE q[at - 1]
      /\ nx = IF at = Len(q) THEN None ELSE q[at + 1]
  BY <1>n
<1>7. \A w \in 1 .. Len(q) : (q[w] = pr <=> w + 1 = at) /\ (q[w] = nx <=> w = at + 1) /\ (q[w] = i <=> w = at)
  <2> TAKE w \in 1 .. Len(q)
  <2>1. q[w] = pr <=> w + 1 = at
    <3>1. CASE at = 1
      BY <1>u, <1>1, <1>6, <3>1
    <3>2. CASE at # 1
      <4>1. at - 1 \in 1 .. Len(q)
        BY <1>u, <3>2
      <4>2. q[w] = pr <=> w = at - 1
        BY <1>2, <1>6, <3>2, <4>1
      <4> QED BY <1>u, <4>2
    <3> QED BY <3>1, <3>2
  <2>2. q[w] = nx <=> w = at + 1
    <3>1. CASE at = Len(q)
      BY <1>u, <1>1, <1>6, <3>1
    <3>2. CASE at # Len(q)
      <4>1. at + 1 \in 1 .. Len(q)
        BY <1>u, <3>2
      <4> QED BY <1>2, <1>6, <3>2, <4>1
    <3> QED BY <3>1, <3>2
  <2> QED BY <1>2, <2>1, <2>2
<1>8. \A w \in 1 .. Len(q) : w # at =>
        /\ n.next[q[w]] = IF w + 1 = at THEN nx ELSE IF w = Len(q) THEN None ELSE q[w + 1]
        /\ n.previous[q[w]] = IF w = at + 1 THEN pr ELSE IF w = 1 THEN None ELSE q[w - 1]
  BY <1>1, <1>7, <1>n DEF TakenOut
<1>e. r = <<>> <=> Len(q) = 1
  <2>1. r = <<>> <=> Len(r) = 0
    BY EmptySeq
  <2> QED BY <1>u, <2>1
<1>9. n.first[l] = IF r = <<>> THEN None ELSE r[1]
  <2>0. n.first[l] = IF pr = None THEN nx ELSE k.first[l]
    BY DEF TakenOut
  <2>1. CASE at = 1
    <3>1. at # Len(q) => 2 \in 1 .. Len(q) /\ 2 > at /\ 2 - 1 = 1 /\ at + 1 = 2
      BY <1>u, <2>1
    <3>2. n.first[l] = nx
      BY <1>6, <2>0, <2>1
    <3>3. at # Len(q) => r[1] = q[2]
      BY <1>3, <3>1
    <3> QED BY <1>6, <1>e, <2>1, <3>1, <3>2, <3>3
  <2>2. CASE at # 1
    <3>1. 1 \in 1 .. Len(q) /\ 1 < at /\ Len(q) # 1 /\ at - 1 \in 1 .. Len(q)
      BY <1>u, <2>2
    <3>2. q # <<>>
      BY <1>u
    <3> QED BY <1>1, <1>3, <1>6, <1>e, <2>0, <2>2, <3>1, <3>2 DEF ExactIn
  <2> QED BY <2>1, <2>2
<1>10. n.last[l] = IF r = <<>> THEN None ELSE r[Len(r)]
  <2>0. n.last[l] = IF nx = None THEN pr ELSE k.last[l]
    BY DEF TakenOut
  <2>1. CASE at = Len(q)
    <3>1. at # 1 => at - 1 \in 1 .. Len(q) /\ at - 1 < at /\ at - 1 = Len(r)
      BY <1>u, <2>1
    <3>2. n.last[l] = pr
      BY <1>6, <2>0, <2>1
    <3> QED BY <1>3, <1>6, <1>e, <2>1, <3>1, <3>2
  <2>2. CASE at # Len(q)
    <3>1. Len(q) \in 1 .. Len(q) /\ Len(q) > at /\ Len(q) # 1 /\ at + 1 \in 1 .. Len(q)
      BY <1>u, <2>2
    <3>2. q # <<>>
      BY <1>u
    <3>3. r[Len(r)] = q[Len(q)]
      BY <1>u, <1>3, <3>1
    <3> QED BY <1>1, <1>6, <1>e, <2>0, <2>2, <3>1, <3>2, <3>3 DEF ExactIn
  <2> QED BY <2>1, <2>2
<1>11. {j \in Items : n.list[j] = l} = {r[p] : p \in DOMAIN r}
  <2>1. ASSUME NEW p \in 1 .. Len(q) - 1 PROVE r[p] \in Items /\ n.list[r[p]] = l
    <3>1. \E w \in 1 .. Len(q) : w # at /\ r[p] = q[w]
      <4>1. CASE p \in 1 .. Len(q) /\ p < at
        BY <1>u, <1>3, <4>1
      <4>2. CASE \E w \in 1 .. Len(q) : w > at /\ p = w - 1
        BY <1>u, <1>3, <4>2
      <4> QED BY <1>4, <4>1, <4>2
    <3> QED BY <1>0, <1>1, <1>7, <3>1 DEF TakenOut
  <2>2. ASSUME NEW j \in Items, n.list[j] = l PROVE \E p \in 1 .. Len(q) - 1 : r[p] = j
    <3>1. j # i /\ k.list[j] = l
      BY <1>0, <2>2 DEF TakenOut
    <3>2. PICK w \in 1 .. Len(q) : q[w] = j
      BY <1>0, <3>1 DEF ExactIn
    <3>3. w # at
      BY <3>1, <3>2
    <3>4. CASE w < at
      <4>1. w \in 1 .. Len(q) - 1
        BY <1>u, <3>4
      <4> QED BY <1>3, <3>2, <3>4, <4>1
    <3>5. CASE w > at
      <4>1. w - 1 \in 1 .. Len(q) - 1
        BY <1>u, <3>5
      <4> QED BY <1>3, <3>2, <3>5, <4>1
    <3>6. w < at \/ w > at
      BY <1>u, <3>3
    <3> QED BY <3>4, <3>5, <3>6
  <2> DEFINE A == {j \in Items : n.list[j] = l}
             B == {r[p] : p \in DOMAIN r}
  <2>3. ASSUME NEW j \in A PROVE j \in B
    BY <1>0, <2>2
  <2>4. ASSUME NEW j \in B PROVE j \in A
    BY <1>0, <2>1
  <2> QED BY <2>3, <2>4
<1>12. ASSUME NEW p \in 1 .. Len(q) - 1
       PROVE  /\ n.next[r[p]] = IF p = Len(r) THEN None ELSE r[p + 1]
              /\ n.previous[r[p]] = IF p = 1 THEN None ELSE r[p - 1]
  <2>1. CASE p \in 1 .. Len(q) /\ p < at
    <3>u. p \in Nat /\ p >= 1 /\ p < at
      BY <2>1
    <3>1. r[p] = q[p] /\ p # at /\ p # at + 1 /\ p # Len(q)
      BY <1>u, <1>3, <2>1, <3>u
    <3>2. ASSUME p + 1 = at PROVE n.next[r[p]] = IF p = Len(r) THEN None ELSE r[p + 1]
      <4>1. p = Len(r) <=> at = Len(q)
        BY <1>u, <3>2
      <4>2. at # Len(q) => at + 1 \in 1 .. Len(q) /\ at + 1 > at /\ (at + 1) - 1 = p + 1
        BY <1>u, <3>2
      <4>3. at # Len(q) => r[p + 1] = q[at + 1]
        BY <1>3, <4>2
      <4> QED BY <1>6, <1>8, <2>1, <3>1, <3>2, <4>1, <4>3
    <3>3. ASSUME p + 1 # at PROVE n.next[r[p]] = IF p = Len(r) THEN None ELSE r[p + 1]
      <4>1. p + 1 \in 1 .. Len(q) /\ p + 1 < at /\ p # Len(r)
        BY <1>u, <3>u, <3>3
      <4>2. r[p + 1] = q[p + 1]
        BY <1>3, <4>1
      <4> QED BY <1>8, <2>1, <3>1, <3>3, <4>1, <4>2
    <3>4. n.next[r[p]] = IF p = Len(r) THEN None ELSE r[p + 1]
      BY <3>2, <3>3
    <3>5. p # 1 => p - 1 \in 1 .. Len(q) /\ p - 1 < at
      BY <1>u, <3>u
    <3>6. n.previous[r[p]] = IF p = 1 THEN None ELSE r[p - 1]
      BY <1>3, <1>8, <2>1, <3>1, <3>5
    <3> QED BY <3>4, <3>6
  <2>2. CASE \E w \in 1 .. Len(q) : w > at /\ p = w - 1
    <3>1. PICK w \in 1 .. Len(q) : w > at /\ p = w - 1
      BY <2>2
    <3>u. w \in Nat /\ w > at /\ w <= Len(q) /\ p = w - 1 /\ p >= 1
      BY <1>u, <3>1
    <3>2. r[p] = q[w]
      BY <1>3, <3>1
    <3>3. w # at /\ w + 1 # at /\ w # 1 /\ p + 1 = w /\ (p = Len(r) <=> w = Len(q))
      BY <1>u, <3>u
    <3>4. w # Len(q) => w + 1 \in 1 .. Len(q) /\ w + 1 > at /\ (w + 1) - 1 = p + 1
      BY <1>u, <3>u
    <3>5. w # Len(q) => r[p + 1] = q[w + 1]
      BY <1>3, <3>4
    <3>6. n.next[r[p]] = IF p = Len(r) THEN None ELSE r[p + 1]
      BY <1>8, <3>2, <3>3, <3>5
    <3>7. ASSUME w = at + 1 PROVE n.previous[r[p]] = IF p = 1 THEN None ELSE r[p - 1]
      <4>1. p = at /\ (at # 1 => at - 1 \in 1 .. Len(q) /\ at - 1 < at)
        BY <1>u, <3>u, <3>7
      <4>2. at # 1 => r[p - 1] = q[at - 1]
        BY <1>3, <4>1
      <4> QED BY <1>6, <1>8, <3>2, <3>3, <3>7, <4>1, <4>2
    <3>8. ASSUME w # at + 1 PROVE n.previous[r[p]] = IF p = 1 THEN None ELSE r[p - 1]
      <4>1. w - 1 \in 1 .. Len(q) /\ w - 1 > at /\ p # 1 /\ (w - 1) - 1 = p - 1
        BY <1>u, <3>u, <3>8
      <4>2. r[p - 1] = q[w - 1]
        BY <1>3, <4>1
      <4> QED BY <1>8, <3>2, <3>3, <3>8, <4>1, <4>2
    <3> QED BY <3>6, <3>7, <3>8
  <2> QED BY <1>4, <2>1, <2>2
<1>13. ExactIn(n, r, l)
  BY <1>0, <1>9, <1>10, <1>11, <1>12 DEF ExactIn
<1> QED BY <1>5, <1>13

\* The items of a list are those of its order.
LEMMA ItemsOf ==
    ASSUME NEW k, NEW o, Exact(k, o), NEW l \in Lists
    PROVE  /\ o[l] \in Seq(Items)
           /\ DOMAIN o[l] = 1 .. Len(o[l])
           /\ Len(o[l]) \in Nat
           /\ \A p \in 1 .. Len(o[l]) : o[l][p] \in Items /\ k.list[o[l][p]] = l
           /\ \A i \in Items : k.list[i] = l => \E p \in 1 .. Len(o[l]) : o[l][p] = i
<1>1. o[l] \in Seq(Items) /\ {i \in Items : k.list[i] = l} = {o[l][p] : p \in DOMAIN o[l]}
  BY DEF Exact, ExactIn
<1>2. DOMAIN o[l] = 1 .. Len(o[l]) /\ Len(o[l]) \in Nat
  BY <1>1, LenProperties
<1> QED BY <1>1, <1>2

\* What insert() does to the orders.
LEMMA OrderInserted ==
    ASSUME NEW k, NEW its, NEW l, NEW i, NEW before, CanInsert(k, its, l, i, before),
           NEW o, Exact(k, o), NEW w, w = WithBefore(o, l, i, before),
           NEW q, q = o[l],
           NEW pr, pr = IF before = None THEN k.last[l] ELSE k.previous[before]
    PROVE  /\ w \in [Lists -> Seq(Items)]
           /\ \A m \in Lists : m # l => w[m] = o[m]
           /\ \E at \in 1 .. Len(q) + 1 :
                /\ OneMore(q, i, at, w[l])
                /\ before = IF at = Len(q) + 1 THEN None ELSE q[at]
                /\ pr = IF at = 1 THEN None ELSE q[at - 1]
<1> USE LinkedListAssumption
<1>0. /\ l \in Lists /\ i \in Items /\ q \in Seq(Items) /\ o \in [Lists -> Seq(Items)]
      /\ DOMAIN q = 1 .. Len(q) /\ Len(q) \in Nat
      /\ \A p \in 1 .. Len(q) : q[p] \in Items /\ q[p] # None
      /\ ExactIn(k, q, l)
  <2>1. l \in Lists /\ i \in Items
    BY DEF CanInsert
  <2> QED BY <2>1, ItemsOf DEF Exact
<1>1. PICK at \in 1 .. Len(q) + 1 :
        /\ at = IF before = None THEN Len(q) + 1 ELSE Position(q, before)
        /\ before = IF at = Len(q) + 1 THEN None ELSE q[at]
  <2>1. CASE before = None
    BY <1>0, <2>1
  <2>2. CASE before # None
    <3>1. before \in Items /\ k.list[before] = l
      BY <2>2 DEF CanInsert
    <3>2. \E p \in 1 .. Len(q) : q[p] = before
      BY <1>0, <3>1, ItemsOf
    <3>3. Position(q, before) \in 1 .. Len(q) /\ q[Position(q, before)] = before
      BY <1>0, <3>2 DEF Position
    <3>4. Position(q, before) \in 1 .. Len(q) + 1 /\ Position(q, before) # Len(q) + 1
      BY <1>0, <3>3
    <3> QED BY <2>2, <3>3, <3>4
  <2> QED BY <2>1, <2>2
<1> DEFINE r == SubSeq(q, 1, at - 1) \o <<i>> \o SubSeq(q, at, Len(q))
<1>2. w = [o EXCEPT ![l] = r]
  BY <1>0, <1>1 DEF WithBefore
<1> HIDE DEF r
<1>3. r \in Seq(Items) /\ OneMore(q, i, at, r)
  BY <1>0, <1>1, InsertSeq DEF r
<1>4. pr = IF at = 1 THEN None ELSE q[at - 1]
  <2>1. CASE before = None
    <3>1. at = Len(q) + 1 /\ pr = k.last[l]
      BY <1>1, <2>1
    <3>2. q = <<>> <=> Len(q) = 0
      BY <1>0, EmptySeq
    <3> QED BY <1>0, <3>1, <3>2 DEF ExactIn
  <2>2. CASE before # None
    <3>1. at \in 1 .. Len(q) /\ q[at] = before /\ pr = k.previous[before]
      BY <1>0, <1>1, <2>2
    <3> QED BY <1>0, <3>1 DEF ExactIn
  <2> QED BY <2>1, <2>2
<1>5. w \in [Lists -> Seq(Items)] /\ w[l] = r /\ \A m \in Lists : m # l => w[m] = o[m]
  BY <1>0, <1>2, <1>3
<1> QED BY <1>1, <1>3, <1>4, <1>5

\* What cut() does to them.
LEMMA OrderCut ==
    ASSUME NEW k, NEW o, Exact(k, o), NEW l \in Lists, NEW i \in Items, k.list[i] = l,
           NEW w, w = Without(o, i),
           NEW q, q = o[l]
    PROVE  /\ w \in [Lists -> Seq(Items)]
           /\ \A m \in Lists : m # l => w[m] = o[m]
           /\ \E at \in 1 .. Len(q) : q[at] = i /\ OneLess(q, at, w[l])
<1>0. /\ q \in Seq(Items) /\ o \in [Lists -> Seq(Items)]
      /\ DOMAIN q = 1 .. Len(q) /\ Len(q) \in Nat
      /\ \E p \in 1 .. Len(q) : q[p] = i
  <2>1. \E p \in 1 .. Len(o[l]) : o[l][p] = i
    BY ItemsOf
  <2>2. o[l] \in Seq(Items) /\ DOMAIN o[l] = 1 .. Len(o[l]) /\ Len(o[l]) \in Nat
    BY ItemsOf
  <2> QED BY <2>1, <2>2 DEF Exact
<1>1. PICK at \in 1 .. Len(q) : at = Position(q, i) /\ q[at] = i
  BY <1>0 DEF Position
<1> DEFINE r == SubSeq(q, 1, at - 1) \o SubSeq(q, at + 1, Len(q))
<1>2. w[l] = r
  BY <1>0, <1>1 DEF Without
<1> HIDE DEF r
<1>3. r \in Seq(Items) /\ OneLess(q, at, r)
  BY <1>0, RemoveSeq DEF r
<1>4. ASSUME NEW m \in Lists, m # l PROVE w[m] = o[m]
  <2>1. \A p \in DOMAIN o[m] : o[m][p] # i
    BY SMTT(30), <1>4, ItemsOf
  <2> QED BY <2>1 DEF Without
<1>5. w \in [Lists -> Seq(Items)]
  <2>1. w = [m \in Lists |-> w[m]]
    BY DEF Without
  <2>2. \A m \in Lists : w[m] \in Seq(Items)
    BY <1>0, <1>2, <1>3, <1>4
  <2> QED BY <2>1, <2>2
<1> QED BY <1>1, <1>2, <1>3, <1>4, <1>5

\* An item in no list is in no order.
LEMMA NothingCut ==
    ASSUME NEW k, NEW o, Exact(k, o), NEW i \in Items, k.list[i] = None
    PROVE  Without(o, i) = o
<1>1. ASSUME NEW m \in Lists PROVE \A p \in DOMAIN o[m] : o[m][p] # i
  BY ItemsOf, LinkedListAssumption
<1>2. o \in [Lists -> Seq(Items)]
  BY DEF Exact
<1> QED BY <1>1, <1>2 DEF Without

\* insert() puts the item before the other, as asked.
LEMMA InsertedOrder ==
    ASSUME NEW k, NEW its, NEW l, NEW i, NEW before, CanInsert(k, its, l, i, before),
           NEW o, Exact(k, o)
    PROVE  Exact(Inserted(k, l, i, before), WithBefore(o, l, i, before))
<1> USE LinkedListAssumption
<1> DEFINE n == Inserted(k, l, i, before)
           w == WithBefore(o, l, i, before)
           pr == IF before = None THEN k.last[l] ELSE k.previous[before]
           q == o[l]
<1>0. k \in Links /\ l \in Lists /\ i \in Items /\ k.list[i] = None
  BY DEF CanInsert
<1>1. PutIn(k, n, l, i, pr, before)
  BY InsertedPoints
<1>2. /\ w \in [Lists -> Seq(Items)]
      /\ \A m \in Lists : m # l => w[m] = o[m]
      /\ \E at \in 1 .. Len(q) + 1 :
            /\ OneMore(q, i, at, w[l])
            /\ before = IF at = Len(q) + 1 THEN None ELSE q[at]
            /\ pr = IF at = 1 THEN None ELSE q[at - 1]
  BY OrderInserted
<1>3. q \in Seq(Items) /\ Distinct(q) /\ ExactIn(k, q, l)
  BY <1>0 DEF Exact
<1>4. before # None => before \in Items /\ k.list[before] = l
  BY DEF CanInsert
<1>5. pr # None => pr \in Items /\ k.list[pr] = l
  <2> SUFFICES ASSUME pr # None PROVE pr \in Items /\ k.list[pr] = l
    OBVIOUS
  <2>1. PICK at \in 1 .. Len(q) + 1 : pr = IF at = 1 THEN None ELSE q[at - 1]
    BY <1>2
  <2>2. at - 1 \in 1 .. Len(q) /\ pr = q[at - 1]
    BY <1>0, <2>1, ItemsOf
  <2> QED BY <1>0, <2>2, ItemsOf
<1> HIDE DEF n, w, pr, q
<1>6. Distinct(w[l]) /\ ExactIn(n, w[l], l)
  <2>1. w[l] \in Seq(Items)
    BY <1>0, <1>2
  <2> QED BY <1>0, <1>1, <1>2, <1>3, <2>1, InsertedIn
<1>7. ASSUME NEW m \in Lists, m # l PROVE Distinct(w[m]) /\ ExactIn(n, w[m], m)
  <2>1. w[m] = o[m] /\ Distinct(o[m]) /\ ExactIn(k, o[m], m)
    BY <1>2, <1>7 DEF Exact
  <2>2. \A p \in DOMAIN o[m] : o[m][p] \in Items /\ o[m][p] # i /\ o[m][p] # before /\ o[m][p] # pr
    BY SMTT(30), <1>0, <1>4, <1>5, <1>7, ItemsOf
  <2>3. {j \in Items : n.list[j] = m} = {j \in Items : k.list[j] = m}
    BY <1>0, <1>1, <1>7 DEF PutIn, Links
  <2>4. ExactIn(n, o[m], m)
    BY <1>1, <1>7, <2>1, <2>2, <2>3 DEF ExactIn, PutIn
  <2> QED BY <2>1, <2>4
<1>8. Exact(n, w)
  BY <1>2, <1>6, <1>7 DEF Exact
<1> QED BY <1>8 DEF n, w

\* cut() takes the item out of the order and leaves the others.
LEMMA CutOrder ==
    ASSUME NEW k \in Links, NEW its, NEW i \in Items, Linked(k, its), k.list[i] # None,
           NEW o, Exact(k, o)
    PROVE  Exact(CutOut(k, i), Without(o, i))
<1> USE LinkedListAssumption
<1> DEFINE n == CutOut(k, i)
           w == Without(o, i)
           l == k.list[i]
           q == o[l]
<1>0. l \in Lists
  BY DEF Links
<1>1. TakenOut(k, n, i)
  BY CutPoints
<1>2. /\ w \in [Lists -> Seq(Items)]
      /\ \A m \in Lists : m # l => w[m] = o[m]
      /\ \E at \in 1 .. Len(q) : q[at] = i /\ OneLess(q, at, w[l])
  BY <1>0, OrderCut
<1>3. q \in Seq(Items) /\ Distinct(q) /\ ExactIn(k, q, l)
  BY <1>0 DEF Exact
<1>4. /\ k.previous[i] # None => k.previous[i] \in Items /\ k.list[k.previous[i]] = l
      /\ k.next[i] # None => k.next[i] \in Items /\ k.list[k.next[i]] = l
  BY <1>0 DEF Linked, ItemLinked, Links, ItemOrNone
<1> HIDE DEF n, w, q
<1>6. Distinct(w[l]) /\ ExactIn(n, w[l], l)
  <2>1. w[l] \in Seq(Items)
    BY <1>0, <1>2
  <2> QED BY <1>0, <1>1, <1>2, <1>3, <2>1, TakenOutIn
<1>7. ASSUME NEW m \in Lists, m # l PROVE Distinct(w[m]) /\ ExactIn(n, w[m], m)
  <2>1. w[m] = o[m] /\ Distinct(o[m]) /\ ExactIn(k, o[m], m)
    BY <1>2, <1>7 DEF Exact
  <2>2. \A p \in DOMAIN o[m] : /\ o[m][p] \in Items /\ o[m][p] # i
                               /\ o[m][p] # k.previous[i] /\ o[m][p] # k.next[i]
    BY <1>0, <1>4, <1>7, ItemsOf
  <2>3. {j \in Items : n.list[j] = m} = {j \in Items : k.list[j] = m}
    BY <1>0, <1>1, <1>7 DEF TakenOut, Links
  <2>4. /\ n.first[m] = k.first[m] /\ n.last[m] = k.last[m]
        /\ \A p \in DOMAIN o[m] : /\ n.next[o[m][p]] = k.next[o[m][p]]
                                 /\ n.previous[o[m][p]] = k.previous[o[m][p]]
    BY <1>1, <1>7, <2>2 DEF TakenOut
  <2>5. ExactIn(n, o[m], m)
    BY <2>1, <2>3, <2>4 DEF ExactIn
  <2> QED BY <2>1, <2>5
<1>8. Exact(n, w)
  BY <1>0, <1>2, <1>6, <1>7 DEF Exact
<1> QED BY <1>8 DEF n, w

\* cut() if the item is in a list.
LEMMA CutIfLinkedOrder ==
    ASSUME NEW k \in Links, NEW its, NEW i \in Items, Linked(k, its), NEW o, Exact(k, o),
           NEW n, n = IF k.list[i] = None THEN k ELSE CutOut(k, i)
    PROVE  Exact(n, Without(o, i))
<1>1. CASE k.list[i] = None
  BY <1>1, NothingCut
<1>2. CASE k.list[i] # None
  BY <1>2, CutOrder
<1> QED BY <1>1, <1>2

\* An item in a list has one position in it.
LEMMA OnePosition ==
    ASSUME NEW k, NEW o, Exact(k, o), NEW l \in Lists, NEW at \in 1 .. Len(o[l]), NEW p \in 1 .. Len(o[l]),
           o[l][at] = o[l][p]
    PROVE  at = p
BY ItemsOf DEF Exact, Distinct

\* insert() after the other item and cut() of it put the item at the other's place.
LEMMA ReplacedOrder ==
    ASSUME NEW k \in Links, NEW its, NEW i \in Items, NEW other \in Items,
           Linked(k, its), i \in its, k.list[i] = None, NEW o, Exact(k, o)
    PROVE  Exact(Replaced(k, i, other), OrderReplaced(o, i, other))
<1> USE LinkedListAssumption
<1>0. o \in [Lists -> Seq(Items)] /\ k.list \in [Items -> Lists \cup {None}]
  BY DEF Exact, Links
<1>1. CASE k.list[other] = None
  <2>1. ASSUME NEW l \in Lists
        PROVE  [p \in DOMAIN o[l] |-> IF o[l][p] = other THEN i ELSE o[l][p]] = o[l]
    <3>1. \A p \in DOMAIN o[l] : o[l][p] # other
      BY <1>1, ItemsOf
    <3>2. o[l] = [p \in DOMAIN o[l] |-> o[l][p]]
      BY <1>0, ItemsOf, LenProperties
    <3> QED BY <3>1, <3>2
  <2>2. OrderReplaced(o, i, other) = o
    BY <1>0, <2>1 DEF OrderReplaced
  <2> QED BY <1>1, <2>2 DEF Replaced
<1>2. CASE k.list[other] # None
  <2> DEFINE l == k.list[other]
             before == k.next[other]
             n == Inserted(k, l, i, before)
             q == o[l]
             v == WithBefore(o, l, i, before)
             w == Without(v, other)
             pr == IF before = None THEN k.last[l] ELSE k.previous[before]
  <2>0. l \in Lists /\ i # other
    BY <1>0, <1>2
  <2>1. CanInsert(k, its, l, i, before)
    BY <1>2 DEF CanInsert, Links, Linked, ItemLinked, ItemOrNone
  <2>2. n \in Links /\ Linked(n, its) /\ n.list = [k.list EXCEPT ![i] = l]
    BY <2>1, InsertedLinks
  <2>3. n.list[other] = l
    BY <2>0, <2>2, <1>0
  <2>4. Exact(n, v)
    BY <2>1, InsertedOrder
  <2>5. Exact(CutOut(n, other), w)
    BY <2>0, <2>2, <2>3, <2>4, CutOrder
  <2>6. PICK at \in 1 .. Len(q) + 1 : /\ OneMore(q, i, at, v[l])
                                      /\ before = IF at = Len(q) + 1 THEN None ELSE q[at]
    BY <2>1, OrderInserted
  <2>7. PICK x \in 1 .. Len(v[l]) : v[l][x] = other /\ OneLess(v[l], x, w[l])
    BY <2>0, <2>3, <2>4, OrderCut
  <2>8. /\ \A m \in Lists : m # l => v[m] = o[m]
        /\ \A m \in Lists : m # l => w[m] = v[m]
    <3>1. \A m \in Lists : m # l => v[m] = o[m]
      BY <2>1, OrderInserted
    <3>2. \A m \in Lists : m # l => w[m] = v[m]
      BY <2>0, <2>3, <2>4, OrderCut
    <3> QED BY <3>1, <3>2
  <2>9. w \in [Lists -> Seq(Items)]
    BY <2>5 DEF Exact
  <2> HIDE DEF v, w, n
  <2>u. /\ q \in Seq(Items) /\ Len(q) \in Nat /\ DOMAIN q = 1 .. Len(q) /\ Len(v[l]) = Len(q) + 1
        /\ w[l] \in Seq(Items) /\ Len(w[l]) = Len(q) /\ DOMAIN w[l] = 1 .. Len(q)
    <3>1. q \in Seq(Items) /\ Len(q) \in Nat /\ DOMAIN q = 1 .. Len(q)
      BY <2>0, ItemsOf
    <3>2. Len(v[l]) = Len(q) + 1 /\ Len(w[l]) = Len(v[l]) - 1
      BY <2>6, <2>7 DEF OneMore, OneLess
    <3>3. w[l] \in Seq(Items) /\ DOMAIN w[l] = 1 .. Len(w[l])
      BY <2>0, <2>9, LenProperties
    <3> QED BY <3>1, <3>2, <3>3
  <2>10. PICK y \in 1 .. Len(q) : q[y] = other
    BY <2>0, ItemsOf
  <2>11. at = y + 1
    <3>1. before = IF y = Len(q) THEN None ELSE q[y + 1]
      <4>1. ExactIn(k, q, l)
        BY <2>0 DEF Exact
      <4> QED BY <2>u, <2>10, <4>1 DEF ExactIn
    <3>2. \A p \in 1 .. Len(q) : q[p] # None
      BY <2>0, ItemsOf
    <3>3. CASE y = Len(q)
      <4>1. at \in 1 .. Len(q) => FALSE
        BY <2>6, <2>u, <3>1, <3>2, <3>3
      <4> QED BY <2>u, <3>3, <4>1
    <3>4. CASE y # Len(q)
      <4>1. y + 1 \in 1 .. Len(q)
        BY <2>u, <3>4
      <4>2. at # Len(q) + 1
        BY <2>6, <3>1, <3>2, <3>4, <4>1
      <4>3. at \in 1 .. Len(q)
        BY <2>u, <4>2
      <4>4. q[at] = q[y + 1]
        BY <2>6, <3>1, <3>4, <4>2
      <4> QED BY <2>0, <4>1, <4>3, <4>4, OnePosition
    <3> QED BY <3>3, <3>4
  <2>12. x = y
    <3>1. y \in 1 .. Len(v[l]) /\ v[l][y] = q[y]
      <4>1. y \in 1 .. Len(q) + 1 /\ y < at
        BY <2>u, <2>11
      <4> QED BY <2>6, <2>u, <4>1 DEF OneMore
    <3> QED BY <2>0, <2>4, <2>7, <2>10, <3>1, OnePosition
  <2>13. ASSUME NEW p \in 1 .. Len(q) PROVE w[l][p] = IF q[p] = other THEN i ELSE q[p]
    <3>u. y \in Nat /\ p \in Nat /\ p >= 1 /\ p <= Len(q)
      BY <2>u
    <3>0. w[l][p] = IF p < y THEN v[l][p] ELSE v[l][p + 1]
      <4>1. p \in 1 .. Len(v[l]) - 1
        BY <2>u
      <4> QED BY <2>7, <2>12, <4>1 DEF OneLess
    <3>1. q[p] = other <=> p = y
      BY <2>0, <2>10, OnePosition
    <3>2. CASE p < y
      <4>1. p \in 1 .. Len(q) + 1 /\ p < at /\ p # y
        BY <2>u, <2>11, <3>u, <3>2
      <4>2. v[l][p] = q[p]
        BY <2>6, <4>1 DEF OneMore
      <4> QED BY <3>0, <3>1, <3>2, <4>1, <4>2
    <3>3. CASE p = y
      <4>1. p + 1 \in 1 .. Len(q) + 1 /\ p + 1 = at /\ ~(p < y) /\ ~(p + 1 < at)
        BY <2>u, <2>11, <3>u, <3>3
      <4>2. v[l][p + 1] = i
        BY <2>6, <4>1 DEF OneMore
      <4> QED BY <3>0, <3>1, <3>3, <4>1, <4>2
    <3>4. CASE p > y
      <4>1. p + 1 \in 1 .. Len(q) + 1 /\ p + 1 # at /\ ~(p < y) /\ ~(p + 1 < at) /\ (p + 1) - 1 = p /\ p # y
        BY <2>u, <2>11, <3>u, <3>4
      <4>2. v[l][p + 1] = q[p]
        BY <2>6, <4>1 DEF OneMore
      <4> QED BY <3>0, <3>1, <4>1, <4>2
    <3>5. p < y \/ p = y \/ p > y
      BY <3>u
    <3> QED BY <3>2, <3>3, <3>4, <3>5
  <2>14. w[l] = [p \in DOMAIN q |-> IF q[p] = other THEN i ELSE q[p]]
    <3>1. w[l] = [p \in 1 .. Len(q) |-> w[l][p]]
      BY <2>u, LenProperties
    <3> QED BY <2>13, <2>u, <3>1
  <2>15. ASSUME NEW m \in Lists, m # l
         PROVE  w[m] = [p \in DOMAIN o[m] |-> IF o[m][p] = other THEN i ELSE o[m][p]]
    <3>1. \A p \in DOMAIN o[m] : o[m][p] # other
      BY <2>15, ItemsOf
    <3>2. o[m] = [p \in DOMAIN o[m] |-> o[m][p]]
      BY <1>0, ItemsOf, LenProperties
    <3>3. w[m] = o[m]
      BY <2>8, <2>15
    <3> QED BY <3>1, <3>2, <3>3
  <2>16. w = OrderReplaced(o, i, other)
    BY <2>9, <2>14, <2>15 DEF OrderReplaced
  <2>17. Replaced(k, i, other) = CutOut(n, other)
    BY <1>2 DEF Replaced, n
  <2> QED BY <2>5, <2>16, <2>17 DEF n, v, w
<1> QED BY <1>1, <1>2

\* An empty list has an empty order.
LEMMA EmptyOrder ==
    ASSUME NEW k, NEW o, Exact(k, o), NEW l \in Lists, k.first[l] = None
    PROVE  o[l] = <<>>
<1>1. o[l] # <<>> => 1 \in 1 .. Len(o[l])
  BY ItemsOf, EmptySeq
<1>2. o[l] # <<>> => k.first[l] = o[l][1]
  BY DEF Exact, ExactIn
<1> QED BY <1>1, <1>2, ItemsOf, LinkedListAssumption

\* A list takes over the items of another one in their order.
LEMMA AdoptedOrder ==
    ASSUME NEW k \in Links, NEW l \in Lists, NEW other \in Lists, l # other, k.first[l] = None,
           NEW o, Exact(k, o)
    PROVE  Exact(Adopted(k, l, other), [o EXCEPT ![l] = o[other], ![other] = <<>>])
<1> USE LinkedListAssumption
<1> DEFINE n == Adopted(k, l, other)
           w == [o EXCEPT ![l] = o[other], ![other] = <<>>]
<1>0. o \in [Lists -> Seq(Items)] /\ k.list \in [Items -> Lists \cup {None}]
  BY DEF Exact, Links
<1>n. /\ n.previous = k.previous /\ n.next = k.next
      /\ \A j \in Items : n.list[j] = IF k.list[j] = other THEN l ELSE k.list[j]
      /\ \A m \in Lists : n.first[m] = IF m = other THEN None ELSE IF m = l THEN k.first[other] ELSE k.first[m]
      /\ \A m \in Lists : n.last[m] = IF m = other THEN None ELSE IF m = l THEN k.last[other] ELSE k.last[m]
  BY DEF Adopted, Links, ItemOrNone
<1>w. /\ w \in [Lists -> Seq(Items)]
      /\ \A m \in Lists : w[m] = IF m = other THEN <<>> ELSE IF m = l THEN o[other] ELSE o[m]
  BY SMTT(30), <1>0
<1> HIDE DEF n, w
<1>1. o[l] = <<>>
  BY EmptyOrder
<1>2. \A j \in Items : k.list[j] # l
  BY <1>1, ItemsOf
<1>3. ASSUME NEW m \in Lists PROVE Distinct(w[m]) /\ ExactIn(n, w[m], m)
  <2>1. CASE m = other
    <3>1. {j \in Items : n.list[j] = m} = {}
      BY <1>n, <2>1
    <3>2. w[m] = <<>> /\ DOMAIN w[m] = {}
      BY <1>w, <2>1
    <3> QED BY <1>n, <2>1, <3>1, <3>2 DEF Distinct, ExactIn
  <2>2. CASE m = l
    <3>1. {j \in Items : n.list[j] = m} = {j \in Items : k.list[j] = other}
      BY <1>n, <1>2, <2>2
    <3>2. w[m] = o[other] /\ Distinct(o[other]) /\ ExactIn(k, o[other], other)
      BY <1>w, <2>2 DEF Exact
    <3>3. n.first[m] = k.first[other] /\ n.last[m] = k.last[other]
      BY <1>n, <2>2
    <3>4. ExactIn(n, o[other], m)
      BY <1>n, <3>1, <3>2, <3>3 DEF ExactIn
    <3> QED BY <3>2, <3>4
  <2>3. CASE m # l /\ m # other
    <3>1. {j \in Items : n.list[j] = m} = {j \in Items : k.list[j] = m}
      BY <1>n, <2>3
    <3>2. w[m] = o[m] /\ Distinct(o[m]) /\ ExactIn(k, o[m], m)
      BY <1>w, <2>3 DEF Exact
    <3> QED BY <1>n, <2>3, <3>1, <3>2 DEF ExactIn
  <2> QED BY <2>1, <2>2, <2>3
<1>4. Exact(n, w)
  BY <1>w, <1>3 DEF Exact
<1> QED BY <1>4 DEF n, w

LEMMA ExactInit == ListInit => Exact(links, order)
BY LinkedListAssumption DEF ListInit, Exact, ExactIn, Distinct

\* Every operation keeps the order with the links.
LEMMA ExactNext ==
    ASSUME ListInv, Exact(links, order), [ListNext]_listVars
    PROVE  Exact(links, order)'
<1> USE LinkedListAssumption
<1>0. links \in Links /\ items \subseteq Items /\ Linked(links, items) /\ clears \in Seq(Frames)
  BY DEF ListInv, LinksAgree
<1>c. ASSUME links' = links, order' = order PROVE Exact(links, order)'
  BY <1>c DEF Exact, ExactIn, Distinct
<1>d. ASSUME Exact(links', order') PROVE Exact(links, order)'
  BY <1>d
<1>1. ASSUME NEW i \in Items, ConstructItem(i) PROVE Exact(links, order)'
  BY <1>1, <1>c DEF ConstructItem
<1>2. ASSUME NEW l \in Lists, NEW i \in Items, NEW before \in ItemOrNone, InsertItem(l, i, before)
      PROVE  Exact(links, order)'
  <2>1. CanInsert(links, items, l, i, before)
    BY <1>0, <1>2 DEF InsertItem, CanInsert, ItemOrNone
  <2> QED BY <2>1, <1>2, <1>d, InsertedOrder DEF InsertItem
<1>3. ASSUME NEW i \in Items, Cut(i) PROVE Exact(links, order)'
  BY <1>0, <1>3, <1>d, CutOrder DEF Cut
<1>4. ASSUME NEW i \in Items, NEW before \in ItemOrNone, Move(i, before) PROVE Exact(links, order)'
  <2> DEFINE k == CutOut(links, i)
  <2>1. k \in Links /\ Linked(k, items) /\ k.list = [links.list EXCEPT ![i] = None]
    BY <1>0, <1>4, CutLinks DEF Move
  <2>2. Exact(k, Without(order, i))
    BY <1>0, <1>4, CutOrder DEF Move
  <2> HIDE DEF k
  <2>3. CanInsert(k, items, links.list[i], i, before)
    BY <2>1, <1>0, <1>4 DEF Move, CanInsert, ItemOrNone, Links
  <2> QED BY <2>2, <2>3, <1>4, <1>d, InsertedOrder DEF Move, k
<1>5. ASSUME NEW i \in Items, DestroyItem(i) PROVE Exact(links, order)'
  BY <1>0, <1>5, <1>d, CutIfLinkedOrder DEF DestroyItem
<1>6. ASSUME NEW i \in Items, NEW other \in Items, MoveConstructItem(i, other) PROVE Exact(links, order)'
  <2>1. Linked(links, items') /\ links.list[i] = None /\ i \in items'
    BY <1>0, <1>6, OtherItems DEF MoveConstructItem, Linked, ItemLinked
  <2> QED BY <2>1, <1>0, <1>6, <1>d, ReplacedOrder DEF MoveConstructItem
<1>7. ASSUME NEW i \in Items, NEW other \in Items, MoveAssignItem(i, other) PROVE Exact(links, order)'
  <2> DEFINE k == IF links.list[i] = None THEN links ELSE CutOut(links, i)
  <2>1. k \in Links /\ Linked(k, items) /\ k.list[i] = None
    BY <1>0, CutIfLinked
  <2>2. Exact(k, Without(order, i))
    BY <1>0, CutIfLinkedOrder
  <2> HIDE DEF k
  <2>3. Exact(Replaced(k, i, other), OrderReplaced(Without(order, i), i, other))
    BY <2>1, <2>2, <1>7, ReplacedOrder DEF MoveAssignItem
  <2> QED BY <2>3, <1>7, <1>d DEF MoveAssignItem, k
<1>8. ASSUME NEW l \in Lists, NEW other \in Lists, MoveConstructList(l, other) PROVE Exact(links, order)'
  BY <1>0, <1>8, <1>d, AdoptedOrder DEF MoveConstructList
<1>9. ASSUME NEW l \in Lists, NEW then \in Lists \cup {None}, Clear(l, then) PROVE Exact(links, order)'
  BY <1>9, <1>c DEF Clear
<1>10. CASE EraseNext
  BY <1>10, <1>c DEF EraseNext
<1>11. CASE EraseReturns
  <2>1. Top.erased \in Items
    BY <1>0, <1>11, TopFrame DEF EraseReturns, Calls, Frames, ItemOrNone
  <2> QED BY <2>1, <1>0, <1>11, <1>d, CutIfLinkedOrder DEF EraseReturns
<1>12. CASE ClearReturns
  <2> DEFINE l == Top.list
             then == Top.then
             lost == then # None /\ links.first[l] # None
  <2>1. clears # <<>> /\ l \in Lists /\ then \in Lists \cup {None}
    BY <1>0, <1>12, TopFrame DEF ClearReturns, Looping, Frames
  <2>2. CASE lost
    BY <2>2, <1>12, <1>c DEF ClearReturns
  <2>3. CASE ~lost
    <3>1. CASE then = None
      BY <2>3, <3>1, <1>12, <1>c DEF ClearReturns
    <3>2. CASE then # None /\ then = l
      <4>1. links' = links
        BY <2>1, <2>3, <3>2, <1>0, <1>12, AdoptedSelf DEF ClearReturns
      <4>2. order[l] = <<>>
        BY <2>1, <2>3, <3>2, EmptyOrder
      <4>3. [order EXCEPT ![l] = order[l], ![l] = <<>>] = order
        BY <2>1, <4>2 DEF Exact
      <4>4. order' = order
        BY <2>3, <3>2, <4>3, <1>12 DEF ClearReturns
      <4> QED BY <4>1, <4>4, <1>c
    <3>3. CASE then # None /\ then # l
      <4>1. then \in Lists /\ links.first[l] = None
        BY <2>1, <2>3, <3>3
      <4>2. Exact(Adopted(links, l, then), [order EXCEPT ![l] = order[then], ![then] = <<>>])
        BY <4>1, <2>1, <3>3, <1>0, AdoptedOrder
      <4> QED BY <4>2, <2>3, <3>3, <1>12, <1>d DEF ClearReturns
    <3> QED BY <3>1, <3>2, <3>3
  <2> QED BY <2>2, <2>3
<1>13. CASE UNCHANGED listVars
  BY <1>13, <1>c DEF listVars
<1> QED BY <1>1, <1>2, <1>3, <1>4, <1>5, <1>6, <1>7, <1>8, <1>9, <1>10, <1>11, <1>12, <1>13 DEF ListNext

(***************************************************************************)
(* From either end of a list the links pass exactly the items that the     *)
(* calls put there, in their order, and these items exist, whatever the    *)
(* destructors of erased items call, disturbing clear() or not, up to the  *)
(* step that fails (LinkedList::insert(), cut(), move(), erase(), clear()  *)
(* and the moves of items and lists).                                      *)
(***************************************************************************)
THEOREM OrderAlwaysExact == ListSpec => []OrderExact
<1> DEFINE OrderInv == ListInv /\ Exact(links, order)
<1>1. ListInit => OrderInv
  BY ListInvInit, ExactInit
<1>2. OrderInv /\ [ListNext]_listVars => OrderInv'
  BY ListInvNext, ExactNext
<1>3. OrderInv => OrderExact
  <2> SUFFICES ASSUME OrderInv PROVE OrderExact
    OBVIOUS
  <2>1. ASSUME NEW l \in Lists, NEW p \in DOMAIN order[l] PROVE order[l][p] \in items
    <3>1. order[l][p] \in Items /\ links.list[order[l][p]] = l
      BY ItemsOf
    <3> QED BY <3>1, LinkedListAssumption DEF ListInv, LinksAgree, Linked, ItemLinked
  <2>2. ASSUME NEW i \in Items, links.list[i] = None PROVE links.next[i] = None /\ links.previous[i] = None
    BY <2>2 DEF ListInv, LinksAgree, Linked, ItemLinked
  <2> QED BY <2>1, <2>2 DEF Exact, ExactIn, OrderExact
<1> QED BY <1>1, <1>2, <1>3, PTL DEF ListSpec

-----------------------------------------------------------------------------
(***************************************************************************)
(* clear() while destructors act.  A frame that is not disturbed holds the *)
(* item that comes next in the order of its list.  The calls of others     *)
(* keep that or mark the frame; that the loop itself keeps it is proved    *)
(* about sequences: what came after the erased item is the first one when  *)
(* the item is gone.                                                       *)
(***************************************************************************)
Quiet(fs, d, o) == \A k \in 1 .. Len(fs) : k \notin d => Awaits(fs, k, o)

ClearsInv ==
    /\ disturbed \subseteq DOMAIN clears
    /\ Quiet(clears, disturbed, order)
    /\ fault # "none" => clears # <<>> /\ Len(clears) \in disturbed

\* A frame that is watched is as it should be, or marked.
LEMMA Watched ==
    ASSUME NEW n \in Nat, Watch(n), clears' \in Seq(Frames)
    PROVE  /\ disturbed' \subseteq DOMAIN clears'
           /\ disturbed' \subseteq disturbed \cup 1 .. n
           /\ \A k \in 1 .. Len(clears') : k \in disturbed => k \in disturbed'
           /\ \A k \in 1 .. Len(clears') : k <= n /\ k \notin disturbed' => Awaits(clears', k, order')
<1>1. DOMAIN clears' = 1 .. Len(clears') /\ Len(clears') \in Nat
  BY LenProperties
<1> QED BY <1>1 DEF Watch

\* A step that leaves the loops alone.
LEMMA CallsOnQuiet ==
    ASSUME clears \in Seq(Frames), ClearsInv, fault = "none", CallsOn
    PROVE  ClearsInv'
<1>1. clears' = clears /\ fault' = "none" /\ Watch(Len(clears)) /\ Len(clears) \in Nat
  BY LenProperties DEF CallsOn
<1>2. disturbed' \subseteq DOMAIN clears' /\ Quiet(clears', disturbed', order')
  BY <1>1, Watched DEF Quiet
<1> QED BY <1>1, <1>2 DEF ClearsInv

\* The first item of a list, and the one after it.
LEMMA FirstOf ==
    ASSUME NEW k \in Links, NEW its, NEW o, Linked(k, its), Exact(k, o), NEW l \in Lists, o[l] # <<>>
    PROVE  /\ o[l][1] \in Items /\ o[l][1] \in its /\ k.list[o[l][1]] = l
           /\ k.next[o[l][1]] = IF Len(o[l]) = 1 THEN None ELSE o[l][2]
           /\ 1 \in DOMAIN o[l]
<1>1. /\ Len(o[l]) \in Nat /\ Len(o[l]) # 0 /\ DOMAIN o[l] = 1 .. Len(o[l])
  BY ItemsOf, EmptySeq
<1>2. 1 \in DOMAIN o[l]
  BY <1>1
<1>3. o[l][1] \in Items /\ k.list[o[l][1]] = l
  BY <1>2, ItemsOf
<1>4. o[l][1] \in its
  BY <1>3, LinkedListAssumption DEF Linked, ItemLinked
<1>5. k.next[o[l][1]] = IF 1 = Len(o[l]) THEN None ELSE o[l][1 + 1]
  BY <1>2 DEF Exact, ExactIn
<1> QED BY <1>2, <1>3, <1>4, <1>5

\* What comes after an item in its destructor is the first one once it is gone.
LEMMA ComingNext ==
    ASSUME NEW k \in Links, NEW o, Exact(k, o), NEW l \in Lists, NEW i \in Items,
           NEW w, w = Without(o, i)
    PROVE  /\ Coming(w[l], None) = Coming(o[l], i)
           /\ \A p \in DOMAIN w[l] : \E x \in DOMAIN o[l] : w[l][p] = o[l][x]
<1> USE LinkedListAssumption
<1>0. /\ o[l] \in Seq(Items) /\ Len(o[l]) \in Nat /\ DOMAIN o[l] = 1 .. Len(o[l])
      /\ o[l] # <<>> => Len(o[l]) # 0 /\ 1 \in DOMAIN o[l] /\ o[l][1] # None
      /\ Len(o[l]) # 0 => o[l] # <<>>
  <2>1. /\ o[l] \in Seq(Items) /\ Len(o[l]) \in Nat /\ DOMAIN o[l] = 1 .. Len(o[l])
        /\ \A p \in DOMAIN o[l] : o[l][p] \in Items
    BY ItemsOf
  <2>2. o[l] # <<>> <=> Len(o[l]) # 0
    BY <2>1, EmptySeq
  <2> QED BY <2>1, <2>2
<1>1. CASE k.list[i] # l
  <2>1. \A p \in DOMAIN o[l] : o[l][p] # i
    BY <1>1, ItemsOf
  <2>2. w[l] = o[l]
    BY <2>1 DEF Without
  <2> QED BY <1>0, <2>1, <2>2 DEF Coming
<1>2. CASE k.list[i] = l
  <2>1. PICK at \in 1 .. Len(o[l]) : o[l][at] = i /\ OneLess(o[l], at, w[l])
    BY <1>2, OrderCut
  <2>2. w[l] \in Seq(Items)
    BY <1>2, OrderCut
  <2>3. /\ Len(w[l]) = Len(o[l]) - 1 /\ DOMAIN w[l] = 1 .. Len(w[l])
        /\ w[l] = <<>> <=> Len(w[l]) = 0
    BY <2>1, <2>2, EmptySeq, LenProperties DEF OneLess
  <2>4. ASSUME NEW p \in DOMAIN w[l] PROVE \E r \in DOMAIN o[l] : w[l][p] = o[l][r]
    <3>1. p \in 1 .. Len(o[l]) - 1 /\ p \in 1 .. Len(o[l]) /\ p + 1 \in 1 .. Len(o[l])
      BY <1>0, <2>3
    <3>2. w[l][p] = IF p < at THEN o[l][p] ELSE o[l][p + 1]
      BY <2>1, <3>1 DEF OneLess
    <3> QED BY <1>0, <3>1, <3>2
  <2>5. Len(o[l]) # 0 /\ o[l] # <<>>
    BY <1>0, <2>1
  <2>6. CASE Len(o[l]) = 1
    <3>1. w[l] = <<>> /\ at = 1
      BY <2>1, <2>3, <2>6
    <3> QED BY <2>1, <2>4, <2>5, <2>6, <3>1 DEF Coming
  <2>7. CASE Len(o[l]) # 1
    <3>1. 1 \in 1 .. Len(o[l]) - 1 /\ w[l] # <<>> /\ 1 \in DOMAIN w[l]
      BY <1>0, <2>3, <2>5, <2>7
    <3>2. w[l][1] = IF 1 < at THEN o[l][1] ELSE o[l][1 + 1]
      BY <2>1, <3>1 DEF OneLess
    <3>3. w[l][1] # None
      BY <2>2, <3>1, ElementOfSeq, <2>3
    <3>4. Coming(w[l], None) = w[l][1]
      BY <3>1, <3>3 DEF Coming
    <3>5. 1 < at <=> o[l][1] # i
      <4>1. at # 1 => o[l][1] # i
        BY <1>0, <2>1, <2>5, OnePosition
      <4> QED BY <2>1, <4>1
    <3>6. Coming(o[l], i) = IF o[l][1] # i THEN o[l][1] ELSE o[l][2]
      BY <2>5, <2>7 DEF Coming
    <3> QED BY <2>4, <3>2, <3>4, <3>5, <3>6
  <2> QED BY <2>6, <2>7
<1> QED BY <1>1, <1>2

\* What the loop does with an item that it may trust.
LEMMA TrustedFrame ==
    ASSUME NEW k \in Links, NEW its, Linked(k, its), NEW o, Exact(k, o),
           NEW fs, NEW n, DOMAIN fs = 1 .. n, NEW t, t = fs[n], t.list \in Lists, t.erased = None,
           Awaits(fs, n, o)
    PROVE  /\ t.next = None <=> o[t.list] = <<>>
           /\ t.next # None =>
                /\ t.next \in its /\ k.list[t.next] = t.list /\ \A m \in 1 .. n : fs[m].erased # t.next
                /\ k.next[t.next] = Coming(o[t.list], t.next)
<1> USE LinkedListAssumption
<1>1. PICK q : q = o[t.list]
  OBVIOUS
<1>2. /\ t.next = Coming(q, None)
      /\ \A m \in 1 .. n : m # n => \A p \in DOMAIN q : q[p] # fs[m].erased
  BY <1>1 DEF Awaits
<1>3. CASE q = <<>>
  BY <1>1, <1>2, <1>3 DEF Coming
<1>4. CASE q # <<>>
  <2>1. /\ q[1] \in Items /\ q[1] \in its /\ k.list[q[1]] = t.list /\ 1 \in DOMAIN q
        /\ k.next[q[1]] = IF Len(q) = 1 THEN None ELSE q[2]
    BY <1>1, <1>4, FirstOf
  <2>2. q[1] # None /\ t.next = q[1]
    BY <1>2, <1>4, <2>1 DEF Coming
  <2>3. \A m \in 1 .. n : fs[m].erased # q[1]
    BY <1>2, <2>1, <2>2
  <2>4. k.next[q[1]] = Coming(q, q[1])
    BY <1>4, <2>1 DEF Coming
  <2> QED BY <1>1, <1>4, <2>1, <2>2, <2>3, <2>4
<1> QED BY <1>3, <1>4

\* The frame when the destructor of the next item begins.
LEMMA FrameErases ==
    ASSUME NEW o, NEW fs, NEW n, DOMAIN fs = 1 .. n, Awaits(fs, n, o),
           NEW gs, DOMAIN gs = 1 .. n, \A m \in 1 .. n : m # n => gs[m] = fs[m],
           gs[n].list = fs[n].list, gs[n].next = Coming(o[fs[n].list], gs[n].erased)
    PROVE  Awaits(gs, n, o)
<1>0. PICK t, f : t = fs[n] /\ f = gs[n]
  OBVIOUS
<1>t. f.list = t.list /\ f.next = Coming(o[t.list], f.erased)
  BY <1>0
<1>1. \A m \in DOMAIN fs \ {n} : \A p \in DOMAIN o[t.list] : o[t.list][p] # fs[m].erased
  BY <1>0 DEF Awaits
<1>2. \A m \in DOMAIN gs \ {n} : \A p \in DOMAIN o[t.list] : o[t.list][p] # gs[m].erased
  BY <1>1
<1> QED BY <1>0, <1>t, <1>2 DEF Awaits

\* The frame when the item is gone.
LEMMA FrameErased ==
    ASSUME NEW k \in Links, NEW o, Exact(k, o),
           NEW fs, NEW n, DOMAIN fs = 1 .. n, fs[n].list \in Lists, fs[n].erased \in Items,
           Awaits(fs, n, o),
           NEW gs, DOMAIN gs = 1 .. n, \A m \in 1 .. n : m # n => gs[m] = fs[m],
           gs[n].list = fs[n].list, gs[n].erased = None, gs[n].next = fs[n].next
    PROVE  Awaits(gs, n, Without(o, fs[n].erased))
<1>0. PICK t, f, w : t = fs[n] /\ f = gs[n] /\ w = Without(o, t.erased)
  OBVIOUS
<1>t. t.list \in Lists /\ t.erased \in Items /\ f.list = t.list /\ f.erased = None /\ f.next = t.next
  BY <1>0
<1>1. PICK q : q = o[t.list]
  OBVIOUS
<1>2. PICK r : r = w[t.list]
  OBVIOUS
<1>3. Coming(r, None) = Coming(q, t.erased) /\ \A p \in DOMAIN r : \E x \in DOMAIN q : r[p] = q[x]
  <2>1. PICK l \in Lists, j \in Items : l = t.list /\ j = t.erased
    BY <1>t
  <2>2. w = Without(o, j)
    BY <1>0, <2>1
  <2>3. Coming(w[l], None) = Coming(o[l], j) /\ \A p \in DOMAIN w[l] : \E x \in DOMAIN o[l] : w[l][p] = o[l][x]
    BY <2>2, ComingNext
  <2>4. r = w[l] /\ q = o[l]
    BY <1>1, <1>2, <2>1
  <2> QED BY <2>1, <2>3, <2>4
<1>4. t.next = Coming(q, t.erased) /\ \A m \in DOMAIN fs \ {n} : \A p \in DOMAIN q : q[p] # fs[m].erased
  BY <1>0, <1>1 DEF Awaits
<1>5. ASSUME NEW m \in DOMAIN gs \ {n}, NEW p \in DOMAIN r PROVE r[p] # gs[m].erased
  <2>1. gs[m] = fs[m] /\ m \in DOMAIN fs \ {n}
    OBVIOUS
  <2>2. PICK x \in DOMAIN q : r[p] = q[x]
    BY <1>3
  <2> QED BY <1>4, <2>1, <2>2
<1>6. f.next = Coming(r, f.erased)
  BY <1>3, <1>4, <1>t
<1> QED BY <1>0, <1>t, <1>2, <1>5, <1>6 DEF Awaits

\* The next item of the innermost clear().
LEMMA TrustedNext ==
    ASSUME ListInv, Exact(links, order), ClearsInv, Looping, Len(clears) \notin disturbed
    PROVE  /\ Top.next = None <=> order[Top.list] = <<>>
           /\ Top.next # None =>
                /\ Top.next \in items /\ links.list[Top.next] = Top.list /\ ~Destructing(Top.next)
                /\ links.next[Top.next] = Coming(order[Top.list], Top.next)
<1>0. links \in Links /\ Linked(links, items) /\ clears \in Seq(Frames) /\ clears # <<>>
  BY DEF ListInv, LinksAgree, Looping
<1>1. PICK n : n = Len(clears)
  OBVIOUS
<1>2. PICK t : t = Top
  OBVIOUS
<1>3. t.list \in Lists /\ t.erased = None /\ t = clears[n] /\ n \in 1 .. n /\ DOMAIN clears = 1 .. n
  BY <1>0, <1>1, <1>2, TopFrame, LenProperties DEF Frames, Top, Looping
<1>4. Awaits(clears, n, order)
  BY <1>1, <1>3 DEF ClearsInv, Quiet
<1>5. /\ t.next = None <=> order[t.list] = <<>>
      /\ t.next # None =>
           /\ t.next \in items /\ links.list[t.next] = t.list /\ \A m \in 1 .. n : clears[m].erased # t.next
           /\ links.next[t.next] = Coming(order[t.list], t.next)
  BY <1>0, <1>3, <1>4, TrustedFrame
<1>6. (\A m \in 1 .. n : clears[m].erased # t.next) => ~Destructing(t.next)
  BY <1>3 DEF Destructing
<1> QED BY <1>2, <1>5, <1>6

LEMMA ClearsInvInit == ListInit => ClearsInv
BY EmptySeq DEF ListInit, ClearsInv, Quiet

\* Every call keeps the frames right or marks them, and the loop keeps its own right.
LEMMA ClearsInvNext ==
    ASSUME ListInv, Exact(links, order), ClearsInv, [ListNext]_listVars
    PROVE  ClearsInv'
<1> USE LinkedListAssumption
<1>0. /\ links \in Links /\ Linked(links, items) /\ clears \in Seq(Frames)
      /\ Len(clears) \in Nat /\ DOMAIN clears = 1 .. Len(clears)
  BY LenProperties DEF ListInv, LinksAgree
<1>s. clears' \in Seq(Frames)
  BY ListInvNext DEF ListInv
<1>1. ASSUME NEW i \in Items, ConstructItem(i) PROVE ClearsInv'
  BY <1>0, <1>1, CallsOnQuiet DEF ConstructItem, Calls
<1>2. ASSUME NEW l \in Lists, NEW i \in Items, NEW before \in ItemOrNone, InsertItem(l, i, before)
      PROVE  ClearsInv'
  BY <1>0, <1>2, CallsOnQuiet DEF InsertItem, Calls
<1>3. ASSUME NEW i \in Items, Cut(i) PROVE ClearsInv'
  BY <1>0, <1>3, CallsOnQuiet DEF Cut, Calls
<1>4. ASSUME NEW i \in Items, NEW before \in ItemOrNone, Move(i, before) PROVE ClearsInv'
  BY <1>0, <1>4, CallsOnQuiet DEF Move, Calls
<1>5. ASSUME NEW i \in Items, DestroyItem(i) PROVE ClearsInv'
  BY <1>0, <1>5, CallsOnQuiet DEF DestroyItem, Calls
<1>6. ASSUME NEW i \in Items, NEW other \in Items, MoveConstructItem(i, other) PROVE ClearsInv'
  BY <1>0, <1>6, CallsOnQuiet DEF MoveConstructItem, Calls
<1>7. ASSUME NEW i \in Items, NEW other \in Items, MoveAssignItem(i, other) PROVE ClearsInv'
  BY <1>0, <1>7, CallsOnQuiet DEF MoveAssignItem, Calls
<1>8. ASSUME NEW l \in Lists, NEW other \in Lists, MoveConstructList(l, other) PROVE ClearsInv'
  BY <1>0, <1>8, CallsOnQuiet DEF MoveConstructList, Calls
<1>9. ASSUME NEW l \in Lists, NEW then \in Lists \cup {None}, Clear(l, then) PROVE ClearsInv'
  <2>1. Watch(Len(clears')) /\ fault' = "none" /\ Len(clears') \in Nat
    BY <1>9, <1>s, LenProperties DEF Clear, Calls
  <2> QED BY <2>1, <1>s, Watched DEF ClearsInv, Quiet
<1>10. CASE EraseNext
  <2> DEFINE n == Len(clears)
             i == Top.next
             f == [Top EXCEPT !.erased = i, !.next = links.next[i]]
  <2>1. /\ Looping /\ clears # <<>> /\ Top \in Frames /\ n \in 1 .. n /\ n - 1 \in Nat
        /\ Top = clears[n] /\ i \in Items /\ Top.list \in Lists
    BY <1>0, <1>10, TopFrame DEF EraseNext, Looping, Frames, ItemOrNone, Top
  <2>2. Watch(n - 1) /\ order' = order
    BY <1>10 DEF EraseNext
  <2>3. CASE fault' # "none"
    <3>1. clears' = clears
      BY <1>10, <2>3 DEF EraseNext
    <3>2. n \in disturbed
      <4> SUFFICES ASSUME n \notin disturbed PROVE FALSE
        OBVIOUS
      <4>1. i \in items /\ links.list[i] = Top.list /\ ~Destructing(i)
        BY <2>1, TrustedNext, <1>10 DEF EraseNext
      <4> QED BY <4>1, <1>10, <2>3 DEF EraseNext
    <3>3. n \in disturbed'
      BY <1>s, <2>1, <2>2, <3>1, <3>2, Watched
    <3>4. ASSUME NEW k \in 1 .. n, k \notin disturbed' PROVE Awaits(clears', k, order')
      <4>1. k <= n - 1
        BY <2>1, <3>3, <3>4
      <4> QED BY <1>s, <2>1, <2>2, <3>1, <3>4, <4>1, Watched
    <3>5. disturbed' \subseteq DOMAIN clears'
      BY <1>s, <2>1, <2>2, Watched
    <3> QED BY <2>1, <3>1, <3>3, <3>4, <3>5 DEF ClearsInv, Quiet
  <2>4. CASE fault' = "none"
    <3>1. clears' = [clears EXCEPT ![n] = f]
      BY <1>10, <2>4 DEF EraseNext, Top
    <3>2. f \in Frames /\ f.list = Top.list /\ f.erased = i /\ f.next = links.next[i]
      BY <2>1, <1>0 DEF Frames, Links, ItemOrNone
    <3>3. Len(clears') = n /\ clears'[n] = f /\ \A k \in 1 .. n : k # n => clears'[k] = clears[k]
      BY <1>0, <2>1, <3>1, <3>2, OtherTop
    <3>4. ASSUME n \notin disturbed' PROVE Awaits(clears', n, order')
      <4>1. n \notin disturbed
        BY <1>s, <2>1, <2>2, <3>3, <3>4, Watched
      <4>2. links.next[i] = Coming(order[Top.list], i)
        BY <2>1, <4>1, TrustedNext, <1>10 DEF EraseNext
      <4>3. Awaits(clears, n, order)
        BY <2>1, <4>1 DEF ClearsInv, Quiet
      <4>4. DOMAIN clears' = 1 .. n
        BY <1>s, <3>3, LenProperties
      <4>5. PICK t, g : t = Top /\ g = f
        OBVIOUS
      <4>6. g = clears'[n] /\ g.list = t.list /\ g.next = Coming(order[t.list], g.erased) /\ t = clears[n]
        BY <2>1, <3>2, <3>3, <4>2, <4>5
      <4>7. Awaits(clears', n, order)
        <5>1. PICK o, fs, gs, c : o = order /\ fs = clears /\ gs = clears' /\ c = n
          OBVIOUS
        <5>2. DOMAIN fs = 1 .. c /\ Awaits(fs, c, o) /\ DOMAIN gs = 1 .. c
          BY <5>1, <1>0, <4>3, <4>4
        <5>3. gs[c].list = fs[c].list /\ gs[c].next = Coming(o[fs[c].list], gs[c].erased)
          BY <5>1, <4>6
        <5>4. \A m \in 1 .. c : m # c => gs[m] = fs[m]
          BY <5>1, <3>3
        <5>5. Awaits(gs, c, o)
          BY <5>2, <5>3, <5>4, FrameErases
        <5> QED BY <5>1, <5>5
      <4> QED BY <2>2, <4>7
    <3>5. ASSUME NEW k \in 1 .. n, k \notin disturbed' PROVE Awaits(clears', k, order')
      <4>1. k = n \/ k <= n - 1
        BY <2>1
      <4> QED BY <1>s, <2>1, <2>2, <3>3, <3>4, <3>5, <4>1, Watched
    <3>6. disturbed' \subseteq DOMAIN clears'
      BY <1>s, <2>1, <2>2, Watched
    <3> QED BY <2>4, <3>3, <3>5, <3>6 DEF ClearsInv, Quiet
  <2> QED BY <2>3, <2>4
<1>11. CASE EraseReturns
  <2> DEFINE n == Len(clears)
             i == Top.erased
             f == [Top EXCEPT !.erased = None]
  <2>1. /\ clears # <<>> /\ Top \in Frames /\ n \in 1 .. n /\ n - 1 \in Nat
        /\ Top = clears[n] /\ i \in Items /\ Top.list \in Lists
    BY <1>0, <1>11, TopFrame DEF EraseReturns, Calls, Frames, ItemOrNone, Top
  <2>2. Watch(n - 1) /\ order' = Without(order, i) /\ fault' = "none" /\ clears' = [clears EXCEPT ![n] = f]
    BY <1>11 DEF EraseReturns, Calls, Top
  <2>3. f \in Frames /\ f.list = Top.list /\ f.erased = None /\ f.next = Top.next
    BY <2>1 DEF Frames, ItemOrNone
  <2>4. Len(clears') = n /\ clears'[n] = f /\ \A k \in 1 .. n : k # n => clears'[k] = clears[k]
    BY <1>0, <2>1, <2>2, <2>3, OtherTop
  <2>5. ASSUME n \notin disturbed' PROVE Awaits(clears', n, order')
    <3>1. n \notin disturbed
      BY <1>s, <2>1, <2>2, <2>4, <2>5, Watched
    <3>2. Awaits(clears, n, order)
      BY <2>1, <3>1 DEF ClearsInv, Quiet
    <3>3. PICK t, g, w : t = Top /\ g = f /\ w = Without(order, t.erased)
      OBVIOUS
    <3>4. /\ t = clears[n] /\ t.list \in Lists /\ t.erased \in Items
          /\ g = clears'[n] /\ g.list = t.list /\ g.erased = None /\ g.next = t.next
          /\ w = Without(order, t.erased)
      BY <2>1, <2>3, <2>4, <3>3
    <3>7. \A m \in 1 .. n : m # n => clears'[m] = clears[m]
      BY <2>4
    <3>5. DOMAIN clears' = 1 .. n
      BY <1>s, <2>4, LenProperties
    <3>6. Awaits(clears', n, w)
      <4>1. PICK k, o, fs, gs, c : k = links /\ o = order /\ fs = clears /\ gs = clears' /\ c = n
        OBVIOUS
      <4>2. k \in Links /\ Exact(k, o) /\ DOMAIN fs = 1 .. c /\ Awaits(fs, c, o) /\ DOMAIN gs = 1 .. c
        BY <4>1, <1>0, <3>2, <3>5
      <4>3. /\ t = fs[c] /\ t.list \in Lists /\ t.erased \in Items /\ w = Without(o, t.erased)
            /\ g = gs[c] /\ g.list = t.list /\ g.erased = None /\ g.next = t.next
        BY <4>1, <3>4
      <4>4. \A m \in 1 .. c : m # c => gs[m] = fs[m]
        BY <4>1, <3>7
      <4>5. Awaits(gs, c, Without(o, fs[c].erased))
        BY <4>2, <4>3, <4>4, FrameErased
      <4> QED BY <4>1, <4>3, <4>5
    <3> QED BY <2>2, <3>3, <3>6
  <2>6. ASSUME NEW k \in 1 .. n, k \notin disturbed' PROVE Awaits(clears', k, order')
    <3>1. k = n \/ k <= n - 1
      BY <2>1
    <3> QED BY <1>s, <2>1, <2>2, <2>4, <2>5, <2>6, <3>1, Watched
  <2>7. disturbed' \subseteq DOMAIN clears'
    BY <1>s, <2>1, <2>2, Watched
  <2> QED BY <2>2, <2>4, <2>6, <2>7 DEF ClearsInv, Quiet
<1>12. CASE ClearReturns
  <2> DEFINE n == Len(clears)
             lost == Top.then # None /\ links.first[Top.list] # None
  <2>1. /\ Looping /\ clears # <<>> /\ Top \in Frames /\ n \in 1 .. n /\ n - 1 \in Nat
        /\ Top = clears[n] /\ Top.list \in Lists
    BY <1>0, <1>12, TopFrame DEF ClearReturns, Looping, Frames, Top
  <2>2. Watch(n - 1)
    BY <1>12 DEF ClearReturns
  <2>7. disturbed' \subseteq DOMAIN clears'
    BY <1>s, <2>1, <2>2, Watched
  <2>3. CASE lost
    <3>1. clears' = clears
      BY <1>12, <2>3 DEF ClearReturns
    <3>2. n \in disturbed
      <4> SUFFICES ASSUME n \notin disturbed PROVE FALSE
        OBVIOUS
      <4>1. order[Top.list] = <<>>
        BY <2>1, TrustedNext, <1>12 DEF ClearReturns
      <4>2. links.first[Top.list] = None
        BY <2>1, <4>1 DEF Exact, ExactIn
      <4> QED BY <2>3, <4>2
    <3>3. n \in disturbed'
      BY <1>s, <2>1, <2>2, <3>1, <3>2, Watched
    <3>4. ASSUME NEW k \in 1 .. n, k \notin disturbed' PROVE Awaits(clears', k, order')
      <4>1. k <= n - 1
        BY <2>1, <3>3, <3>4
      <4> QED BY <1>s, <2>1, <2>2, <3>1, <3>4, <4>1, Watched
    <3> QED BY <2>1, <2>7, <3>1, <3>3, <3>4 DEF ClearsInv, Quiet
  <2>4. CASE ~lost
    <3>1. clears' = SubSeq(clears, 1, n - 1) /\ fault' = "none"
      BY <1>12, <2>4 DEF ClearReturns, Looping
    <3>2. Len(clears') = n - 1
      BY <1>0, <2>1, <3>1, SubSeqProperties
    <3>3. ASSUME NEW k \in 1 .. n - 1, k \notin disturbed' PROVE Awaits(clears', k, order')
      BY <1>s, <2>1, <2>2, <3>2, <3>3, Watched
    <3> QED BY <2>7, <3>1, <3>2, <3>3 DEF ClearsInv, Quiet
  <2> QED BY <2>3, <2>4
<1>13. CASE UNCHANGED listVars
  BY <1>13 DEF listVars, ClearsInv, Quiet, Awaits
<1> QED BY <1>1, <1>2, <1>3, <1>4, <1>5, <1>6, <1>7, <1>8, <1>9, <1>10, <1>11, <1>12, <1>13 DEF ListNext

(***************************************************************************)
(* Destructors may call anything while clear() erases their items, on this *)
(* or other lists, clear() included and to any depth: as long as none of   *)
(* them changes what comes next in a list being cleared, the loop meets    *)
(* only items of its list that exist and are not being destroyed, and it   *)
(* leaves the list empty (LinkedList::clear(), erase(), operator=() and    *)
(* ~LinkedList()).                                                         *)
(***************************************************************************)
THEOREM ClearsAlwaysSound == ListSpec => []ClearsSound
<1> DEFINE Inv == ListInv /\ Exact(links, order) /\ ClearsInv
<1>1. ListInit => Inv
  BY ListInvInit, ExactInit, ClearsInvInit
<1>2. Inv /\ [ListNext]_listVars => Inv'
  BY ListInvNext, ExactNext, ClearsInvNext
<1>3. Inv => ClearsSound
  BY TrustedNext DEF ClearsInv, ClearsSound
<1> QED BY <1>1, <1>2, <1>3, PTL DEF ListSpec

-----------------------------------------------------------------------------
\* GrowableArray.

\* a has these cells, this size and deleter, and no operation on it was a fault.
Arr(a, cells, size, growable) ==
    /\ DOMAIN a = {"cells", "size", "growable", "fault"}
    /\ a.cells = cells
    /\ a.size = size
    /\ a.growable = growable
    /\ a.fault \in BOOLEAN
    /\ ~a.fault

\* Some of the cells replaced by those of g.
Under(cells, g) == [p \in DOMAIN cells |-> IF p \in DOMAIN g THEN g[p] ELSE cells[p]]

\* One more cell replaced.
LEMMA UnderOneMore ==
    ASSUME NEW cells, NEW g, NEW h, NEW p \in DOMAIN cells, NEW v,
           DOMAIN h = DOMAIN g \cup {p}, h[p] = v, \A q \in DOMAIN g : q # p => h[q] = g[q]
    PROVE  [Under(cells, g) EXCEPT ![p] = v] = Under(cells, h)
  BY DEF Under

\* Construct() into a raw cell is no fault and changes that cell alone.
LEMMA Constructed ==
    ASSUME NEW a, NEW cells, NEW size, NEW growable, Arr(a, cells, size, growable),
           NEW p \in DOMAIN cells, cells[p] = Raw, NEW v
    PROVE  Arr(Construct(a, p, v), [cells EXCEPT ![p] = v], size, growable)
  BY DEF Construct, Arr, IsRaw

\* Destruct() of an element is no fault and leaves its cell raw.
LEMMA Destructed ==
    ASSUME NEW a, NEW cells, NEW size, NEW growable, Arr(a, cells, size, growable),
           NEW p \in DOMAIN cells, cells[p] # Raw
    PROVE  Arr(Destruct(a, p), [cells EXCEPT ![p] = Raw], size, growable)
  BY DEF Destruct, Arr, IsElement

\* Moving an element to a cell fit for it is no fault.
LEMMA MovedWithin ==
    ASSUME NEW a, NEW cells, NEW size, NEW growable, Arr(a, cells, size, growable),
           NEW src \in DOMAIN cells, NEW dst \in DOMAIN cells, cells[src] # Raw, NEW wasFit, wasFit
    PROVE  Arr(MoveWithin(a, src, dst, wasFit), [cells EXCEPT ![dst] = cells[src], ![src] = Moved], size, growable)
  BY DEF MoveWithin, Arr, IsElement

\* to with the elements from another memory moved to its raw cells.
Transfers(from, to, src, dst, count, result) ==
    /\ DOMAIN to \in SUBSET Int
    /\ to \in [DOMAIN to -> Cell]
    /\ result \in [DOMAIN to -> Cell]
    /\ src \in Int /\ dst \in Int /\ count \in Int
    /\ \A k \in 0 .. count - 1 : /\ src + k \in DOMAIN from /\ from[src + k] # Raw
                                 /\ dst + k \in DOMAIN to /\ to[dst + k] = Raw
                                 /\ result[dst + k] = from[src + k]
    /\ \A p \in DOMAIN to : p \notin dst .. dst + count - 1 => result[p] = to[p]

\* arrayMoveConstruct() of elements into raw cells of other memory.
LEMMA MoveConstructed ==
    ASSUME NEW a, NEW from, NEW fromSize, NEW fromGrowable, Arr(a, from, fromSize, fromGrowable),
           NEW b, NEW to, NEW size, NEW growable, Arr(b, to, size, growable),
           NEW src, NEW dst, NEW count, NEW result,
           Transfers(from, to, src, dst, count, result)
    PROVE  Arr(MoveConstruct(a, b, src, dst, count), result, size, growable)
<1> USE DEF Transfers
<1> DEFINE dom == DOMAIN to
<1>1. \A k \in 0 .. count - 1 : IsElement(a, src + k) /\ IsRaw(b, dst + k)
  BY DEF IsElement, IsRaw, Arr
<1>2. [p \in dom |-> IF p \in dst .. dst + count - 1 THEN from[src + p - dst] ELSE to[p]] = result
  <2>1. ASSUME NEW p \in dom, p \in dst .. dst + count - 1 PROVE result[p] = from[src + p - dst]
    <3>1. p - dst \in 0 .. count - 1 /\ dst + (p - dst) = p /\ src + (p - dst) = src + p - dst
      BY <2>1
    <3> QED BY <3>1
  <2> QED BY <2>1
<1> QED BY <1>1, <1>2 DEF MoveConstruct, Arr


\* Construct() where none of the replaced cells is.
LEMMA ConstructedUnder ==
    ASSUME NEW a, NEW cells, NEW g, NEW size, NEW growable, Arr(a, Under(cells, g), size, growable),
           NEW p \in DOMAIN cells, cells[p] = Raw, p \notin DOMAIN g, NEW v, NEW h,
           DOMAIN h = DOMAIN g \cup {p}, h[p] = v, \A q \in DOMAIN g : h[q] = g[q]
    PROVE  Arr(Construct(a, p, v), Under(cells, h), size, growable)
<1> DEFINE was == Under(cells, g)
<1>1. p \in DOMAIN was /\ was[p] = Raw
  BY DEF Under
<1>2. [was EXCEPT ![p] = v] = Under(cells, h)
  BY UnderOneMore
<1> HIDE DEF was
<1>3. Arr(a, was, size, growable)
  BY DEF was
<1> QED BY <1>1, <1>2, <1>3, Constructed

\* Destruct() where none of the replaced cells is.
LEMMA DestructedUnder ==
    ASSUME NEW a, NEW cells, NEW g, NEW size, NEW growable, Arr(a, Under(cells, g), size, growable),
           NEW p \in DOMAIN cells, cells[p] # Raw, p \notin DOMAIN g, NEW h,
           DOMAIN h = DOMAIN g \cup {p}, h[p] = Raw, \A q \in DOMAIN g : h[q] = g[q]
    PROVE  Arr(Destruct(a, p), Under(cells, h), size, growable)
<1> DEFINE was == Under(cells, g)
<1>1. p \in DOMAIN was /\ was[p] # Raw
  BY DEF Under
<1>2. [was EXCEPT ![p] = Raw] = Under(cells, h)
  BY UnderOneMore
<1> HIDE DEF was
<1>3. Arr(a, was, size, growable)
  BY DEF was
<1> QED BY <1>1, <1>2, <1>3, Destructed

\* The first k of a sequence of places.
Before(places, k) == {places[j] : j \in 1 .. k}

\* The first k places are the first k - 1 and another one.
LEMMA PieceDone ==
    ASSUME NEW places, NEW n \in Nat, NEW k \in 1 .. n,
           \A j, m \in 1 .. n : places[j] = places[m] => j = m
    PROVE  /\ Before(places, k) = Before(places, k - 1) \cup {places[k]}
           /\ places[k] \notin Before(places, k - 1)
<1>1. 1 .. k = (1 .. k - 1) \cup {k}
  OBVIOUS
<1> QED BY <1>1 DEF Before


\* A step of CopyOutside(), and what holds after k of them.
CopyAt(c, b, k) == Construct(b, c.at + k - 1, c.values[k])

Copied(c, b, k) ==
    Arr(b, Under(c.cells, [p \in c.at .. c.at + k - 1 |-> c.values[p - c.at + 1]]), c.size, c.growable)

\* CopyOutside() as a fold.
Copy == INSTANCE FoldFacts WITH Op <- CopyAt, Holds <- Copied

\* The values in the raw cells from the given one on.
Copies(cells, at, values, result) ==
    /\ DOMAIN cells \in SUBSET Int
    /\ cells \in [DOMAIN cells -> Cell]
    /\ result \in [DOMAIN cells -> Cell]
    /\ at \in Int
    /\ Len(values) \in Nat
    /\ \A p \in at .. at + Len(values) - 1 :
          p \in DOMAIN cells /\ cells[p] = Raw /\ result[p] = values[p - at + 1]
    /\ \A p \in DOMAIN cells : p \notin at .. at + Len(values) - 1 => result[p] = cells[p]

\* CopyOutside() constructs into cells that are raw.
LEMMA CopiedOutside ==
    ASSUME NEW a, NEW cells, NEW size, NEW growable, Arr(a, cells, size, growable),
           NEW at, NEW values, NEW result, Copies(cells, at, values, result)
    PROVE  Arr(CopyOutside(a, at, values), result, size, growable)
<1> USE DEF Copies
<1> DEFINE dom == DOMAIN cells
           n == Len(values)
<1> DEFINE c == [at |-> at, values |-> values, cells |-> cells, size |-> size, growable |-> growable]
           s == Upwards(1, Len(values))
<1>1. CopyOutside(a, at, values) = Copy!Fold(c, a, s)
  BY DEF CopyOutside, CopyAt, FoldLeft, MapThenFoldSet, Max,
         Copy!Fold, Copy!FoldLeft, Copy!MapThenFoldSet, Copy!Max
<1>2. DOMAIN s = 1 .. n /\ \A k \in 1 .. n : s[k] = k
  BY DEF Upwards
<1>3. Copied(c, a, 0)
  <2>1. Under(cells, [p \in at .. at + 0 - 1 |-> values[p - at + 1]]) = cells
    BY DEF Under
  <2> QED BY <2>1 DEF Copied
<1>4. ASSUME NEW k \in 1 .. n, NEW acc, Copied(c, acc, k - 1) PROVE Copied(c, CopyAt(c, acc, s[k]), k)
  <2> DEFINE g == [p \in at .. at + (k - 1) - 1 |-> values[p - at + 1]]
             h == [p \in at .. at + k - 1 |-> values[p - at + 1]]
             p0 == at + k - 1
  <2>1. Arr(acc, Under(cells, g), size, growable)
    BY <1>4 DEF Copied
  <2>2. p0 \in DOMAIN cells /\ cells[p0] = Raw /\ p0 \notin DOMAIN g
    OBVIOUS
  <2>3. DOMAIN h = DOMAIN g \cup {p0} /\ h[p0] = values[k] /\ \A q \in DOMAIN g : h[q] = g[q]
    <3>1. DOMAIN h = DOMAIN g \cup {p0}
      OBVIOUS
    <3>2. p0 - at + 1 = k
      OBVIOUS
    <3> QED BY <3>1, <3>2
  <2>4. CopyAt(c, acc, s[k]) = Construct(acc, p0, values[k])
    BY <1>2 DEF CopyAt
  <2> HIDE DEF g, h, p0
  <2>5. Arr(Construct(acc, p0, values[k]), Under(cells, h), size, growable)
    BY <2>1, <2>2, <2>3, ConstructedUnder
  <2> QED BY <2>4, <2>5 DEF Copied, h
<1> HIDE DEF s
<1>5. Copied(c, Copy!Fold(c, a, s), n)
  BY <1>2, <1>3, <1>4, Copy!FoldInvariant
<1>6. Under(cells, [p \in at .. at + n - 1 |-> values[p - at + 1]]) = result
  BY DEF Under
<1> QED BY <1>1, <1>5, <1>6 DEF Copied

\* A step of DestructEach(), and what holds after k of them.
DestructAt(c, b, p) == Destruct(b, p)

DestructedTo(c, b, k) == Arr(b, Under(c.cells, [p \in Before(c.places, k) |-> Raw]), c.size, c.growable)

\* DestructEach() as a fold.
Destroy == INSTANCE FoldFacts WITH Op <- DestructAt, Holds <- DestructedTo

\* The elements in some places destructed.
Destructs(cells, places, n, result) ==
    /\ cells \in [DOMAIN cells -> Cell]
    /\ result \in [DOMAIN cells -> Cell]
    /\ n \in Nat
    /\ DOMAIN places = 1 .. n
    /\ \A j, m \in 1 .. n : places[j] = places[m] => j = m
    /\ \A k \in 1 .. n : places[k] \in DOMAIN cells /\ cells[places[k]] # Raw
    /\ \A p \in DOMAIN cells : result[p] = IF p \in Before(places, n) THEN Raw ELSE cells[p]

\* DestructEach() of places with elements leaves these raw.
LEMMA DestructedEach ==
    ASSUME NEW a, NEW cells, NEW size, NEW growable, Arr(a, cells, size, growable),
           NEW places, NEW n, NEW result, Destructs(cells, places, n, result)
    PROVE  Arr(DestructEach(a, places), result, size, growable)
<1> USE DEF Destructs
<1> DEFINE c == [cells |-> cells, places |-> places, size |-> size, growable |-> growable]
<1>1. DestructEach(a, places) = Destroy!Fold(c, a, places)
  BY DEF DestructEach, DestructAt, FoldLeft, MapThenFoldSet, Max,
         Destroy!Fold, Destroy!FoldLeft, Destroy!MapThenFoldSet, Destroy!Max
<1>2. DestructedTo(c, a, 0)
  <2>1. Under(cells, [p \in Before(places, 0) |-> Raw]) = cells
    BY DEF Under, Before
  <2> QED BY <2>1 DEF DestructedTo
<1>3. ASSUME NEW k \in 1 .. n, NEW acc, DestructedTo(c, acc, k - 1) PROVE DestructedTo(c, DestructAt(c, acc, places[k]), k)
  <2> DEFINE g == [p \in Before(places, k - 1) |-> Raw]
             h == [p \in Before(places, k) |-> Raw]
             p0 == places[k]
  <2>1. Arr(acc, Under(cells, g), size, growable)
    BY <1>3 DEF DestructedTo
  <2>2. p0 \in DOMAIN cells /\ cells[p0] # Raw
    OBVIOUS
  <2>3. Before(places, k) = Before(places, k - 1) \cup {p0} /\ p0 \notin Before(places, k - 1)
    BY PieceDone
  <2>4. p0 \notin DOMAIN g /\ DOMAIN h = DOMAIN g \cup {p0} /\ h[p0] = Raw /\ \A q \in DOMAIN g : h[q] = g[q]
    BY <2>3
  <2> HIDE DEF g, h, p0
  <2>5. Arr(Destruct(acc, p0), Under(cells, h), size, growable)
    BY <2>1, <2>2, <2>4, DestructedUnder
  <2> QED BY <2>5 DEF DestructedTo, DestructAt, h, p0
<1>4. DestructedTo(c, Destroy!Fold(c, a, places), n)
  BY <1>2, <1>3, Destroy!FoldInvariant
<1>5. Under(cells, [p \in Before(places, n) |-> Raw]) = result
  BY DEF Under
<1> QED BY <1>1, <1>4, <1>5 DEF DestructedTo

-----------------------------------------------------------------------------

\* The elements in some places, all of them moved that many cells further.
Shifted(cells, places, by) ==
    [p \in DOMAIN cells |-> CASE p - by \in places -> cells[p - by]
                              [] p - by \notin places /\ p \in places -> Moved
                              [] OTHER -> cells[p]]

\* One more element moved, whose old and new cells no move before touched.
LEMMA MovedOneMore ==
    ASSUME NEW a, NEW dom \in SUBSET Int, NEW cells \in [dom -> Cell], NEW size, NEW growable, NEW S \in SUBSET Int,
           NEW by \in Int, by # 0, Arr(a, Shifted(cells, S, by), size, growable),
           NEW p \in dom, p + by \in dom, p \notin S, p - by \notin S, cells[p] # Raw, NEW wasFit, wasFit
    PROVE  Arr(MoveWithin(a, p, p + by, wasFit), Shifted(cells, S \cup {p}, by), size, growable)
<1> DEFINE was == Shifted(cells, S, by)
           to == p + by
           T == S \cup {p}
<1>1. DOMAIN was = dom /\ was[p] = cells[p]
  BY DEF Shifted
<1>2. [was EXCEPT ![to] = was[p], ![p] = Moved] = Shifted(cells, T, by)
  <2>1. ASSUME NEW q \in dom PROVE [was EXCEPT ![to] = was[p], ![p] = Moved][q] = Shifted(cells, T, by)[q]
    <3>1. CASE q = p
      BY <1>1, <3>1 DEF Shifted
    <3>2. CASE q = to
      BY <1>1, <3>2 DEF Shifted
    <3>3. CASE q # p /\ q # to
      <4>1. (q - by \in T <=> q - by \in S) /\ (q \in T <=> q \in S)
        BY <3>3
      <4>2. was[q] = Shifted(cells, T, by)[q]
        BY <4>1 DEF Shifted
      <4> HIDE DEF was
      <4> QED BY <3>3, <4>2, <1>1
    <3> QED BY <3>1, <3>2, <3>3
  <2>2. Shifted(cells, T, by) = [q \in dom |-> Shifted(cells, T, by)[q]]
    BY DEF Shifted
  <2> HIDE DEF was, T
  <2>3. was = [q \in dom |-> was[q]]
    BY DEF was, Shifted
  <2> QED BY <1>1, <2>1, <2>2, <2>3
<1>3. p \in DOMAIN was /\ to \in DOMAIN was /\ was[p] # Raw
  BY <1>1
<1>4. Arr(a, was, size, growable)
  OBVIOUS
<1> HIDE DEF was, to, T
<1>5. Arr(MoveWithin(a, p, to, wasFit), [was EXCEPT ![to] = was[p], ![p] = Moved], size, growable)
  BY <1>3, <1>4, MovedWithin
<1> QED BY <1>2, <1>5 DEF to, T

\* Places that can be moved from one after another: an element that is not moved
\* over before it is.
CanMove(dom, cells, places, n, by) ==
    /\ dom \in SUBSET Int
    /\ cells \in [dom -> Cell]
    /\ by \in Int /\ by # 0
    /\ DOMAIN places = 1 .. n
    /\ \A k \in 1 .. n : places[k] \in dom /\ cells[places[k]] # Raw /\ places[k] + by \in dom
    /\ \A j, m \in 1 .. n : places[j] = places[m] => j = m
    /\ \A j, m \in 1 .. n : places[m] = places[j] + by => m < j

\* Steps of MoveConstructEach() and MoveAssignEach(), and what holds after k of them.
MoveConstructAt(c, b, p) == MoveWithin(b, p, p + c.by, IsRaw(b, p + c.by))

MoveAssignAt(c, b, p) == MoveWithin(b, p, p + c.by, IsElement(b, p + c.by))

MovedTo(c, b, k) == Arr(b, Shifted(c.cells, Before(c.places, k), c.by), c.size, c.growable)

\* MoveConstructEach() as a fold.
Build == INSTANCE FoldFacts WITH Op <- MoveConstructAt, Holds <- MovedTo

\* MoveAssignEach() as a fold.
Assign == INSTANCE FoldFacts WITH Op <- MoveAssignAt, Holds <- MovedTo

\* Before the first move nothing is shifted.
LEMMA MovesStart ==
    ASSUME NEW dom, NEW cells, NEW places, NEW n \in Nat, NEW by, CanMove(dom, cells, places, n, by)
    PROVE  Shifted(cells, Before(places, 0), by) = cells
  BY DEF Shifted, Before, CanMove

\* Each move adds its place to those shifted.
LEMMA MovesStep ==
    ASSUME NEW dom, NEW cells, NEW places, NEW n \in Nat, NEW by, CanMove(dom, cells, places, n, by),
           NEW size, NEW growable, NEW k \in 1 .. n, NEW a,
           Arr(a, Shifted(cells, Before(places, k - 1), by), size, growable), NEW wasFit, wasFit
    PROVE  Arr(MoveWithin(a, places[k], places[k] + by, wasFit), Shifted(cells, Before(places, k), by), size, growable)
<1> DEFINE S == Before(places, k - 1)
           p == places[k]
<1>0. \A j \in 1 .. n : places[j] \in Int
  BY DEF CanMove
<1>1. S \in SUBSET Int /\ p \in dom /\ p + by \in dom /\ cells[p] # Raw /\ by \in Int /\ by # 0
  <2>1. S \in SUBSET Int
    BY <1>0 DEF Before
  <2> QED BY <2>1 DEF CanMove
<1>2. p \notin S /\ Before(places, k) = S \cup {p}
  BY PieceDone DEF CanMove
<1>3. p - by \notin S
  <2> SUFFICES ASSUME NEW j \in 1 .. k - 1, p - by = places[j] PROVE FALSE
    BY DEF Before
  <2>1. places[k] = places[j] + by
    BY <1>0, <1>1
  <2> QED BY <2>1 DEF CanMove
<1> HIDE DEF S, p
<1>4. Arr(a, Shifted(cells, S, by), size, growable)
  BY DEF S
<1>5. dom \in SUBSET Int /\ cells \in [dom -> Cell]
  BY DEF CanMove
<1>6. Arr(MoveWithin(a, p, p + by, wasFit), Shifted(cells, S \cup {p}, by), size, growable)
  BY <1>1, <1>2, <1>3, <1>4, <1>5, MovedOneMore
<1> QED BY <1>2, <1>6 DEF p

\* MoveConstructEach() to cells that are raw.
LEMMA MoveConstructedEach ==
    ASSUME NEW a, NEW dom, NEW cells, NEW size, NEW growable, Arr(a, cells, size, growable),
           NEW n \in Nat, NEW places, NEW by, CanMove(dom, cells, places, n, by),
           \A k \in 1 .. n : cells[places[k] + by] = Raw
    PROVE  Arr(MoveConstructEach(a, places, by), Shifted(cells, Before(places, n), by), size, growable)
<1> DEFINE c == [cells |-> cells, places |-> places, by |-> by, size |-> size, growable |-> growable]
<1>1. MoveConstructEach(a, places, by) = Build!Fold(c, a, places)
  BY DEF MoveConstructEach, MoveConstructAt, FoldLeft, MapThenFoldSet, Max,
         Build!Fold, Build!FoldLeft, Build!MapThenFoldSet, Build!Max
<1>2. MovedTo(c, a, 0)
  BY MovesStart DEF MovedTo
<1>3. ASSUME NEW k \in 1 .. n, NEW acc, MovedTo(c, acc, k - 1) PROVE MovedTo(c, MoveConstructAt(c, acc, places[k]), k)
  <2>1. Arr(acc, Shifted(cells, Before(places, k - 1), by), size, growable)
    BY <1>3 DEF MovedTo
  <2>2. IsRaw(acc, places[k] + by)
    <3> DEFINE to == places[k] + by
               S == Before(places, k - 1)
    <3>1. to \in dom /\ cells[to] = Raw /\ cells \in [dom -> Cell] /\ to - by = places[k]
      <4>1. places[k] \in Int /\ by \in Int
        BY DEF CanMove
      <4>2. to - by = places[k]
        BY <4>1
      <4> QED BY <4>2 DEF CanMove
    <3>2. to - by \notin S
      BY <3>1, PieceDone DEF CanMove
    <3>3. to \notin S
      <4> SUFFICES ASSUME NEW j \in 1 .. k - 1, to = places[j] PROVE FALSE
        BY DEF Before
      <4>1. cells[places[j]] # Raw
        BY DEF CanMove
      <4> QED BY <4>1, <3>1
    <3> HIDE DEF to, S
    <3>4. Shifted(cells, S, by)[to] = Raw /\ to \in DOMAIN Shifted(cells, S, by)
      BY <3>1, <3>2, <3>3 DEF Shifted
    <3>5. acc.cells = Shifted(cells, S, by)
      BY <2>1 DEF Arr, S
    <3> QED BY <3>4, <3>5 DEF IsRaw, to
  <2>3. Arr(MoveWithin(acc, places[k], places[k] + by, IsRaw(acc, places[k] + by)),
            Shifted(cells, Before(places, k), by), size, growable)
    BY <2>1, <2>2, MovesStep
  <2> QED BY <2>3 DEF MovedTo, MoveConstructAt
<1>4. MovedTo(c, Build!Fold(c, a, places), n)
  <2>1. DOMAIN places = 1 .. n
    BY DEF CanMove
  <2> QED BY <1>2, <1>3, <2>1, Build!FoldInvariant
<1> QED BY <1>1, <1>4 DEF MovedTo

\* MoveAssignEach() to cells with elements, moved away or not.
LEMMA MoveAssignedEach ==
    ASSUME NEW a, NEW dom, NEW cells, NEW size, NEW growable, Arr(a, cells, size, growable),
           NEW n \in Nat, NEW places, NEW by, CanMove(dom, cells, places, n, by),
           \A k \in 1 .. n : cells[places[k] + by] # Raw
    PROVE  Arr(MoveAssignEach(a, places, by), Shifted(cells, Before(places, n), by), size, growable)
<1> DEFINE c == [cells |-> cells, places |-> places, by |-> by, size |-> size, growable |-> growable]
<1>1. MoveAssignEach(a, places, by) = Assign!Fold(c, a, places)
  BY DEF MoveAssignEach, MoveAssignAt, FoldLeft, MapThenFoldSet, Max,
         Assign!Fold, Assign!FoldLeft, Assign!MapThenFoldSet, Assign!Max
<1>2. MovedTo(c, a, 0)
  BY MovesStart DEF MovedTo
<1>3. ASSUME NEW k \in 1 .. n, NEW acc, MovedTo(c, acc, k - 1) PROVE MovedTo(c, MoveAssignAt(c, acc, places[k]), k)
  <2>1. Arr(acc, Shifted(cells, Before(places, k - 1), by), size, growable)
    BY <1>3 DEF MovedTo
  <2>2. IsElement(acc, places[k] + by)
    <3> DEFINE to == places[k] + by
               S == Before(places, k - 1)
    <3>1. to \in dom /\ cells[to] # Raw /\ cells \in [dom -> Cell] /\ to - by = places[k]
      <4>1. places[k] \in Int /\ by \in Int
        BY DEF CanMove
      <4>2. to - by = places[k]
        BY <4>1
      <4> QED BY <4>2 DEF CanMove
    <3>2. to - by \notin S
      BY <3>1, PieceDone DEF CanMove
    <3> HIDE DEF to, S
    <3>4. Shifted(cells, S, by)[to] # Raw /\ to \in DOMAIN Shifted(cells, S, by)
      BY <3>1, <3>2, GrowableArrayAssumption DEF Shifted
    <3>5. acc.cells = Shifted(cells, S, by)
      BY <2>1 DEF Arr, S
    <3> QED BY <3>4, <3>5 DEF IsElement, to
  <2>3. Arr(MoveWithin(acc, places[k], places[k] + by, IsElement(acc, places[k] + by)),
            Shifted(cells, Before(places, k), by), size, growable)
    BY <2>1, <2>2, MovesStep
  <2> QED BY <2>3 DEF MovedTo, MoveAssignAt
<1>4. MovedTo(c, Assign!Fold(c, a, places), n)
  <2>1. DOMAIN places = 1 .. n
    BY DEF CanMove
  <2> QED BY <1>2, <1>3, <2>1, Assign!FoldInvariant
<1> QED BY <1>1, <1>4 DEF MovedTo


\* A step of CopyOwn(), and what holds after k of them.
CopyOwnAt(c, b, k) ==
    IF c.offset + k \notin DOMAIN b.cells \/ b.cells[c.offset + k] = Raw THEN [b EXCEPT !.fault = TRUE]
    ELSE Construct(b, c.at + k, b.cells[c.offset + k])

CopiedOwn(c, b, k) ==
    Arr(b, Under(c.cells, [p \in c.at .. c.at + k - 1 |-> c.cells[c.offset + p - c.at]]), c.size, c.growable)

\* CopyOwn() as a fold.
CopyAgain == INSTANCE FoldFacts WITH Op <- CopyOwnAt, Holds <- CopiedOwn

\* The elements at the offset again in the raw cells from the given one on.
CopiesOwn(cells, at, offset, count, result) ==
    /\ DOMAIN cells \in SUBSET Int
    /\ cells \in [DOMAIN cells -> Cell]
    /\ result \in [DOMAIN cells -> Cell]
    /\ at \in Int /\ offset \in Int /\ count \in Nat
    /\ \A k \in 0 .. count - 1 : /\ at + k \in DOMAIN cells /\ cells[at + k] = Raw
                                 /\ offset + k \in DOMAIN cells /\ cells[offset + k] # Raw
                                 /\ result[at + k] = cells[offset + k]
    /\ \A p \in DOMAIN cells : p \notin at .. at + count - 1 => result[p] = cells[p]

\* CopyOwn() of elements into cells that are raw.
LEMMA CopiedWithin ==
    ASSUME NEW a, NEW cells, NEW size, NEW growable, Arr(a, cells, size, growable),
           NEW at, NEW offset, NEW count, NEW result, CopiesOwn(cells, at, offset, count, result)
    PROVE  Arr(CopyOwn(a, at, offset, count), result, size, growable)
<1> USE DEF CopiesOwn
<1> DEFINE dom == DOMAIN cells
<1> DEFINE c == [at |-> at, offset |-> offset, cells |-> cells, size |-> size, growable |-> growable]
           s == Upwards(0, count)
<1>1. CopyOwn(a, at, offset, count) = CopyAgain!Fold(c, a, s)
  BY DEF CopyOwn, CopyOwnAt, FoldLeft, MapThenFoldSet, Max,
         CopyAgain!Fold, CopyAgain!FoldLeft, CopyAgain!MapThenFoldSet, CopyAgain!Max
<1>2. DOMAIN s = 1 .. count /\ \A k \in 1 .. count : s[k] = k - 1
  BY DEF Upwards
<1>3. CopiedOwn(c, a, 0)
  <2>1. Under(cells, [p \in at .. at + 0 - 1 |-> cells[offset + p - at]]) = cells
    BY DEF Under
  <2> QED BY <2>1 DEF CopiedOwn
<1>4. ASSUME NEW k \in 1 .. count, NEW acc, CopiedOwn(c, acc, k - 1) PROVE CopiedOwn(c, CopyOwnAt(c, acc, s[k]), k)
  <2> DEFINE g == [p \in at .. at + (k - 1) - 1 |-> cells[offset + p - at]]
             h == [p \in at .. at + k - 1 |-> cells[offset + p - at]]
             p0 == at + (k - 1)
             from == offset + (k - 1)
  <2>1. Arr(acc, Under(cells, g), size, growable)
    BY <1>4 DEF CopiedOwn
  <2>2. k - 1 \in 0 .. count - 1
    OBVIOUS
  <2>3. p0 \in DOMAIN cells /\ cells[p0] = Raw /\ p0 \notin DOMAIN g
    BY <2>2
  <2>4. from \in DOMAIN cells /\ cells[from] # Raw
    BY <2>2
  <2>5. from \notin DOMAIN g
    <3> SUFFICES ASSUME from \in at .. at + (k - 1) - 1 PROVE FALSE
      OBVIOUS
    <3>1. from - at \in 0 .. count - 1 /\ at + (from - at) = from
      OBVIOUS
    <3>2. cells[from] = Raw
      BY <3>1
    <3> QED BY <3>2, <2>4
  <2>6. DOMAIN h = DOMAIN g \cup {p0} /\ h[p0] = cells[from] /\ \A q \in DOMAIN g : h[q] = g[q]
    <3>1. DOMAIN h = DOMAIN g \cup {p0} /\ offset + p0 - at = from
      OBVIOUS
    <3> QED BY <3>1
  <2> HIDE DEF g, h, p0, from
  <2>7. from \in DOMAIN acc.cells /\ acc.cells[from] = cells[from]
    BY <2>1, <2>4, <2>5 DEF Arr, Under
  <2>8. CopyOwnAt(c, acc, s[k]) = Construct(acc, p0, cells[from])
    BY <1>2, <2>4, <2>7 DEF CopyOwnAt, p0, from
  <2>9. Arr(Construct(acc, p0, cells[from]), Under(cells, h), size, growable)
    BY <2>1, <2>3, <2>6, ConstructedUnder
  <2> QED BY <2>8, <2>9 DEF CopiedOwn, h
<1> HIDE DEF s
<1>5. CopiedOwn(c, CopyAgain!Fold(c, a, s), count)
  BY <1>2, <1>3, <1>4, CopyAgain!FoldInvariant
<1>6. Under(cells, [p \in at .. at + count - 1 |-> cells[offset + p - at]]) = result
  <2>1. ASSUME NEW p \in dom, p \in at .. at + count - 1 PROVE result[p] = cells[offset + p - at]
    <3>1. p - at \in 0 .. count - 1 /\ at + (p - at) = p /\ offset + (p - at) = offset + p - at
      BY <2>1
    <3> QED BY <3>1
  <2> QED BY <2>1 DEF Under
<1> QED BY <1>1, <1>5, <1>6 DEF CopiedOwn

-----------------------------------------------------------------------------

\* Memory with the elements of q, and the rest raw.
Row(cap, q) == [p \in 0 .. cap - 1 |-> IF p < Len(q) THEN q[p + 1] ELSE Raw]

\* The same with count raw cells at the index.
Gap(cap, q, index, count) ==
    [p \in 0 .. cap - 1 |-> CASE p < index -> q[p + 1]
                              [] p >= index + count /\ p < Len(q) + count -> q[p - count + 1]
                              [] OTHER -> Raw]

\* The array is whole and holds the elements of q.
Whole(a, cap, q, growable) ==
    /\ q \in Seq(Values)
    /\ cap \in Nat
    /\ growable \in BOOLEAN
    /\ Len(q) <= cap
    /\ ~growable => cap = Len(q)
    /\ Arr(a, Row(cap, q), Len(q), growable)

\* The inductive invariant: the array is whole, with some capacity, and holds q.
Sound(a, q) == \E cap, growable : Whole(a, cap, q, growable)

\* The same with count raw cells at the index that its size counts already.
Opened(a, q, index, count) ==
    \E cap, growable :
        /\ cap \in Nat
        /\ growable \in BOOLEAN
        /\ Len(q) + count <= cap
        /\ ~growable => cap = Len(q) + count
        /\ Arr(a, Gap(cap, q, index, count), Len(q) + count, growable)

\* The cells of a row.
LEMMA RowCells ==
    ASSUME NEW q \in Seq(Values), NEW cap \in Nat, Len(q) <= cap
    PROVE  /\ Row(cap, q) \in [0 .. cap - 1 -> Cell]
           /\ Len(q) \in Nat
           /\ \A p \in 0 .. Len(q) - 1 : Row(cap, q)[p] = q[p + 1] /\ Row(cap, q)[p] \in Values
           /\ \A p \in Len(q) .. cap - 1 : Row(cap, q)[p] = Raw
           /\ \A v \in Values : v # Raw
           /\ Moved # Raw
<1>1. Len(q) \in Nat /\ \A k \in 1 .. Len(q) : q[k] \in Values
  OBVIOUS
<1>2. \A p \in 0 .. Len(q) - 1 : p + 1 \in 1 .. Len(q)
  BY <1>1
<1>3. \A p \in 0 .. cap - 1 : p < Len(q) => p \in 0 .. Len(q) - 1
  BY <1>1
<1> QED BY <1>1, <1>2, <1>3, GrowableArrayAssumption DEF Row, Cell

\* The cells of a row with a gap.
LEMMA GapCells ==
    ASSUME NEW q \in Seq(Values), NEW cap \in Nat, NEW index \in 0 .. Len(q), NEW count \in Nat, Len(q) + count <= cap
    PROVE  /\ Gap(cap, q, index, count) \in [0 .. cap - 1 -> Cell]
           /\ \A p \in index .. index + count - 1 : Gap(cap, q, index, count)[p] = Raw
           /\ \A p \in 0 .. index - 1 : Gap(cap, q, index, count)[p] = q[p + 1]
           /\ \A p \in index + count .. Len(q) + count - 1 : Gap(cap, q, index, count)[p] = q[p - count + 1]
           /\ \A p \in Len(q) + count .. cap - 1 : Gap(cap, q, index, count)[p] = Raw
<1>1. Len(q) \in Nat /\ \A k \in 1 .. Len(q) : q[k] \in Values
  OBVIOUS
<1>2. \A p \in 0 .. index - 1 : p + 1 \in 1 .. Len(q)
  BY <1>1
<1>3. \A p \in index + count .. Len(q) + count - 1 : p - count + 1 \in 1 .. Len(q)
  BY <1>1
<1>4. \A p \in 0 .. cap - 1 : /\ p < index => p \in 0 .. index - 1
                              /\ p >= index + count /\ p < Len(q) + count => p \in index + count .. Len(q) + count - 1
  BY <1>1
<1> DEFINE g == Gap(cap, q, index, count)
<1>5. \A p \in index .. index + count - 1 : g[p] = Raw
  BY <1>1 DEF Gap
<1>6. \A p \in 0 .. index - 1 : g[p] = q[p + 1]
  BY <1>1 DEF Gap
<1>7. \A p \in index + count .. Len(q) + count - 1 : g[p] = q[p - count + 1]
  BY <1>1 DEF Gap
<1>8. \A p \in Len(q) + count .. cap - 1 : g[p] = Raw
  BY <1>1 DEF Gap
<1>9. \A p \in 0 .. cap - 1 : \/ p \in index .. index + count - 1 \/ p \in 0 .. index - 1
                              \/ p \in index + count .. Len(q) + count - 1 \/ p \in Len(q) + count .. cap - 1
  BY <1>1
<1>10. g = [p \in 0 .. cap - 1 |-> g[p]]
  BY DEF Gap
<1> HIDE DEF g
<1>11. \A p \in 0 .. cap - 1 : g[p] \in Cell
  BY <1>1, <1>2, <1>3, <1>5, <1>6, <1>7, <1>8, <1>9, GrowableArrayAssumption DEF Cell
<1> QED BY <1>5, <1>6, <1>7, <1>8, <1>10, <1>11 DEF g

\* A whole array has elements in the first cells only, so memory can go.
LEMMA ElementsOf ==
    ASSUME NEW a, NEW cap, NEW q, NEW growable, Whole(a, cap, q, growable)
    PROVE  /\ Elements(a) = 0 .. Len(q) - 1
           /\ Capacity(a) = IF growable THEN cap ELSE Len(q)
           /\ \A n, size : \A other \in BOOLEAN : Arr(Allocate(a, n, size, other), Memory(n), size, other)
<1> USE DEF Whole
<1>1. Elements(a) = 0 .. Len(q) - 1
  BY RowCells DEF Elements, Arr
<1>2. Cardinality(0 .. cap - 1) = cap
  BY FS_Interval
<1>3. DOMAIN a.cells = 0 .. cap - 1
  BY RowCells DEF Arr
<1>4. Capacity(a) = IF growable THEN cap ELSE Len(q)
  BY <1>2, <1>3 DEF Capacity, Arr
<1>5. \A n, size : \A other \in BOOLEAN : Arr(Allocate(a, n, size, other), Memory(n), size, other)
  BY <1>1 DEF Allocate, Arr
<1> QED BY <1>1, <1>4, <1>5

\* arrayGrowth() never gives less than what is needed.
LEMMA GrowIs ==
    ASSUME NEW current \in Nat, NEW desired \in Nat
    PROVE  Grow(current, desired) \in Nat /\ Grow(current, desired) >= desired
<1> DEFINE bytes == ElementSize * current + Offset
           grown == CASE bytes < Alignment -> Alignment
                      [] bytes >= Alignment /\ bytes < 64 -> bytes * 2
                      [] OTHER -> bytes + bytes \div 2
           candidate == (grown - Offset) \div ElementSize
<1>1. ElementSize \in Nat \ {0} /\ Offset \in Nat /\ Alignment \in Nat
  BY GrowableArrayAssumption
<1>2. bytes \in Nat
  BY <1>1
<1> HIDE DEF bytes
<1>3. grown \in Int
  BY <1>1, <1>2
<1> HIDE DEF grown
<1>4. candidate \in Int
  BY <1>1, <1>3
<1> HIDE DEF candidate
<1>5. Grow(current, desired) = IF desired > candidate THEN desired ELSE candidate
  BY DEF Grow, candidate, grown, bytes
<1> QED BY <1>4, <1>5

\* Reallocation moves all elements to the growing allocator.
LEMMA Reallocated ==
    ASSUME NEW a, NEW cap, NEW q, NEW growable, Whole(a, cap, q, growable), NEW n \in Nat, Len(q) <= n
    PROVE  Arr(Reallocate(a, n), Row(n, q), Len(q), TRUE)
<1> DEFINE row == Row(cap, q)
           memory == Memory(n)
           other == Allocate(a, n, Len(q), TRUE)
           result == Row(n, q)
           count == Len(q)
           dom == 0 .. n - 1
<1>0. /\ q \in Seq(Values) /\ cap \in Nat /\ count <= cap /\ Arr(a, row, count, growable)
  BY DEF Whole
<1>1. Arr(other, memory, count, TRUE)
  BY ElementsOf
<1>2. /\ count \in Nat /\ result \in [dom -> Cell] /\ dom \in SUBSET Int
      /\ memory \in [dom -> Cell]
      /\ \A p \in dom : memory[p] = Raw
      /\ \A p \in dom : p \notin 0 .. count - 1 => result[p] = memory[p]
  BY <1>0, RowCells DEF Memory, Cell
<1>3. \A k \in 0 .. count - 1 : k \in DOMAIN row /\ row[k] # Raw /\ result[k] = row[k] /\ k \in dom
  BY <1>0, RowCells
<1>4. Reallocate(a, n) = MoveConstruct(a, other, 0, 0, count)
  BY <1>0 DEF Reallocate, Arr
<1> HIDE DEF row, memory, other, result, count, dom
<1>5. Transfers(row, memory, 0, 0, count, result)
  BY <1>2, <1>3 DEF Transfers
<1>7. Arr(MoveConstruct(a, other, 0, 0, count), result, count, TRUE)
  BY <1>0, <1>1, <1>5, MoveConstructed
<1> QED BY <1>4, <1>7 DEF result, count

-----------------------------------------------------------------------------

\* Cells in turn, from the front or from the back, are an interval.
LEMMA PlacesOf ==
    ASSUME NEW p \in Int, NEW n \in Nat
    PROVE  /\ DOMAIN Upwards(p, n) = 1 .. n /\ DOMAIN Downwards(p, n) = 1 .. n
           /\ \A k \in 1 .. n : Upwards(p, n)[k] = p + k - 1 /\ Downwards(p, n)[k] = p - k + 1
           /\ \A j, m \in 1 .. n : Upwards(p, n)[j] = Upwards(p, n)[m] => j = m
           /\ \A j, m \in 1 .. n : Downwards(p, n)[j] = Downwards(p, n)[m] => j = m
           /\ Before(Upwards(p, n), n) = p .. p + n - 1
           /\ Before(Downwards(p, n), n) = p - n + 1 .. p
<1>1. DOMAIN Upwards(p, n) = 1 .. n /\ DOMAIN Downwards(p, n) = 1 .. n
  BY DEF Upwards, Downwards
<1>2. \A k \in 1 .. n : Upwards(p, n)[k] = p + k - 1 /\ Downwards(p, n)[k] = p - k + 1
  BY DEF Upwards, Downwards
<1>3. Before(Upwards(p, n), n) = p .. p + n - 1
  <2>1. \A x \in p .. p + n - 1 : x - p + 1 \in 1 .. n /\ x = p + (x - p + 1) - 1
    OBVIOUS
  <2>2. \A x \in p .. p + n - 1 : x \in Before(Upwards(p, n), n)
    BY <1>2, <2>1 DEF Before
  <2> QED BY <1>2, <2>2 DEF Before
<1>4. Before(Downwards(p, n), n) = p - n + 1 .. p
  <2>1. \A x \in p - n + 1 .. p : p - x + 1 \in 1 .. n /\ x = p - (p - x + 1) + 1
    OBVIOUS
  <2>2. \A x \in p - n + 1 .. p : x \in Before(Downwards(p, n), n)
    BY <1>2, <2>1 DEF Before
  <2> QED BY <1>2, <2>2 DEF Before
<1> QED BY <1>1, <1>2, <1>3, <1>4

\* Shifting leaves cells.
LEMMA ShiftedCells ==
    ASSUME NEW dom, NEW cells \in [dom -> Cell], NEW S \in SUBSET dom, NEW by
    PROVE  Shifted(cells, S, by) \in [dom -> Cell]
  BY DEF Shifted, Cell

\* arrayShiftForward() of what follows the index makes the gap there.
LEMMA ShiftedForward ==
    ASSUME NEW a, NEW cap \in Nat, NEW q \in Seq(Values), NEW growable, Arr(a, Row(cap, q), Len(q), growable),
           NEW index \in 0 .. Len(q), NEW count \in Nat \ {0}, Len(q) + count <= cap
    PROVE  Arr(ShiftForward(a, index, index + count, Len(q) - index), Gap(cap, q, index, count), Len(q), growable)
<1>0. Len(q) \in Nat /\ count \in Nat /\ count > 0 /\ index \in Nat /\ index <= Len(q) /\ Len(q) + count <= cap
  OBVIOUS
<1> DEFINE size == Len(q)
           n == size - index
           apart == IF index + n < index + count THEN n ELSE index + count - index
           dom == 0 .. cap - 1
           row == Row(cap, q)
           places1 == Downwards(index + n - 1, apart)
           places2 == Downwards(index + n - apart - 1, n - apart)
           places3 == Downwards(index + apart - 1, apart)
           cells1 == Shifted(row, size - apart .. size - 1, count)
           cells2 == Shifted(cells1, index .. size - apart - 1, count)
           gap == Gap(cap, q, index, count)
           constructed == MoveConstructEach(a, places1, index + count - index)
           assigned == MoveAssignEach(constructed, places2, index + count - index)
<1>1. ShiftForward(a, index, index + count, n) = DestructEach(assigned, places3)
  BY DEF ShiftForward
<1>2. /\ size \in Nat /\ n \in Nat /\ apart \in Nat /\ apart <= n /\ apart <= count
      /\ (apart < count => apart = n)
      /\ index + count - index = count
      /\ index + n = size /\ n - apart \in Nat
  BY <1>0
<1>20. size \in Nat /\ size + count <= cap /\ size <= cap /\ count \in Nat /\ count > 0 /\ index \in 0 .. size
  BY <1>0
<1>3. row \in [dom -> Cell] /\ gap \in [dom -> Cell]
  <2>1. row \in [dom -> Cell]
    BY <1>20, RowCells
  <2>2. gap \in [dom -> Cell]
    BY <1>20, GapCells
  <2> QED BY <2>1, <2>2
<1>4. (\A p \in 0 .. size - 1 : row[p] # Raw /\ row[p] = q[p + 1]) /\ (\A p \in size .. cap - 1 : row[p] = Raw)
  BY RowCells
<1>5. Moved # Raw /\ dom \in SUBSET Int
  BY RowCells
<1>6. /\ DOMAIN places1 = 1 .. apart /\ \A k \in 1 .. apart : places1[k] = size - k
      /\ Before(places1, apart) = size - apart .. size - 1
  <2> DEFINE last == index + n - 1
             m == apart
  <2>1. last \in Int /\ m \in Nat /\ last - m + 1 = size - apart /\ last = size - 1
    <3> HIDE DEF n, apart, size
    <3> QED BY <1>2, <1>20
  <2> HIDE DEF last, m, n, apart, size
  <2>2. /\ DOMAIN Downwards(last, m) = 1 .. m
        /\ \A k \in 1 .. m : Downwards(last, m)[k] = last - k + 1
        /\ Before(Downwards(last, m), m) = last - m + 1 .. last
    BY ZenonT(30), <2>1, PlacesOf
  <2>3. places1 = Downwards(last, m)
    BY DEF last, m
  <2>4. \A k \in 1 .. m : last - k + 1 = size - k
    BY <1>2, <1>20, <2>1 DEF last, m
  <2> HIDE DEF places1
  <2> QED BY <2>1, <2>2, <2>3, <2>4 DEF m
<1>7. /\ DOMAIN places2 = 1 .. n - apart /\ \A k \in 1 .. n - apart : places2[k] = size - apart - k
      /\ Before(places2, n - apart) = index .. size - apart - 1
  <2> DEFINE last == index + n - apart - 1
             m == n - apart
  <2>1. last \in Int /\ m \in Nat /\ last - m + 1 = index /\ last = size - apart - 1
    <3> HIDE DEF n, apart, size
    <3> QED BY <1>2, <1>20
  <2> HIDE DEF last, m, n, apart, size
  <2>2. /\ DOMAIN Downwards(last, m) = 1 .. m
        /\ \A k \in 1 .. m : Downwards(last, m)[k] = last - k + 1
        /\ Before(Downwards(last, m), m) = last - m + 1 .. last
    BY ZenonT(30), <2>1, PlacesOf
  <2>3. places2 = Downwards(last, m)
    BY DEF last, m
  <2>4. \A k \in 1 .. m : last - k + 1 = size - apart - k
    BY <1>2, <1>20, <2>1 DEF last, m
  <2> HIDE DEF places2
  <2> QED BY <2>1, <2>2, <2>3, <2>4 DEF m
<1>8. /\ DOMAIN places3 = 1 .. apart /\ \A k \in 1 .. apart : places3[k] = index + apart - k
      /\ Before(places3, apart) = index .. index + apart - 1
  <2> DEFINE last == index + apart - 1
             m == apart
  <2>1. last \in Int /\ m \in Nat /\ last - m + 1 = index /\ last = index + apart - 1
    <3> HIDE DEF n, apart, size
    <3> QED BY <1>2, <1>20
  <2> HIDE DEF last, m, n, apart, size
  <2>2. /\ DOMAIN Downwards(last, m) = 1 .. m
        /\ \A k \in 1 .. m : Downwards(last, m)[k] = last - k + 1
        /\ Before(Downwards(last, m), m) = last - m + 1 .. last
    BY ZenonT(30), <2>1, PlacesOf
  <2>3. places3 = Downwards(last, m)
    BY DEF last, m
  <2>4. \A k \in 1 .. m : last - k + 1 = index + apart - k
    BY <1>2, <1>20, <2>1 DEF last, m
  <2> HIDE DEF places3
  <2> QED BY <2>1, <2>2, <2>3, <2>4 DEF m
<1>9. gap = [p \in dom |-> CASE p < index -> q[p + 1]
                              [] p >= index + count /\ p < size + count -> q[p - count + 1]
                              [] OTHER -> Raw]
  BY DEF Gap
<1> HIDE DEF size, n, apart, row, places1, places2, places3, gap
\* The last elements, to raw cells.
<1>11. Arr(constructed, cells1, size, growable)
  <2>1. CanMove(dom, row, places1, apart, count)
    <3>0. \A k \in 1 .. apart : places1[k] \in 0 .. size - 1 /\ places1[k] + count \in 0 .. cap - 1
      BY <1>2, <1>6, <1>20
    <3>1. \A k \in 1 .. apart : places1[k] \in dom /\ row[places1[k]] # Raw /\ places1[k] + count \in dom
      BY <3>0, <1>4, <1>20
    <3>2. \A j, m \in 1 .. apart : places1[j] = places1[m] => j = m
      BY <1>2, <1>6
    <3>3. \A j, m \in 1 .. apart : places1[m] = places1[j] + count => m < j
      BY <1>2, <1>6
    <3> QED BY <1>2, <1>3, <1>5, <1>6, <3>1, <3>2, <3>3 DEF CanMove
  <2>2. \A k \in 1 .. apart : row[places1[k] + count] = Raw
    <3>1. \A k \in 1 .. apart : places1[k] + count \in size .. cap - 1
      BY <1>2, <1>6, <1>20
    <3> QED BY <3>1, <1>4
  <2>3. Arr(a, row, size, growable)
    BY DEF row, size
  <2>4. Arr(MoveConstructEach(a, places1, count), Shifted(row, Before(places1, apart), count), size, growable)
    BY <1>2, <2>1, <2>2, <2>3, MoveConstructedEach
  <2> QED BY <1>2, <1>6, <2>4
<1>12. cells1 \in [dom -> Cell] /\ cells2 \in [dom -> Cell]
  <2>1. (size - apart .. size - 1) \in SUBSET dom /\ (index .. size - apart - 1) \in SUBSET dom
    BY <1>2, <1>20
  <2>2. cells1 \in [dom -> Cell]
    BY <1>3, <2>1, ShiftedCells
  <2> HIDE DEF cells1
  <2> QED BY <2>1, <2>2, ShiftedCells
<1>13. \A p \in dom : cells1[p] = IF p - count \in size - apart .. size - 1 THEN row[p - count]
                                  ELSE IF p \in size - apart .. size - 1 THEN Moved ELSE row[p]
  BY <1>3 DEF Shifted
<1> HIDE DEF cells1
<1>14. \A p \in dom : cells2[p] = IF p - count \in index .. size - apart - 1 THEN cells1[p - count]
                                  ELSE IF p \in index .. size - apart - 1 THEN Moved ELSE cells1[p]
  BY <1>12 DEF Shifted
\* The others, over elements that are there.
<1>15. Arr(assigned, cells2, size, growable)
  <2>1. CanMove(dom, cells1, places2, n - apart, count)
    <3>0. \A k \in 1 .. n - apart : places2[k] \in dom /\ places2[k] \in index .. size - apart - 1 /\ places2[k] + count \in dom
      BY <1>2, <1>7, <1>20
    <3>1. ASSUME NEW p \in index .. size - apart - 1 PROVE cells1[p] = row[p] /\ row[p] # Raw
      <4>1. p \in dom /\ p \in 0 .. size - 1 /\ p - count \notin size - apart .. size - 1 /\ p \notin size - apart .. size - 1
        BY <1>2, <1>20
      <4> QED BY <1>4, <1>13, <4>1
    <3>2. \A j, m \in 1 .. n - apart : places2[j] = places2[m] => j = m
      BY <1>2, <1>7
    <3>3. \A j, m \in 1 .. n - apart : places2[m] = places2[j] + count => m < j
      BY <1>2, <1>7
    <3>4. \A k \in 1 .. n - apart : places2[k] \in dom /\ cells1[places2[k]] # Raw /\ places2[k] + count \in dom
      BY <3>0, <3>1
    <3> QED BY <1>2, <1>5, <1>7, <1>12, <3>2, <3>3, <3>4 DEF CanMove
  <2>2. \A k \in 1 .. n - apart : cells1[places2[k] + count] # Raw
    <3>1. \A k \in 1 .. n - apart : places2[k] + count \in index + count .. size - 1 /\ apart = count
      BY <1>2, <1>7, <1>20
    <3>2. ASSUME NEW p \in index + count .. size - 1, apart = count PROVE cells1[p] # Raw
      <4>1. p \in dom /\ p \in 0 .. size - 1 /\ p - count \notin size - apart .. size - 1
        BY <1>2, <1>20, <3>2
      <4> QED BY <1>4, <1>5, <1>13, <4>1
    <3> QED BY <3>1, <3>2
  <2>3. Arr(MoveAssignEach(constructed, places2, count), Shifted(cells1, Before(places2, n - apart), count), size, growable)
    BY <1>2, <1>11, <2>1, <2>2, MoveAssignedEach
  <2> QED BY <1>2, <1>7, <2>3
<1> HIDE DEF cells2, assigned, constructed
\* What was moved to raw cells only is destructed where it was.
<1>16. Destructs(cells2, places3, apart, gap)
  <2>1. \A j, m \in 1 .. apart : places3[j] = places3[m] => j = m
    BY <1>2, <1>8
  <2>2. \A p \in index .. index + apart - 1 : p \in dom /\ cells2[p] # Raw
    <3> TAKE p \in index .. index + apart - 1
    <3>1. p \in dom /\ p - count < index /\ p < size
      BY <1>2, <1>20
    <3>2. cells2[p] = Moved
      <4>1. p - count \notin index .. size - apart - 1 /\ p - count \notin size - apart .. size - 1
        BY <1>2, <1>20, <3>1
      <4>2. p \in index .. size - apart - 1 \/ p \in size - apart .. size - 1
        BY <1>2, <1>20, <3>1
      <4> QED BY <1>13, <1>14, <3>1, <4>1, <4>2
    <3> QED BY <3>1, <3>2, <1>5
  <2>3. \A k \in 1 .. apart : places3[k] \in index .. index + apart - 1
    BY <1>2, <1>8
  <2>4. ASSUME NEW p \in dom PROVE gap[p] = IF p \in index .. index + apart - 1 THEN Raw ELSE cells2[p]
    <3>1. CASE p < index
      <4>1. gap[p] = q[p + 1] /\ row[p] = q[p + 1]
        <5>1. p \in 0 .. size - 1
          BY <1>20, <3>1
        <5> QED BY <1>4, <1>9, <3>1, <5>1
      <4>2. cells2[p] = row[p]
        <5>1. /\ p - count \notin index .. size - apart - 1 /\ p \notin index .. size - apart - 1
              /\ p - count \notin size - apart .. size - 1 /\ p \notin size - apart .. size - 1
          BY <1>2, <1>20, <3>1
        <5> QED BY <1>13, <1>14, <5>1
      <4> QED BY <3>1, <4>1, <4>2, <1>2
    <3>2. CASE p >= index /\ p < index + count
      <4>1. gap[p] = Raw
        BY SMTT(30), <1>2, <1>9, <1>20, <3>2
      <4>2. p \notin index .. index + apart - 1 => cells2[p] = Raw
        <5> HAVE p \notin index .. index + apart - 1
        <5>1. apart = n /\ p >= size
          BY <1>2, <3>2
        <5>2. row[p] = Raw
          BY <1>4, <5>1
        <5>3. cells2[p] = row[p]
          BY <1>2, <1>20, <1>13, <1>14, <3>2, <5>1
        <5> QED BY <5>2, <5>3
      <4> QED BY <4>1, <4>2
    <3>3. CASE p >= index + count /\ p < size + count
      <4>1. gap[p] = q[p - count + 1] /\ p - count \in 0 .. size - 1 /\ row[p - count] = q[p - count + 1]
        <5>1. p - count \in 0 .. size - 1 /\ ~(p < index)
          BY <1>2, <3>3
        <5>2. row[p - count] = q[p - count + 1]
          BY <1>4, <5>1
        <5> QED BY <1>9, <3>3, <5>1, <5>2
      <4>2. CASE p - count < size - apart
        <5>1. cells2[p] = cells1[p - count]
          BY <1>2, <1>14, <3>3, <4>2
        <5>2. cells1[p - count] = row[p - count]
          <6> DEFINE r == p - count
          <6>1. r \in dom /\ r - count \notin size - apart .. size - 1 /\ r \notin size - apart .. size - 1
            BY <1>2, <1>20, <3>3, <4>2
          <6> HIDE DEF r
          <6>2. cells1[r] = row[r]
            BY <1>13, <6>1
          <6> QED BY <6>2 DEF r
        <5> QED BY <1>2, <3>3, <4>1, <5>1, <5>2
      <4>3. CASE p - count >= size - apart
        <5>1. cells2[p] = cells1[p]
          BY <1>2, <1>14, <3>3, <4>3
        <5>2. cells1[p] = row[p - count]
          BY <1>2, <1>20, <1>13, <3>3, <4>3
        <5> QED BY <1>2, <3>3, <4>1, <5>1, <5>2
      <4> QED BY <4>2, <4>3, <1>2
    <3>4. CASE p >= size + count
      <4>1. gap[p] = Raw /\ row[p] = Raw
        BY SMTT(30), <1>2, <1>4, <1>9, <1>20, <3>4
      <4>2. cells2[p] = row[p]
        <5>1. /\ p - count \notin index .. size - apart - 1 /\ p \notin index .. size - apart - 1
              /\ p - count \notin size - apart .. size - 1 /\ p \notin size - apart .. size - 1
          BY <1>2, <1>20, <3>4
        <5> QED BY <1>13, <1>14, <5>1
      <4> QED BY <1>2, <3>4, <4>1, <4>2
    <3> QED BY <1>2, <3>1, <3>2, <3>3, <3>4
  <2> QED BY <1>2, <1>3, <1>8, <1>12, <2>1, <2>2, <2>3, <2>4 DEF Destructs
<1>17. Arr(DestructEach(assigned, places3), gap, size, growable)
  BY <1>15, <1>16, DestructedEach
<1> QED BY <1>1, <1>17 DEF gap, size, n

\* r is q without some count elements, those from src on in the place from dst on.
Closes(q, r, src, dst, moveCount, count) ==
    /\ q \in Seq(Values) /\ r \in Seq(Values)
    /\ src \in Nat /\ dst \in Nat /\ moveCount \in Nat /\ count \in Nat
    /\ dst < src
    /\ src + moveCount = Len(q)
    /\ dst + moveCount + count <= Len(q)
    /\ src + count >= Len(q) \/ dst + moveCount + count = Len(q)
    /\ Len(r) = Len(q) - count
    /\ \A p \in 0 .. Len(r) - 1 : r[p + 1] = IF p \in dst .. dst + moveCount - 1 THEN q[p + src - dst + 1] ELSE q[p + 1]

\* arrayShiftBackward() closes a gap and destructs what is left at the end.
LEMMA ShiftedBackward ==
    ASSUME NEW a, NEW cap \in Nat, NEW q, NEW growable, Arr(a, Row(cap, q), Len(q), growable), Len(q) <= cap,
           NEW r, NEW src, NEW dst, NEW moveCount, NEW count, Closes(q, r, src, dst, moveCount, count)
    PROVE  Arr(ShiftBackward(a, src, dst, moveCount, count), Row(cap, r), Len(q), growable)
<1> DEFINE size == Len(q)
           by == dst - src
           dom == 0 .. cap - 1
           row == Row(cap, q)
           left == Row(cap, r)
           places1 == Upwards(src, moveCount)
           places2 == Upwards(src + moveCount - count, count)
           cells == Shifted(row, src .. size - 1, by)
           assigned == MoveAssignEach(a, places1, by)
<1>1. /\ size \in Nat /\ size <= cap /\ src \in Nat /\ dst \in Nat /\ moveCount \in Nat /\ count \in Nat
      /\ dst < src /\ by \in Int /\ by # 0 /\ by = dst - src
      /\ src + moveCount = size
      /\ dst + moveCount + count <= size
      /\ src + count >= size \/ dst + moveCount + count = size
      /\ Len(r) = size - count /\ q \in Seq(Values) /\ r \in Seq(Values)
  BY DEF Closes
<1>2. \A p \in 0 .. size - count - 1 : r[p + 1] = IF p \in dst .. dst + moveCount - 1 THEN q[p + src - dst + 1] ELSE q[p + 1]
  BY <1>1 DEF Closes
<1>3. row \in [dom -> Cell] /\ left \in [dom -> Cell]
  <2>1. Len(r) <= cap
    <3> HIDE DEF size
    <3> QED BY <1>1
  <2> QED BY <1>1, <2>1, RowCells
<1>4. (\A p \in 0 .. size - 1 : row[p] # Raw /\ row[p] = q[p + 1]) /\ (\A p \in size .. cap - 1 : row[p] = Raw)
  BY SMTT(30), <1>1, RowCells
<1>5. Moved # Raw /\ dom \in SUBSET Int
  BY <1>1, RowCells
<1>6. \A p \in dom : left[p] = IF p < size - count THEN r[p + 1] ELSE Raw
  BY <1>1 DEF Row
<1>7. /\ DOMAIN places1 = 1 .. moveCount /\ \A k \in 1 .. moveCount : places1[k] = src + k - 1
      /\ Before(places1, moveCount) = src .. size - 1
  <2>1. src + moveCount - 1 = size - 1 /\ src \in Int /\ moveCount \in Nat
    BY <1>1
  <2> HIDE DEF size
  <2>2. /\ DOMAIN Upwards(src, moveCount) = 1 .. moveCount
        /\ \A k \in 1 .. moveCount : Upwards(src, moveCount)[k] = src + k - 1
        /\ Before(Upwards(src, moveCount), moveCount) = src .. src + moveCount - 1
    BY <2>1, PlacesOf
  <2> QED BY <2>1, <2>2
<1>8. /\ DOMAIN places2 = 1 .. count /\ \A k \in 1 .. count : places2[k] = size - count + k - 1
      /\ Before(places2, count) = size - count .. size - 1
  <2> DEFINE first == src + moveCount - count
  <2>1. first \in Int /\ first = size - count /\ first + count - 1 = size - 1
    BY <1>1
  <2>2. count \in Nat
    BY <1>1
  <2> HIDE DEF first, size
  <2>3. /\ DOMAIN Upwards(first, count) = 1 .. count
        /\ \A k \in 1 .. count : Upwards(first, count)[k] = first + k - 1
        /\ Before(Upwards(first, count), count) = first .. first + count - 1
    BY ZenonT(30), <2>1, <2>2, PlacesOf
  <2>4. places2 = Upwards(first, count)
    BY DEF first
  <2> HIDE DEF places2
  <2> QED BY <2>1, <2>3, <2>4
<1> HIDE DEF size, by, row, left, places1, places2
<1>9. Arr(assigned, cells, size, growable)
  <2>1. CanMove(dom, row, places1, moveCount, by)
    <3>1. ASSUME NEW k \in 1 .. moveCount PROVE places1[k] \in dom /\ row[places1[k]] # Raw /\ places1[k] + by \in dom
      <4>1. places1[k] \in 0 .. size - 1 /\ places1[k] \in dom /\ places1[k] + by \in dom
        BY SMTT(30), <1>1, <1>7
      <4> QED BY <1>4, <4>1
    <3>2. \A j, m \in 1 .. moveCount : places1[j] = places1[m] => j = m
      BY <1>1, <1>7
    <3>3. \A j, m \in 1 .. moveCount : places1[m] = places1[j] + by => m < j
      BY <1>1, <1>7
    <3> QED BY <1>1, <1>3, <1>5, <1>7, <3>1, <3>2, <3>3 DEF CanMove
  <2>2. ASSUME NEW k \in 1 .. moveCount PROVE row[places1[k] + by] # Raw
    <3>1. places1[k] + by \in 0 .. size - 1
      BY <1>1, <1>7
    <3> QED BY <3>1, <1>4
  <2>3. Arr(a, row, size, growable)
    BY DEF row, size
  <2>4. Arr(MoveAssignEach(a, places1, by), Shifted(row, Before(places1, moveCount), by), size, growable)
    BY <1>1, <2>1, <2>2, <2>3, MoveAssignedEach
  <2> QED BY <1>7, <2>4
<1>10. cells \in [dom -> Cell]
  <2>1. (src .. size - 1) \in SUBSET dom
    BY <1>1
  <2> QED BY <1>3, <2>1, ShiftedCells
<1>11. \A p \in dom : cells[p] = IF p - by \in src .. size - 1 THEN row[p - by]
                                 ELSE IF p \in src .. size - 1 THEN Moved ELSE row[p]
  BY <1>3 DEF Shifted
<1> HIDE DEF cells, assigned
<1>12. Destructs(cells, places2, count, left)
  <2>1. \A j, m \in 1 .. count : places2[j] = places2[m] => j = m
    BY <1>1, <1>8
  <2>2. ASSUME NEW p \in size - count .. size - 1 PROVE p \in dom /\ cells[p] # Raw
    <3>1. p \in dom /\ p \in 0 .. size - 1
      BY <1>1
    <3>2. p - by \in src .. size - 1 => row[p - by] # Raw
      <4>1. p - by \in src .. size - 1 => p - by \in 0 .. size - 1
        BY <1>1
      <4> QED BY <1>4, <4>1
    <3> QED BY <1>4, <1>5, <1>11, <3>1, <3>2
  <2>3. \A k \in 1 .. count : places2[k] \in size - count .. size - 1
    BY <1>1, <1>8
  <2>4. ASSUME NEW p \in dom PROVE left[p] = IF p \in size - count .. size - 1 THEN Raw ELSE cells[p]
    <3>1. CASE p < size - count
      <4>1. left[p] = r[p + 1] /\ p \in 0 .. size - count - 1 /\ p \notin size - count .. size - 1
        BY <1>1, <1>6, <3>1
      <4>2. CASE p \in dst .. dst + moveCount - 1
        <5>1. p - by \in src .. size - 1 /\ p - by = p + src - dst /\ p - by \in 0 .. size - 1
          BY <1>1, <4>2
        <5>2. cells[p] = row[p - by]
          BY <1>11, <5>1
        <5>3. row[p + src - dst] = q[p + src - dst + 1]
          BY <1>4, <5>1
        <5>4. r[p + 1] = q[p + src - dst + 1]
          BY <1>2, <4>1, <4>2
        <5> QED BY <4>1, <5>1, <5>2, <5>3, <5>4
      <4>3. CASE p \notin dst .. dst + moveCount - 1
        <5>1. p - by \notin src .. size - 1
          BY <1>1, <4>3
        <5>2. p \notin src .. size - 1 /\ p \in 0 .. size - 1
          BY <1>1, <3>1, <4>3
        <5>3. cells[p] = row[p] /\ row[p] = q[p + 1]
          BY <1>4, <1>11, <5>1, <5>2
        <5>4. r[p + 1] = q[p + 1]
          BY <1>2, <4>1, <4>3
        <5> QED BY <4>1, <5>3, <5>4
      <4> QED BY <4>2, <4>3
    <3>2. CASE p >= size - count
      <4>1. left[p] = Raw
        BY <1>1, <1>6, <3>2
      <4>2. ASSUME p \notin size - count .. size - 1 PROVE cells[p] = Raw
        <5>1. p \in size .. cap - 1 /\ p - by \notin src .. size - 1 /\ p \notin src .. size - 1
          BY <1>1, <3>2, <4>2
        <5> QED BY <1>4, <1>11, <5>1
      <4> QED BY <4>1, <4>2
    <3> QED BY <1>1, <3>1, <3>2
  <2> QED BY <1>1, <1>3, <1>8, <1>10, <2>1, <2>2, <2>3, <2>4 DEF Destructs
<1>13. Arr(DestructEach(assigned, places2), left, size, growable)
  BY <1>9, <1>12, DestructedEach
<1> QED BY <1>13 DEF ShiftBackward, assigned, left, size, places1, places2, by

\* The sequence that arrayRemove() asks for, element by element.
LEMMA RemovedFrom ==
    ASSUME NEW q \in Seq(Values), NEW index \in Nat, NEW count \in Nat, index + count <= Len(q)
    PROVE  /\ RemovedAt(q, index, count) \in Seq(Values)
           /\ Len(RemovedAt(q, index, count)) = Len(q) - count
           /\ \A p \in 0 .. Len(q) - count - 1 :
                 RemovedAt(q, index, count)[p + 1] = IF p < index THEN q[p + 1] ELSE q[p + count + 1]
<1> DEFINE s == SubSeq(q, 1, index)
           t == SubSeq(q, index + count + 1, Len(q))
<1>0. Len(q) \in Nat /\ \A i \in 1 .. Len(q) : q[i] \in Values
  BY LenProperties
<1>1. s \in Seq(Values) /\ Len(s) = index /\ \A i \in 1 .. index : s[i] = q[i]
  BY <1>0, SubSeqProperties
<1>2. t \in Seq(Values) /\ Len(t) = Len(q) - count - index /\ \A i \in 1 .. Len(q) - count - index : t[i] = q[index + count + i]
  <2> DEFINE m == index + count + 1
             n == Len(q)
  <2>1. m \in Int /\ n \in Int /\ (\A i \in m .. n : q[i] \in Values) /\ n - m + 1 = n - count - index
    BY <1>0
  <2>2. \A i \in 1 .. n - m + 1 : m + i - 1 = index + count + i
    BY <1>0
  <2>3. ~(m <= n) => n - count - index = 0
    BY <1>0
  <2> HIDE DEF m, n
  <2>4. t \in Seq(Values) /\ Len(t) = (IF m <= n THEN n - m + 1 ELSE 0) /\ \A i \in 1 .. n - m + 1 : SubSeq(q, m, n)[i] = q[m + i - 1]
    BY <2>1, SubSeqProperties DEF m, n
  <2> QED BY <2>1, <2>2, <2>3, <2>4 DEF m, n
<1> HIDE DEF s, t
<1>3. /\ s \o t \in Seq(Values) /\ Len(s \o t) = Len(q) - count
      /\ \A i \in 1 .. Len(q) - count : (s \o t)[i] = IF i <= index THEN s[i] ELSE t[i - index]
  BY <1>0, <1>1, <1>2, ConcatProperties
<1>4. ASSUME NEW p \in 0 .. Len(q) - count - 1 PROVE (s \o t)[p + 1] = IF p < index THEN q[p + 1] ELSE q[p + count + 1]
  <2>1. p + 1 \in 1 .. Len(q) - count /\ (p < index <=> p + 1 <= index)
    BY <1>0
  <2>2. CASE p < index
    BY <1>1, <1>3, <2>1, <2>2
  <2>3. CASE ~(p < index)
    <3>1. p + 1 - index \in 1 .. Len(q) - count - index /\ index + count + (p + 1 - index) = p + count + 1
      BY <1>0, <2>3
    <3> QED BY <1>2, <1>3, <2>1, <2>3, <3>1
  <2> QED BY <2>2, <2>3
<1> QED BY <1>3, <1>4 DEF RemovedAt, s, t

\* The sequence that arrayInsert() asks for, element by element.
LEMMA InsertedTo ==
    ASSUME NEW q \in Seq(Values), NEW s \in Seq(Values), NEW index \in Nat, index <= Len(q)
    PROVE  /\ InsertedAt(q, index, s) \in Seq(Values)
           /\ Len(InsertedAt(q, index, s)) = Len(q) + Len(s)
           /\ \A p \in 0 .. Len(q) + Len(s) - 1 :
                 InsertedAt(q, index, s)[p + 1] = IF p < index THEN q[p + 1]
                                                  ELSE IF p < index + Len(s) THEN s[p - index + 1]
                                                  ELSE q[p - Len(s) + 1]
<1> DEFINE u == SubSeq(q, 1, index)
           t == SubSeq(q, index + 1, Len(q))
<1>0. Len(q) \in Nat /\ Len(s) \in Nat /\ \A i \in 1 .. Len(q) : q[i] \in Values
  BY LenProperties
<1>1. u \in Seq(Values) /\ Len(u) = index /\ \A i \in 1 .. index : u[i] = q[i]
  BY <1>0, SubSeqProperties
<1>2. t \in Seq(Values) /\ Len(t) = Len(q) - index /\ \A i \in 1 .. Len(q) - index : t[i] = q[index + i]
  <2> DEFINE m == index + 1
             n == Len(q)
  <2>1. m \in Int /\ n \in Int /\ (\A i \in m .. n : q[i] \in Values) /\ n - m + 1 = n - index
    BY <1>0
  <2>2. \A i \in 1 .. n - m + 1 : m + i - 1 = index + i
    BY <1>0
  <2>3. ~(m <= n) => n - index = 0
    BY <1>0
  <2> HIDE DEF m, n
  <2>4. t \in Seq(Values) /\ Len(t) = (IF m <= n THEN n - m + 1 ELSE 0) /\ \A i \in 1 .. n - m + 1 : SubSeq(q, m, n)[i] = q[m + i - 1]
    BY <2>1, SubSeqProperties DEF m, n
  <2> QED BY <2>1, <2>2, <2>3, <2>4 DEF m, n
<1> HIDE DEF u, t
<1>3. /\ u \o s \in Seq(Values) /\ Len(u \o s) = index + Len(s)
      /\ \A i \in 1 .. index + Len(s) : (u \o s)[i] = IF i <= index THEN u[i] ELSE s[i - index]
  BY <1>0, <1>1, ConcatProperties
<1>4. /\ (u \o s) \o t \in Seq(Values) /\ Len((u \o s) \o t) = Len(q) + Len(s)
      /\ \A i \in 1 .. Len(q) + Len(s) : ((u \o s) \o t)[i] = IF i <= index + Len(s) THEN (u \o s)[i] ELSE t[i - (index + Len(s))]
  <2> DEFINE v == u \o s
  <2> HIDE DEF v
  <2>1. v \o t \in Seq(Values) /\ Len(v \o t) = Len(v) + Len(t)
        /\ \A i \in 1 .. Len(v) + Len(t) : (v \o t)[i] = IF i <= Len(v) THEN v[i] ELSE t[i - Len(v)]
    <3>1. v \in Seq(Values) /\ t \in Seq(Values)
      BY <1>2, <1>3 DEF v
    <3> QED BY <3>1, ConcatProperties
  <2>2. Len(v) + Len(t) = Len(q) + Len(s) /\ Len(v) = index + Len(s)
    BY <1>0, <1>2, <1>3 DEF v
  <2> QED BY <2>1, <2>2 DEF v
<1>5. ASSUME NEW p \in 0 .. Len(q) + Len(s) - 1
      PROVE ((u \o s) \o t)[p + 1] = IF p < index THEN q[p + 1]
                                     ELSE IF p < index + Len(s) THEN s[p - index + 1]
                                     ELSE q[p - Len(s) + 1]
  <2> DEFINE w == (u \o s) \o t
  <2>1. p + 1 \in 1 .. Len(q) + Len(s) /\ (p < index <=> p + 1 <= index) /\ (p < index + Len(s) <=> p + 1 <= index + Len(s))
    BY <1>0
  <2>2. CASE p < index
    <3>1. p + 1 \in 1 .. index /\ p + 1 \in 1 .. index + Len(s) /\ p + 1 <= index + Len(s)
      BY <1>0, <2>2
    <3> QED BY <1>1, <1>3, <1>4, <2>1, <2>2, <3>1
  <2>3. CASE ~(p < index) /\ p < index + Len(s)
    <3>1. p + 1 \in 1 .. index + Len(s) /\ ~(p + 1 <= index) /\ p + 1 - index = p - index + 1 /\ p + 1 <= index + Len(s)
      BY <1>0, <2>3
    <3> QED BY <1>3, <1>4, <2>1, <2>3, <3>1
  <2>4. CASE ~(p < index + Len(s))
    <3>1. /\ p + 1 - (index + Len(s)) \in 1 .. Len(q) - index /\ ~(p < index)
          /\ index + (p + 1 - (index + Len(s))) = p - Len(s) + 1
      BY <1>0, <2>4
    <3>2. ((u \o s) \o t)[p + 1] = t[p + 1 - (index + Len(s))]
      <4> DEFINE j == p + 1
      <4>1. j \in 1 .. Len(q) + Len(s) /\ ~(j <= index + Len(s))
        BY <1>0, <2>4
      <4> HIDE DEF j
      <4>2. ((u \o s) \o t)[j] = t[j - (index + Len(s))]
        BY <1>4, <4>1
      <4> QED BY <4>2 DEF j
    <3> DEFINE i == p + 1 - (index + Len(s))
    <3> HIDE DEF i
    <3>3. t[i] = q[index + i]
      BY <1>2, <3>1 DEF i
    <3> QED BY <2>4, <3>1, <3>2, <3>3 DEF i
  <2> QED BY <1>0, <2>2, <2>3, <2>4
<1> QED BY <1>4, <1>5 DEF InsertedAt, u, t

-----------------------------------------------------------------------------

\* A gap of nothing or at the end is a row.
LEMMA GapIsRow ==
    ASSUME NEW q \in Seq(Values), NEW cap \in Nat, NEW index \in 0 .. Len(q), NEW count \in Nat,
           count = 0 \/ index = Len(q)
    PROVE  Gap(cap, q, index, count) = Row(cap, q)
<1>1. Len(q) \in Nat
  BY LenProperties
<1>2. ASSUME NEW p \in 0 .. cap - 1
      PROVE (CASE p < index -> q[p + 1]
               [] p >= index + count /\ p < Len(q) + count -> q[p - count + 1]
               [] OTHER -> Raw) = IF p < Len(q) THEN q[p + 1] ELSE Raw
  <2>1. CASE count = 0
    <3>1. p - count + 1 = p + 1
      BY <2>1
    <3> QED BY <1>1, <2>1, <3>1
  <2>2. CASE index = Len(q)
    BY <1>1, <2>2
  <2> QED BY <2>1, <2>2
<1> QED BY <1>2 DEF Gap, Row

\* arrayGrowBy() adds raw cells at the end, with all elements before them.
LEMMA GrownBy ==
    ASSUME NEW a, NEW cap, NEW q, NEW growable, Whole(a, cap, q, growable), NEW count \in Nat
    PROVE  Opened(GrowBy(a, count), q, Len(q), count)
<1>0. /\ q \in Seq(Values) /\ Len(q) \in Nat /\ cap \in Nat /\ growable \in BOOLEAN /\ Len(q) <= cap
      /\ (~growable => cap = Len(q))
      /\ Arr(a, Row(cap, q), Len(q), growable)
  BY LenProperties DEF Whole
<1>1. \A n \in Nat : Gap(n, q, Len(q), count) = Row(n, q)
  BY <1>0, GapIsRow
<1>2. CASE count = 0
  <2>1. GrowBy(a, count) = a /\ Len(q) + count = Len(q)
    BY <1>0, <1>2 DEF GrowBy
  <2> QED BY <1>0, <1>1, <2>1 DEF Opened
<1>3. CASE count # 0
  <2> DEFINE grown == CASE ~a.growable -> Reallocate(a, Grow(0, a.size + count))
                        [] a.growable /\ a.size + count > Capacity(a) -> Reallocate(a, Grow(Capacity(a), a.size + count))
                        [] OTHER -> a
  <2>1. GrowBy(a, count) = [grown EXCEPT !.size = @ + count]
    BY <1>3 DEF GrowBy
  <2>2. a.size = Len(q) /\ a.growable = growable /\ (growable => Capacity(a) = cap)
    BY <1>0, ElementsOf DEF Arr
  <2>3. \E n \in Nat : Arr(grown, Row(n, q), Len(q), TRUE) /\ Len(q) + count <= n
    <3>1. CASE ~growable
      <4> DEFINE n == Grow(0, Len(q) + count)
      <4>1. n \in Nat /\ Len(q) + count <= n
        <5>1. Len(q) + count \in Nat
          BY <1>0
        <5> QED BY <1>0, <5>1, GrowIs
      <4>2. Len(q) <= n
        BY <1>0, <4>1
      <4>3. grown = Reallocate(a, n)
        BY <2>2, <3>1
      <4> HIDE DEF n, grown
      <4>4. Arr(grown, Row(n, q), Len(q), TRUE)
        BY <4>1, <4>2, <4>3, Reallocated
      <4> QED BY <4>1, <4>4
    <3>2. CASE growable /\ Len(q) + count > cap
      <4> DEFINE n == Grow(cap, Len(q) + count)
      <4>1. n \in Nat /\ Len(q) + count <= n
        <5>1. Len(q) + count \in Nat
          BY <1>0
        <5> QED BY <1>0, <5>1, GrowIs
      <4>2. Len(q) <= n
        BY <1>0, <4>1
      <4>3. grown = Reallocate(a, n)
        BY <2>2, <3>2
      <4> HIDE DEF n, grown
      <4>4. Arr(grown, Row(n, q), Len(q), TRUE)
        BY <4>1, <4>2, <4>3, Reallocated
      <4> QED BY <4>1, <4>4
    <3>3. CASE growable /\ ~(Len(q) + count > cap)
      <4>1. grown = a
        BY <2>2, <3>3
      <4>2. growable = TRUE /\ Len(q) + count <= cap
        BY <1>0, <3>3
      <4> HIDE DEF grown
      <4> QED BY <1>0, <4>1, <4>2
    <3> QED BY <1>0, <3>1, <3>2, <3>3
  <2> HIDE DEF grown
  <2>4. PICK n \in Nat : Arr(grown, Row(n, q), Len(q), TRUE) /\ Len(q) + count <= n
    BY <2>3
  <2>5. Arr([grown EXCEPT !.size = @ + count], Row(n, q), Len(q) + count, TRUE)
    BY <2>4 DEF Arr
  <2> QED BY <1>1, <2>1, <2>4, <2>5 DEF Opened
<1> QED BY <1>2, <1>3

\* What is before an index moved to other memory, then what is after it, behind
\* a gap.
LEMMA MovedWithGap ==
    ASSUME NEW a, NEW cap, NEW q, NEW growable, Whole(a, cap, q, growable), NEW index \in 0 .. Len(q), NEW count \in Nat,
           NEW n \in Nat, Len(q) + count <= n
    PROVE  Arr(MoveConstruct(a, MoveConstruct(a, Allocate(a, n, Len(q), TRUE), 0, 0, index), index, index + count, Len(q) - index),
               Gap(n, q, index, count), Len(q), TRUE)
<1> DEFINE size == Len(q)
           row == Row(cap, q)
           memory == Memory(n)
           half == [p \in 0 .. n - 1 |-> IF p < index THEN q[p + 1] ELSE Raw]
           gap == Gap(n, q, index, count)
           other == Allocate(a, n, size, TRUE)
           apart == MoveConstruct(a, other, 0, 0, index)
<1>0. /\ q \in Seq(Values) /\ size \in Nat /\ cap \in Nat /\ size <= cap /\ index \in Nat /\ index <= size /\ size + count <= n
      /\ Arr(a, row, size, growable) /\ \A i \in 1 .. size : q[i] \in Values
  BY LenProperties DEF Whole
<1>1. Arr(other, memory, size, TRUE)
  BY ElementsOf
<1>2. \A p \in 0 .. size - 1 : p \in DOMAIN row /\ row[p] = q[p + 1] /\ row[p] # Raw /\ row[p] \in Values
  BY <1>0, RowCells
<1>3. memory = [p \in 0 .. n - 1 |-> Raw] /\ memory \in [0 .. n - 1 -> Cell]
  BY DEF Memory, Cell
<1>4. gap \in [0 .. n - 1 -> Cell]
  BY <1>0, GapCells
<1>5. gap = [p \in 0 .. n - 1 |-> CASE p < index -> q[p + 1]
                                    [] p >= index + count /\ p < size + count -> q[p - count + 1]
                                    [] OTHER -> Raw]
  BY DEF Gap
<1>6. half = [p \in 0 .. n - 1 |-> half[p]] /\ \A p \in 0 .. n - 1 : half[p] = IF p < index THEN q[p + 1] ELSE Raw
  OBVIOUS
<1> HIDE DEF size, row, memory, half, gap, other, apart
<1>7. half \in [0 .. n - 1 -> Cell]
  <2>1. ASSUME NEW p \in 0 .. n - 1 PROVE half[p] \in Cell
    <3>1. p < index => p + 1 \in 1 .. size
      BY <1>0
    <3> QED BY <1>0, <1>6, <3>1 DEF Cell
  <2> QED BY <1>6, <2>1
<1>8. Transfers(row, memory, 0, 0, index, half)
  <2>1. ASSUME NEW k \in 0 .. index - 1
        PROVE /\ 0 + k \in DOMAIN row /\ row[0 + k] # Raw /\ 0 + k \in DOMAIN memory /\ memory[0 + k] = Raw
              /\ half[0 + k] = row[0 + k]
    <3>1. 0 + k = k /\ k \in 0 .. size - 1 /\ k \in 0 .. n - 1 /\ k < index
      BY <1>0
    <3> QED BY <1>2, <1>3, <1>6, <3>1
  <2>2. ASSUME NEW p \in 0 .. n - 1, p \notin 0 .. 0 + index - 1 PROVE half[p] = memory[p]
    BY <1>0, <1>3, <1>6, <2>2
  <2> QED BY <1>0, <1>3, <1>7, <2>1, <2>2 DEF Transfers
<1>9. Arr(apart, half, size, TRUE)
  BY <1>0, <1>1, <1>8, MoveConstructed DEF apart
<1>10. Transfers(row, half, index, index + count, size - index, gap)
  <2>1. ASSUME NEW k \in 0 .. size - index - 1
        PROVE /\ index + k \in DOMAIN row /\ row[index + k] # Raw
              /\ index + count + k \in DOMAIN half /\ half[index + count + k] = Raw
              /\ gap[index + count + k] = row[index + k]
    <3>1. index + k \in 0 .. size - 1 /\ index + count + k \in 0 .. n - 1
      BY <1>0
    <3>2. ~(index + count + k < index) /\ index + count + k >= index + count /\ index + count + k < size + count
      BY <1>0
    <3>3. index + count + k - count + 1 = index + k + 1
      BY <1>0
    <3>4. gap[index + count + k] = q[index + count + k - count + 1]
      <4> DEFINE p == index + count + k
      <4> HIDE DEF p
      <4>1. gap[p] = q[p - count + 1]
        BY <1>5, <3>1, <3>2 DEF p
      <4> QED BY <4>1 DEF p
    <3>5. half[index + count + k] = Raw
      BY <1>6, <3>1, <3>2
    <3>6. DOMAIN half = 0 .. n - 1
      BY <1>7
    <3> QED BY <1>2, <3>1, <3>3, <3>4, <3>5, <3>6
  <2>2. ASSUME NEW p \in 0 .. n - 1, p \notin index + count .. index + count + (size - index) - 1 PROVE gap[p] = half[p]
    <3>1. p < index \/ (~(p < index) /\ ~(p >= index + count /\ p < size + count))
      BY <1>0, <2>2
    <3> QED BY <1>5, <1>6, <3>1
  <2>3. DOMAIN half = 0 .. n - 1
    BY <1>7
  <2> QED BY <1>0, <1>4, <1>7, <2>1, <2>2, <2>3 DEF Transfers
<1>11. Arr(MoveConstruct(a, apart, index, index + count, size - index), gap, size, TRUE)
  BY <1>0, <1>9, <1>10, MoveConstructed
<1> QED BY <1>11 DEF apart, other, gap, size

\* arrayGrowAtBy() makes raw cells at the index.
LEMMA GrownAtBy ==
    ASSUME NEW a, NEW cap, NEW q, NEW growable, Whole(a, cap, q, growable), NEW index \in 0 .. Len(q), NEW count \in Nat
    PROVE  Opened(GrowAtBy(a, index, count), q, index, count)
<1>0. /\ q \in Seq(Values) /\ Len(q) \in Nat /\ cap \in Nat /\ growable \in BOOLEAN /\ Len(q) <= cap
      /\ (~growable => cap = Len(q))
      /\ Arr(a, Row(cap, q), Len(q), growable)
  BY LenProperties DEF Whole
<1>1. CASE count = 0
  <2>1. GrowAtBy(a, index, count) = a /\ Len(q) + count = Len(q) /\ Gap(cap, q, index, count) = Row(cap, q)
    BY <1>0, <1>1, GapIsRow DEF GrowAtBy
  <2> QED BY <1>0, <2>1 DEF Opened
<1>2. CASE count # 0
  <2> DEFINE apart == MoveConstruct(a, Allocate(a, Grow(0, a.size + count), a.size, TRUE), 0, 0, index)
             grown == IF a.size + count > Capacity(a) THEN Reallocate(a, Grow(Capacity(a), a.size + count)) ELSE a
             moved == IF a.growable THEN ShiftForward(grown, index, index + count, a.size - index)
                      ELSE MoveConstruct(a, apart, index, index + count, a.size - index)
  <2>1. GrowAtBy(a, index, count) = [moved EXCEPT !.size = @ + count]
    BY <1>2 DEF GrowAtBy
  <2>2. a.size = Len(q) /\ a.growable = growable /\ (growable => Capacity(a) = cap)
    BY <1>0, ElementsOf DEF Arr
  <2>3. \E n \in Nat : Arr(moved, Gap(n, q, index, count), Len(q), TRUE) /\ Len(q) + count <= n
    <3>1. CASE ~growable
      <4> DEFINE n == Grow(0, Len(q) + count)
      <4>1. n \in Nat /\ Len(q) + count <= n
        <5>1. Len(q) + count \in Nat
          BY <1>0
        <5> QED BY <1>0, <5>1, GrowIs
      <4>2. moved = MoveConstruct(a, MoveConstruct(a, Allocate(a, n, Len(q), TRUE), 0, 0, index), index, index + count, Len(q) - index)
        BY <2>2, <3>1
      <4> HIDE DEF n, moved
      <4>3. Arr(moved, Gap(n, q, index, count), Len(q), TRUE)
        BY <4>1, <4>2, MovedWithGap
      <4> QED BY <4>1, <4>3
    <3>2. CASE growable
      <4>1. \E n \in Nat : Arr(grown, Row(n, q), Len(q), TRUE) /\ Len(q) + count <= n
        <5>1. CASE Len(q) + count > cap
          <6> DEFINE n == Grow(cap, Len(q) + count)
          <6>1. n \in Nat /\ Len(q) + count <= n
            <7>1. Len(q) + count \in Nat
              BY <1>0
            <7> QED BY <1>0, <7>1, GrowIs
          <6>2. Len(q) <= n
            BY <1>0, <6>1
          <6>3. grown = Reallocate(a, n)
            BY <2>2, <3>2, <5>1
          <6> HIDE DEF n, grown
          <6>4. Arr(grown, Row(n, q), Len(q), TRUE)
            BY <6>1, <6>2, <6>3, Reallocated
          <6> QED BY <6>1, <6>4
        <5>2. CASE ~(Len(q) + count > cap)
          <6>1. grown = a
            BY <2>2, <3>2, <5>2
          <6>2. growable = TRUE /\ Len(q) + count <= cap
            BY <1>0, <3>2, <5>2
          <6> HIDE DEF grown
          <6> QED BY <1>0, <6>1, <6>2
        <5> QED BY <5>1, <5>2
      <4>2. moved = ShiftForward(grown, index, index + count, Len(q) - index)
        BY <2>2, <3>2
      <4> HIDE DEF grown, moved
      <4>3. PICK n \in Nat : Arr(grown, Row(n, q), Len(q), TRUE) /\ Len(q) + count <= n
        BY <4>1
      <4>4. Arr(moved, Gap(n, q, index, count), Len(q), TRUE)
        BY <1>0, <1>2, <4>2, <4>3, ShiftedForward
      <4> QED BY <4>3, <4>4
    <3> QED BY <1>0, <3>1, <3>2
  <2> HIDE DEF moved
  <2>4. PICK n \in Nat : Arr(moved, Gap(n, q, index, count), Len(q), TRUE) /\ Len(q) + count <= n
    BY <2>3
  <2>5. Arr([moved EXCEPT !.size = @ + count], Gap(n, q, index, count), Len(q) + count, TRUE)
    BY <2>4 DEF Arr
  <2> QED BY <2>1, <2>4, <2>5 DEF Opened
<1> QED BY <1>1, <1>2

-----------------------------------------------------------------------------

\* The elements around a gap are those of the longer sequence.
LEMMA GapAround ==
    ASSUME NEW q \in Seq(Values), NEW s \in Seq(Values), NEW index \in Nat, index <= Len(q),
           NEW cap \in Nat, Len(q) + Len(s) <= cap
    PROVE  /\ Row(cap, InsertedAt(q, index, s)) \in [0 .. cap - 1 -> Cell]
           /\ Gap(cap, q, index, Len(s)) \in [0 .. cap - 1 -> Cell]
           /\ \A p \in index .. index + Len(s) - 1 :
                 /\ p \in 0 .. cap - 1
                 /\ Gap(cap, q, index, Len(s))[p] = Raw
                 /\ Row(cap, InsertedAt(q, index, s))[p] = s[p - index + 1]
           /\ \A p \in 0 .. cap - 1 : p \notin index .. index + Len(s) - 1 =>
                 Row(cap, InsertedAt(q, index, s))[p] = Gap(cap, q, index, Len(s))[p]
<1> DEFINE r == InsertedAt(q, index, s)
           row == Row(cap, r)
           gap == Gap(cap, q, index, Len(s))
<1>0. Len(q) \in Nat /\ Len(s) \in Nat /\ index \in 0 .. Len(q)
  BY LenProperties
<1>1. /\ r \in Seq(Values) /\ Len(r) = Len(q) + Len(s)
      /\ \A p \in 0 .. Len(q) + Len(s) - 1 :
            r[p + 1] = IF p < index THEN q[p + 1] ELSE IF p < index + Len(s) THEN s[p - index + 1] ELSE q[p - Len(s) + 1]
  BY InsertedTo
<1> HIDE DEF r
<1>2. row \in [0 .. cap - 1 -> Cell]
  BY <1>0, <1>1, RowCells
<1>3. gap \in [0 .. cap - 1 -> Cell]
  BY <1>0, GapCells
<1>4. \A p \in 0 .. cap - 1 : row[p] = IF p < Len(q) + Len(s) THEN r[p + 1] ELSE Raw
  BY <1>1 DEF Row
<1>5. \A p \in 0 .. cap - 1 : gap[p] = CASE p < index -> q[p + 1]
                                         [] p >= index + Len(s) /\ p < Len(q) + Len(s) -> q[p - Len(s) + 1]
                                         [] OTHER -> Raw
  BY DEF Gap
<1> HIDE DEF row, gap
<1>6. ASSUME NEW p \in index .. index + Len(s) - 1 PROVE p \in 0 .. cap - 1 /\ gap[p] = Raw /\ row[p] = s[p - index + 1]
  <2>1. p \in 0 .. cap - 1 /\ p \in 0 .. Len(q) + Len(s) - 1 /\ ~(p < index) /\ p < index + Len(s) /\ p < Len(q) + Len(s)
    BY <1>0
  <2> QED BY <1>0, <1>1, <1>4, <1>5, <2>1
<1>7. ASSUME NEW p \in 0 .. cap - 1, p \notin index .. index + Len(s) - 1 PROVE row[p] = gap[p]
  <2>1. CASE p < index
    <3>1. p \in 0 .. Len(q) + Len(s) - 1 /\ p < Len(q) + Len(s)
      BY <1>0, <2>1
    <3> QED BY <1>1, <1>4, <1>5, <2>1, <3>1
  <2>2. CASE p >= index + Len(s) /\ p < Len(q) + Len(s)
    <3>1. p \in 0 .. Len(q) + Len(s) - 1 /\ ~(p < index) /\ ~(p < index + Len(s))
      BY <1>0, <2>2
    <3> QED BY <1>1, <1>4, <1>5, <2>2, <3>1
  <2>3. CASE p >= Len(q) + Len(s)
    <3>1. ~(p < index) /\ ~(p < Len(q) + Len(s))
      BY <1>0, <2>3
    <3> QED BY <1>4, <1>5, <3>1
  <2> QED BY <1>0, <1>7, <2>1, <2>2, <2>3
<1> QED BY <1>2, <1>3, <1>6, <1>7 DEF row, gap, r

\* What makes an array sound.
LEMMA NowWhole ==
    ASSUME NEW a, NEW cap \in Nat, NEW growable \in BOOLEAN, NEW r \in Seq(Values), NEW n, n = Len(r), n <= cap, ~growable => cap = n,
           Arr(a, Row(cap, r), n, growable)
    PROVE  Sound(a, r)
  BY DEF Sound, Whole

\* arrayCopyConstruct() of values from outside fills the gap.
LEMMA FilledOutside ==
    ASSUME NEW a, NEW q \in Seq(Values), NEW s \in Seq(Values), NEW index \in Nat, index <= Len(q),
           Opened(a, q, index, Len(s))
    PROVE  Sound(CopyOutside(a, index, s), InsertedAt(q, index, s))
<1>0. Len(q) \in Nat /\ Len(s) \in Nat
  BY LenProperties
<1>1. PICK cap, growable :
        /\ cap \in Nat
        /\ growable \in BOOLEAN
        /\ Len(q) + Len(s) <= cap
        /\ ~growable => cap = Len(q) + Len(s)
        /\ Arr(a, Gap(cap, q, index, Len(s)), Len(q) + Len(s), growable)
  BY DEF Opened
<1> DEFINE r == InsertedAt(q, index, s)
           row == Row(cap, r)
           gap == Gap(cap, q, index, Len(s))
<1>2. /\ row \in [0 .. cap - 1 -> Cell]
      /\ gap \in [0 .. cap - 1 -> Cell]
      /\ \A p \in index .. index + Len(s) - 1 : p \in 0 .. cap - 1 /\ gap[p] = Raw /\ row[p] = s[p - index + 1]
      /\ \A p \in 0 .. cap - 1 : p \notin index .. index + Len(s) - 1 => row[p] = gap[p]
  BY <1>1, GapAround
<1>3. r \in Seq(Values) /\ Len(r) = Len(q) + Len(s)
  BY InsertedTo
<1> HIDE DEF r, row, gap
<1>4. Copies(gap, index, s, row)
  BY <1>0, <1>1, <1>2 DEF Copies
<1>5. Arr(CopyOutside(a, index, s), row, Len(q) + Len(s), growable)
  BY <1>1, <1>4, CopiedOutside DEF gap
<1> QED BY <1>0, <1>1, <1>3, <1>5, NowWhole DEF row, r

\* An empty gap is full already.
LEMMA FilledAlready ==
    ASSUME NEW a, NEW q \in Seq(Values), NEW s \in Seq(Values), NEW index \in Nat, index <= Len(q),
           Opened(a, q, index, Len(s))
    PROVE  Len(s) = 0 => Sound(a, InsertedAt(q, index, s))
<1>0. Len(q) \in Nat /\ Len(s) \in Nat
  BY LenProperties
<1>1. PICK cap, growable :
        /\ cap \in Nat
        /\ growable \in BOOLEAN
        /\ Len(q) + Len(s) <= cap
        /\ ~growable => cap = Len(q) + Len(s)
        /\ Arr(a, Gap(cap, q, index, Len(s)), Len(q) + Len(s), growable)
  BY DEF Opened
<1> DEFINE r == InsertedAt(q, index, s)
           row == Row(cap, r)
           gap == Gap(cap, q, index, Len(s))
<1>2. /\ row \in [0 .. cap - 1 -> Cell]
      /\ gap \in [0 .. cap - 1 -> Cell]
      /\ \A p \in index .. index + Len(s) - 1 : p \in 0 .. cap - 1 /\ gap[p] = Raw /\ row[p] = s[p - index + 1]
      /\ \A p \in 0 .. cap - 1 : p \notin index .. index + Len(s) - 1 => row[p] = gap[p]
  BY <1>1, GapAround
<1>3. r \in Seq(Values) /\ Len(r) = Len(q) + Len(s)
  BY InsertedTo
<1> HIDE DEF r, row, gap
<1> SUFFICES ASSUME Len(s) = 0 PROVE Sound(a, InsertedAt(q, index, s))
  OBVIOUS
<1>4. row = gap
  <2>1. \A p \in 0 .. cap - 1 : row[p] = gap[p]
    BY <1>0, <1>2
  <2>2. row = [p \in 0 .. cap - 1 |-> row[p]] /\ gap = [p \in 0 .. cap - 1 |-> gap[p]]
    BY <1>2
  <2> QED BY <2>1, <2>2
<1>5. Arr(a, row, Len(q) + Len(s), growable)
  BY <1>1, <1>4 DEF gap
<1> QED BY <1>0, <1>1, <1>3, <1>5, NowWhole DEF row, r

\* Zeros() is that many values.
LEMMA ZerosAre ==
    ASSUME NEW n \in Nat
    PROVE  Zeros(n) \in Seq(Values) /\ Len(Zeros(n)) = n
<1>1. Zero \in Values
  BY GrowableArrayAssumption
<1> QED BY <1>1 DEF Zeros

\* arrayConstruct() of zeros fills the gap.
LEMMA FilledZeros ==
    ASSUME NEW a, NEW q \in Seq(Values), NEW index \in Nat, index <= Len(q), NEW count \in Nat, NEW end, end = index + count,
           Opened(a, q, index, count)
    PROVE  Sound(ConstructRange(a, index, end, Zero), InsertedAt(q, index, Zeros(count)))
<1>1. Zeros(count) \in Seq(Values) /\ Len(Zeros(count)) = count
  BY ZerosAre
<1>2. CASE count = 0
  <2>1. ConstructRange(a, index, end, Zero) = a
    BY <1>2 DEF ConstructRange
  <2> QED BY <1>1, <1>2, <2>1, FilledAlready
<1>3. CASE count # 0
  <2>1. index < end /\ end - index = count
    BY <1>3
  <2>2. ConstructRange(a, index, end, Zero) = CopyOutside(a, index, Zeros(count))
    BY <2>1 DEF ConstructRange, Zeros
  <2> QED BY <1>1, <2>2, FilledOutside
<1> QED BY <1>2, <1>3

\* A slice, element by element.
LEMMA SliceOf ==
    ASSUME NEW q \in Seq(Values), NEW offset \in Nat, NEW count \in Nat, offset + count <= Len(q)
    PROVE  /\ Slice(q, offset, count) \in Seq(Values)
           /\ Len(Slice(q, offset, count)) = count
           /\ \A k \in 1 .. count : Slice(q, offset, count)[k] = q[offset + k]
<1> DEFINE m == offset + 1
           n == offset + count
<1>0. Len(q) \in Nat /\ \A i \in 1 .. Len(q) : q[i] \in Values
  BY LenProperties
<1>1. m \in Int /\ n \in Int /\ (\A i \in m .. n : q[i] \in Values) /\ n - m + 1 = count /\ (~(m <= n) => count = 0)
  BY <1>0
<1>2. \A k \in 1 .. count : m + k - 1 = offset + k
  OBVIOUS
<1>3. Slice(q, offset, count) = SubSeq(q, m, n)
  BY DEF Slice
<1> HIDE DEF m, n
<1>4. /\ SubSeq(q, m, n) \in Seq(Values) /\ Len(SubSeq(q, m, n)) = (IF m <= n THEN n - m + 1 ELSE 0)
      /\ \A k \in 1 .. n - m + 1 : SubSeq(q, m, n)[k] = q[m + k - 1]
  BY <1>1, SubSeqProperties
<1> QED BY <1>1, <1>2, <1>3, <1>4

\* arrayCopyConstruct() of elements of the array, from where they are behind the
\* gap or before it, fills the gap.
LEMMA FilledOwn ==
    ASSUME NEW a, NEW q \in Seq(Values), NEW index \in Nat, index <= Len(q), NEW offset \in Nat, NEW count \in Nat,
           offset + count <= Len(q), index <= offset \/ offset + count <= index,
           NEW from \in Int, count = 0 \/ from = RelocateOffset(offset, index, count),
           Opened(a, q, index, count)
    PROVE  Sound(CopyOwn(a, index, from, count), InsertedAt(q, index, Slice(q, offset, count)))
<1> DEFINE s == Slice(q, offset, count)
           r == InsertedAt(q, index, s)
<1>0. Len(q) \in Nat
  BY LenProperties
<1>1. s \in Seq(Values) /\ Len(s) = count /\ \A k \in 1 .. count : s[k] = q[offset + k]
  BY SliceOf
<1>2. PICK cap, growable :
        /\ cap \in Nat
        /\ growable \in BOOLEAN
        /\ Len(q) + count <= cap
        /\ ~growable => cap = Len(q) + count
        /\ Arr(a, Gap(cap, q, index, count), Len(q) + count, growable)
  BY DEF Opened
<1> DEFINE row == Row(cap, r)
           gap == Gap(cap, q, index, count)
<1> HIDE DEF s
<1>3. /\ row \in [0 .. cap - 1 -> Cell]
      /\ gap \in [0 .. cap - 1 -> Cell]
      /\ \A p \in index .. index + count - 1 : p \in 0 .. cap - 1 /\ gap[p] = Raw /\ row[p] = s[p - index + 1]
      /\ \A p \in 0 .. cap - 1 : p \notin index .. index + count - 1 => row[p] = gap[p]
  <2>1. /\ row \in [0 .. cap - 1 -> Cell]
        /\ Gap(cap, q, index, Len(s)) \in [0 .. cap - 1 -> Cell]
        /\ \A p \in index .. index + Len(s) - 1 :
              p \in 0 .. cap - 1 /\ Gap(cap, q, index, Len(s))[p] = Raw /\ row[p] = s[p - index + 1]
        /\ \A p \in 0 .. cap - 1 : p \notin index .. index + Len(s) - 1 => row[p] = Gap(cap, q, index, Len(s))[p]
    <3>1. Len(q) + Len(s) <= cap /\ s \in Seq(Values)
      BY <1>1, <1>2
    <3> QED BY SMTT(30), <1>2, <3>1, GapAround
  <2>2. Gap(cap, q, index, Len(s)) = gap
    BY <1>1
  <2> HIDE DEF gap, row
  <2> QED BY <1>1, <2>1, <2>2
<1>4. r \in Seq(Values) /\ Len(r) = Len(q) + count
  BY <1>1, InsertedTo
<1>5. index \in 0 .. Len(q)
  BY <1>0
<1>6. /\ \A p \in 0 .. index - 1 : gap[p] = q[p + 1]
      /\ \A p \in index + count .. Len(q) + count - 1 : gap[p] = q[p - count + 1]
  BY <1>2, <1>5, GapCells
<1>7. \A v \in Values : v # Raw
  BY GrowableArrayAssumption
<1> HIDE DEF r, row, gap
<1>8. ASSUME NEW k \in 0 .. count - 1
      PROVE /\ index + k \in 0 .. cap - 1 /\ gap[index + k] = Raw
            /\ from + k \in 0 .. cap - 1 /\ gap[from + k] # Raw
            /\ row[index + k] = gap[from + k]
  <2>1. index + k \in index .. index + count - 1 /\ index + k - index + 1 = k + 1 /\ k + 1 \in 1 .. count
    OBVIOUS
  <2>2. row[index + k] = q[offset + (k + 1)] /\ gap[index + k] = Raw /\ index + k \in 0 .. cap - 1
    BY <1>1, <1>3, <2>1
  <2>3. offset + (k + 1) \in 1 .. Len(q)
    BY <1>0
  <2>4. from + k \in 0 .. cap - 1 /\ gap[from + k] = q[offset + (k + 1)]
    <3>1. CASE index <= offset
      <4>1. from = offset + count
        BY <3>1 DEF RelocateOffset
      <4>2. from + k \in index + count .. Len(q) + count - 1 /\ from + k - count + 1 = offset + (k + 1) /\ from + k \in 0 .. cap - 1
        BY <1>0, <1>2, <3>1, <4>1
      <4> DEFINE p == from + k
      <4> HIDE DEF p
      <4>3. gap[p] = q[p - count + 1]
        BY <1>6, <4>2 DEF p
      <4> QED BY <4>2, <4>3 DEF p
    <3>2. CASE ~(index <= offset)
      <4>1. from = offset
        BY <3>2 DEF RelocateOffset
      <4>2. from + k \in 0 .. index - 1 /\ from + k + 1 = offset + (k + 1) /\ from + k \in 0 .. cap - 1
        BY <1>0, <1>2, <3>2, <4>1
      <4> DEFINE p == from + k
      <4> HIDE DEF p
      <4>3. gap[p] = q[p + 1]
        BY <1>6, <4>2 DEF p
      <4> QED BY <4>2, <4>3 DEF p
    <3> QED BY <3>1, <3>2
  <2>5. q[offset + (k + 1)] # Raw
    BY <1>7, <2>3, LenProperties
  <2> QED BY <2>2, <2>4, <2>5
<1>9. CopiesOwn(gap, index, from, count, row)
  BY <1>3, <1>8 DEF CopiesOwn
<1>10. Arr(CopyOwn(a, index, from, count), row, Len(q) + count, growable)
  BY <1>2, <1>9, CopiedWithin DEF gap
<1> QED BY <1>0, <1>2, <1>4, <1>10, NowWhole DEF row, r, s

\* To insert at the end is to append.
LEMMA AppendedAt ==
    ASSUME NEW q \in Seq(Values), NEW s \in Seq(Values)
    PROVE  InsertedAt(q, Len(q), s) = q \o s
<1>1. Len(q) \in Nat /\ Len(s) \in Nat
  BY LenProperties
<1>2. /\ InsertedAt(q, Len(q), s) \in Seq(Values)
      /\ Len(InsertedAt(q, Len(q), s)) = Len(q) + Len(s)
      /\ \A p \in 0 .. Len(q) + Len(s) - 1 :
             InsertedAt(q, Len(q), s)[p + 1] = IF p < Len(q) THEN q[p + 1]
                                               ELSE IF p < Len(q) + Len(s) THEN s[p - Len(q) + 1]
                                               ELSE q[p - Len(s) + 1]
  <2> DEFINE index == Len(q)
  <2>1. index \in Nat /\ index <= Len(q)
    BY <1>1
  <2> HIDE DEF index
  <2>2. /\ InsertedAt(q, index, s) \in Seq(Values)
        /\ Len(InsertedAt(q, index, s)) = Len(q) + Len(s)
        /\ \A p \in 0 .. Len(q) + Len(s) - 1 :
              InsertedAt(q, index, s)[p + 1] = IF p < index THEN q[p + 1]
                                               ELSE IF p < index + Len(s) THEN s[p - index + 1]
                                               ELSE q[p - Len(s) + 1]
    BY <2>1, InsertedTo
  <2> QED BY <2>2 DEF index
<1>3. /\ q \o s \in Seq(Values) /\ Len(q \o s) = Len(q) + Len(s)
      /\ \A i \in 1 .. Len(q) + Len(s) : (q \o s)[i] = IF i <= Len(q) THEN q[i] ELSE s[i - Len(q)]
  BY ConcatProperties
<1>4. ASSUME NEW i \in 1 .. Len(q) + Len(s) PROVE InsertedAt(q, Len(q), s)[i] = (q \o s)[i]
  <2> DEFINE p == i - 1
  <2>1. p \in 0 .. Len(q) + Len(s) - 1 /\ p + 1 = i /\ (p < Len(q) <=> i <= Len(q)) /\ p < Len(q) + Len(s) /\ p - Len(q) + 1 = i - Len(q)
    BY <1>1
  <2> HIDE DEF p
  <2>2. InsertedAt(q, Len(q), s)[p + 1] = IF p < Len(q) THEN q[p + 1] ELSE s[p - Len(q) + 1]
    BY <1>2, <2>1
  <2> QED BY <1>3, <2>1, <2>2
<1> HIDE DEF InsertedAt
<1> QED BY <1>2, <1>3, <1>4, SeqEqual

-----------------------------------------------------------------------------

\* The first elements of a sequence.
LEMMA PrefixOf ==
    ASSUME NEW q \in Seq(Values), NEW n \in Nat, n <= Len(q)
    PROVE  /\ SubSeq(q, 1, n) \in Seq(Values)
           /\ Len(SubSeq(q, 1, n)) = n
           /\ \A i \in 1 .. n : SubSeq(q, 1, n)[i] = q[i]
           /\ n = Len(q) => SubSeq(q, 1, n) = q
<1>1. Len(q) \in Nat /\ \A i \in 1 .. Len(q) : q[i] \in Values
  BY LenProperties
<1>2. \A i \in 1 .. n : q[i] \in Values
  BY <1>1
<1>3. /\ SubSeq(q, 1, n) \in Seq(Values) /\ Len(SubSeq(q, 1, n)) = n
      /\ \A i \in 1 .. n : SubSeq(q, 1, n)[i] = q[i]
  BY <1>2, SubSeqProperties
<1>4. ASSUME n = Len(q) PROVE SubSeq(q, 1, n) = q
  <2> DEFINE s == SubSeq(q, 1, n)
  <2>1. s \in Seq(Values) /\ Len(s) = Len(q) /\ \A i \in 1 .. Len(s) : s[i] = q[i]
    BY <1>3, <1>4
  <2> HIDE DEF s
  <2>2. s = q
    BY <2>1, SeqEqual
  <2> QED BY <2>2 DEF s
<1> QED BY <1>3, <1>4

\* What a whole array says of its fields.
LEMMA SoundSize ==
    ASSUME NEW a, NEW cap, NEW q, NEW growable, Whole(a, cap, q, growable)
    PROVE  /\ q \in Seq(Values) /\ Len(q) \in Nat /\ cap \in Nat /\ growable \in BOOLEAN /\ Len(q) <= cap
           /\ (~growable => cap = Len(q))
           /\ Arr(a, Row(cap, q), Len(q), growable)
           /\ a.size = Len(q) /\ a.growable = growable /\ Capacity(a) = cap
<1>1. /\ q \in Seq(Values) /\ Len(q) \in Nat /\ cap \in Nat /\ growable \in BOOLEAN /\ Len(q) <= cap
      /\ (~growable => cap = Len(q))
      /\ Arr(a, Row(cap, q), Len(q), growable)
  BY LenProperties DEF Whole
<1> QED BY <1>1, ElementsOf DEF Arr

\* The first elements moved to other memory.
LEMMA MovedPrefix ==
    ASSUME NEW a, NEW cap, NEW q, NEW growable, Whole(a, cap, q, growable), NEW n \in Nat, n <= Len(q),
           NEW m \in Nat, n <= m, NEW size, NEW other \in BOOLEAN
    PROVE  Arr(MoveConstruct(a, Allocate(a, m, size, other), 0, 0, n), Row(m, SubSeq(q, 1, n)), size, other)
<1> DEFINE row == Row(cap, q)
           memory == Memory(m)
           b == Allocate(a, m, size, other)
           r == SubSeq(q, 1, n)
           result == Row(m, r)
           dom == 0 .. m - 1
<1>0. /\ q \in Seq(Values) /\ Len(q) \in Nat /\ cap \in Nat /\ Len(q) <= cap /\ Arr(a, row, Len(q), growable)
  BY SoundSize
<1>1. Arr(b, memory, size, other)
  BY ElementsOf
<1>2. r \in Seq(Values) /\ Len(r) = n /\ \A i \in 1 .. n : r[i] = q[i]
  BY <1>0, PrefixOf
<1> HIDE DEF r
<1>3. /\ result \in [dom -> Cell] /\ dom \in SUBSET Int
      /\ \A p \in 0 .. n - 1 : result[p] = r[p + 1]
      /\ \A p \in n .. m - 1 : result[p] = Raw
  BY <1>2, RowCells
<1>4. memory \in [dom -> Cell] /\ \A p \in dom : memory[p] = Raw
  BY DEF Memory, Cell
<1>5. \A p \in 0 .. Len(q) - 1 : p \in DOMAIN row /\ row[p] = q[p + 1] /\ row[p] # Raw
  BY <1>0, RowCells
<1> HIDE DEF row, memory, result, b
<1>6. Transfers(row, memory, 0, 0, n, result)
  <2>1. ASSUME NEW k \in 0 .. n - 1
        PROVE /\ k \in DOMAIN row /\ row[k] # Raw /\ k \in dom /\ memory[k] = Raw
              /\ result[k] = row[k]
    <3>1. k \in 0 .. Len(q) - 1 /\ k \in dom /\ k + 1 \in 1 .. n
      BY <1>0
    <3> QED BY <1>2, <1>3, <1>4, <1>5, <3>1
  <2>2. ASSUME NEW p \in dom, p \notin 0 .. n - 1 PROVE result[p] = memory[p]
    BY <1>3, <1>4, <2>2
  <2>3. DOMAIN memory = dom
    BY <1>4
  <2>4. /\ DOMAIN memory \in SUBSET Int /\ memory \in [DOMAIN memory -> Cell] /\ result \in [DOMAIN memory -> Cell]
        /\ 0 \in Int /\ n \in Int
    BY <1>3, <1>4, <2>3
  <2> HIDE DEF dom
  <2> QED BY <2>1, <2>2, <2>3, <2>4 DEF Transfers
<1>7. Arr(MoveConstruct(a, b, 0, 0, n), result, size, other)
  BY <1>0, <1>1, <1>6, MoveConstructed
<1> QED BY <1>7 DEF b, result, r

\* The last elements destructed.
LEMMA DestructedSuffix ==
    ASSUME NEW a, NEW cap, NEW q, NEW growable, Whole(a, cap, q, growable), NEW n \in Nat, n <= Len(q)
    PROVE  Arr(DestructRange(a, n, Len(q)), Row(cap, SubSeq(q, 1, n)), Len(q), growable)
<1> DEFINE size == Len(q)
           row == Row(cap, q)
           r == SubSeq(q, 1, n)
           left == Row(cap, r)
           places == Upwards(n, size - n)
           dom == 0 .. cap - 1
<1>0. /\ q \in Seq(Values) /\ size \in Nat /\ cap \in Nat /\ size <= cap /\ Arr(a, row, size, growable) /\ n <= size
  BY SoundSize
<1>1. r \in Seq(Values) /\ Len(r) = n /\ \A i \in 1 .. n : r[i] = q[i]
  BY <1>0, PrefixOf
<1> HIDE DEF r
<1>2. /\ left \in [dom -> Cell]
      /\ \A p \in 0 .. n - 1 : left[p] = r[p + 1]
      /\ \A p \in n .. cap - 1 : left[p] = Raw
  <2>1. Len(r) <= cap /\ cap \in Nat /\ r \in Seq(Values)
    BY <1>0, <1>1
  <2>2. /\ left \in [dom -> Cell]
        /\ \A p \in 0 .. Len(r) - 1 : left[p] = r[p + 1]
        /\ \A p \in Len(r) .. cap - 1 : left[p] = Raw
    BY <2>1, RowCells
  <2> HIDE DEF left
  <2> QED BY <1>1, <2>2
<1>3. /\ row \in [dom -> Cell]
      /\ \A p \in 0 .. size - 1 : row[p] = q[p + 1] /\ row[p] # Raw
      /\ \A p \in size .. cap - 1 : row[p] = Raw
  BY <1>0, RowCells
<1>4. /\ size - n \in Nat /\ DOMAIN places = 1 .. size - n
      /\ \A k \in 1 .. size - n : places[k] = n + k - 1
      /\ Before(places, size - n) = n .. size - 1
  <2> DEFINE count == size - n
  <2>1. count \in Nat /\ n + count - 1 = size - 1 /\ n \in Int
    BY <1>0
  <2> HIDE DEF count
  <2>2. /\ DOMAIN Upwards(n, count) = 1 .. count
        /\ \A k \in 1 .. count : Upwards(n, count)[k] = n + k - 1
        /\ Before(Upwards(n, count), count) = n .. n + count - 1
    BY <2>1, PlacesOf
  <2>3. places = Upwards(n, count)
    BY DEF count
  <2> HIDE DEF places
  <2> QED BY <2>1, <2>2, <2>3 DEF count
<1> HIDE DEF row, left, places, size
<1>5. Destructs(row, places, size - n, left)
  <2>1. \A j, k \in 1 .. size - n : places[j] = places[k] => j = k
    BY <1>0, <1>4
  <2>2. ASSUME NEW k \in 1 .. size - n PROVE places[k] \in dom /\ row[places[k]] # Raw
    <3>1. places[k] \in dom /\ places[k] \in 0 .. size - 1
      BY <1>0, <1>4
    <3> QED BY <1>3, <3>1
  <2>3. ASSUME NEW p \in dom PROVE left[p] = IF p \in n .. size - 1 THEN Raw ELSE row[p]
    <3>1. CASE p < n
      <4>1. p \in 0 .. n - 1 /\ p \in 0 .. size - 1 /\ p \notin n .. size - 1 /\ p + 1 \in 1 .. n
        BY <1>0, <3>1
      <4> QED BY <1>1, <1>2, <1>3, <4>1
    <3>2. CASE p >= n
      <4>1. p \in n .. cap - 1 /\ (p \notin n .. size - 1 => p \in size .. cap - 1)
        BY <1>0, <3>2
      <4> QED BY <1>2, <1>3, <4>1
    <3> QED BY <1>0, <3>1, <3>2
  <2>4. DOMAIN row = dom
    BY <1>3
  <2> HIDE DEF dom
  <2> QED BY <1>2, <1>3, <1>4, <2>1, <2>2, <2>3, <2>4 DEF Destructs
<1>6. Arr(DestructEach(a, places), left, size, growable)
  BY <1>0, <1>5, DestructedEach
<1> QED BY <1>6 DEF DestructRange, places, left, size, r

\* The size alone changed.
LEMMA Resizing ==
    ASSUME NEW a, NEW cells, NEW was, NEW growable, Arr(a, cells, was, growable), NEW size
    PROVE  Arr([a EXCEPT !.size = size], cells, size, growable)
  BY DEF Arr

\* The size alone lessened.
LEMMA ShrinkingBy ==
    ASSUME NEW a, NEW cells, NEW was, NEW growable, Arr(a, cells, was, growable), NEW count
    PROVE  Arr([a EXCEPT !.size = @ - count], cells, was - count, growable)
  BY DEF Arr

\* What is before and what is after the elements to be removed, in other memory.
LEMMA MovedApartIs ==
    ASSUME NEW cap, NEW q, NEW growable, Whole(array, cap, q, growable), NEW index \in Nat, NEW count \in Nat, index + count <= Len(q)
    PROVE  Sound(MovedApart(index, count), RemovedAt(q, index, count))
<1> DEFINE size == Len(q)
           n == size - count
           row == Row(cap, q)
           r == RemovedAt(q, index, count)
           before == SubSeq(q, 1, index)
           half == Row(n, before)
           left == Row(n, r)
           apart == MoveConstruct(array, Allocate(array, n, n, TRUE), 0, 0, index)
           dom == 0 .. n - 1
<1>0. /\ q \in Seq(Values) /\ size \in Nat /\ cap \in Nat /\ size <= cap /\ Arr(array, row, size, growable)
      /\ n \in Nat /\ index <= n /\ index <= size /\ n = size - count /\ index + count <= size
  BY SoundSize
<1>1. Arr(apart, half, n, TRUE)
  <2> HIDE DEF n
  <2> QED BY <1>0, MovedPrefix
<1>2. /\ r \in Seq(Values) /\ Len(r) = n
      /\ \A p \in 0 .. n - 1 : r[p + 1] = IF p < index THEN q[p + 1] ELSE q[p + count + 1]
  BY <1>0, RemovedFrom
<1>3. before \in Seq(Values) /\ Len(before) = index /\ \A i \in 1 .. index : before[i] = q[i]
  BY <1>0, PrefixOf
<1> HIDE DEF r, before, n
<1>4. left \in [dom -> Cell] /\ \A p \in 0 .. n - 1 : left[p] = r[p + 1]
  BY SMTT(30), <1>0, <1>2, RowCells
<1>5. /\ half \in [dom -> Cell]
      /\ \A p \in 0 .. index - 1 : half[p] = before[p + 1]
      /\ \A p \in index .. n - 1 : half[p] = Raw
  <2>1. Len(before) <= n /\ n \in Nat /\ before \in Seq(Values)
    BY <1>0, <1>3
  <2>2. /\ half \in [dom -> Cell]
        /\ \A p \in 0 .. Len(before) - 1 : half[p] = before[p + 1]
        /\ \A p \in Len(before) .. n - 1 : half[p] = Raw
    BY <2>1, RowCells
  <2> HIDE DEF half
  <2> QED BY <1>3, <2>2
<1>6. \A p \in 0 .. size - 1 : p \in DOMAIN row /\ row[p] = q[p + 1] /\ row[p] # Raw
  BY <1>0, RowCells
<1> HIDE DEF row, half, left, size, apart
<1>7. Transfers(row, half, index + count, index, size - index - count, left)
  <2>1. ASSUME NEW k \in 0 .. size - index - count - 1
        PROVE /\ index + count + k \in DOMAIN row /\ row[index + count + k] # Raw
              /\ index + k \in dom /\ half[index + k] = Raw
              /\ left[index + k] = row[index + count + k]
    <3>1. /\ index + count + k \in 0 .. size - 1 /\ index + k \in 0 .. n - 1 /\ index + k \in index .. n - 1
          /\ ~(index + k < index) /\ index + k + count + 1 = index + count + k + 1
      BY <1>0
    <3>2. left[index + k] = r[index + k + 1]
      BY <1>4, <3>1
    <3>3. r[index + k + 1] = q[index + k + count + 1]
      <4> DEFINE p == index + k
      <4> HIDE DEF p
      <4>1. r[p + 1] = q[p + count + 1]
        BY <1>2, <3>1 DEF p
      <4> QED BY <4>1 DEF p
    <3> QED BY <1>5, <1>6, <3>1, <3>2, <3>3
  <2>2. ASSUME NEW p \in dom, p \notin index .. index + (size - index - count) - 1 PROVE left[p] = half[p]
    <3>1. p < index /\ p \in 0 .. index - 1 /\ p \in 0 .. n - 1 /\ p + 1 \in 1 .. index
      BY <1>0, <2>2
    <3> QED BY <1>2, <1>3, <1>4, <1>5, <3>1
  <2>3. DOMAIN half = dom
    BY <1>5
  <2>4. index + count \in Int /\ index \in Int /\ size - index - count \in Int /\ dom \in SUBSET Int
    BY <1>0
  <2> HIDE DEF dom
  <2> QED BY <1>4, <1>5, <2>1, <2>2, <2>3, <2>4 DEF Transfers
<1>8. Arr(MoveConstruct(array, apart, index + count, index, size - index - count), left, n, TRUE)
  BY <1>0, <1>1, <1>7, MoveConstructed
<1>9. MovedApart(index, count) = MoveConstruct(array, apart, index + count, index, size - index - count)
  <2>1. array.size = size
    BY <1>0 DEF Arr
  <2> QED BY <2>1 DEF MovedApart, apart, n
<1>10. Arr(MovedApart(index, count), Row(n, r), n, TRUE)
  BY <1>8, <1>9 DEF left
<1>11. Sound(MovedApart(index, count), r)
  <2>1. n <= n /\ TRUE \in BOOLEAN /\ n = Len(r)
    BY <1>0, <1>2
  <2> QED BY <1>0, <1>2, <1>10, <2>1, NowWhole
<1> QED BY <1>11 DEF r

-----------------------------------------------------------------------------

\* An array without memory holds the empty sequence.
LEMMA StartsSound == ArrayInit => Sound(array, contents)
<1> SUFFICES ASSUME ArrayInit PROVE Sound(array, contents)
  OBVIOUS
<1>1. Arr(array, Memory(0), 0, FALSE) /\ contents = <<>>
  BY DEF ArrayInit, Arr
<1>2. Memory(0) = Row(0, <<>>)
  BY DEF Memory, Row
<1>3. <<>> \in Seq(Values) /\ Len(<<>>) = 0
  OBVIOUS
<1>4. contents \in Seq(Values) /\ Len(contents) = 0
  BY <1>1, <1>3
<1>5. Arr(array, Row(0, contents), Len(contents), FALSE)
  BY <1>1, <1>2, <1>4
<1>6. Whole(array, 0, contents, FALSE)
  <2>1. 0 \in Nat /\ FALSE \in BOOLEAN /\ Len(contents) <= 0
    BY <1>4
  <2>2. ~FALSE => 0 = Len(contents)
    BY <1>4
  <2> QED BY <1>4, <1>5, <2>1, <2>2, Zenon DEF Whole
<1> QED BY <1>6, Zenon DEF Sound

\* What the calls add are sequences of values.
LEMMA AddedAre ==
    ASSUME NEW values \in Added
    PROVE  values \in Seq(Values) /\ Len(values) \in Nat
  BY GrowableArrayAssumption DEF Added

\* New memory is a gap in nothing.
LEMMA AllocatedOpen ==
    ASSUME NEW a, NEW q, Sound(a, q), NEW n \in Nat
    PROVE  Opened(Allocate(a, n, n, FALSE), <<>>, 0, n) /\ Arr(Allocate(a, n, n, FALSE), Memory(n), n, FALSE)
<1>1. PICK cap, growable : Whole(a, cap, q, growable)
  BY DEF Sound
<1>2. Arr(Allocate(a, n, n, FALSE), Memory(n), n, FALSE)
  BY <1>1, ElementsOf
<1>3. Gap(n, <<>>, 0, n) = Memory(n)
  <2>1. Len(<<>>) = 0
    OBVIOUS
  <2> QED BY <2>1 DEF Gap, Memory
<1>4. Len(<<>>) + n = n /\ n <= n
  OBVIOUS
<1> QED BY <1>2, <1>3, <1>4 DEF Opened

\* AssignArray() keeps the array sound.
LEMMA KeepsAssign ==
    ASSUME Sound(array, contents), NEW values \in Added, AssignArray(values)
    PROVE  Sound(array', contents')
<1>1. values \in Seq(Values) /\ Len(values) \in Nat
  BY AddedAre
<1> DEFINE n == Len(values)
           none == <<>>
           b == Allocate(array, n, n, FALSE)
<1>2. Opened(b, none, 0, n)
  BY <1>1, AllocatedOpen
<1>3. none \in Seq(Values) /\ Len(none) = 0 /\ none \o values = values
  BY <1>1, ConcatEmptySeq
<1> HIDE DEF none, b
<1>4. InsertedAt(none, 0, values) = values
  BY <1>1, <1>3, AppendedAt
<1>5. Sound(CopyOutside(b, 0, values), InsertedAt(none, 0, values))
  <2>1. 0 \in Nat /\ 0 <= Len(none) /\ Opened(b, none, 0, Len(values))
    BY <1>2, <1>3
  <2> QED BY <1>1, <1>3, <2>1, FilledOutside
<1> QED BY <1>4, <1>5 DEF AssignArray, b

\* arrayAppend() of values from elsewhere keeps the array sound.
LEMMA KeepsAppend ==
    ASSUME Sound(array, contents), NEW values \in Added, ArrayAppend(values)
    PROVE  Sound(array', contents')
<1>1. PICK cap, growable : Whole(array, cap, contents, growable)
  BY DEF Sound
<1>2. contents \in Seq(Values) /\ Len(contents) \in Nat /\ array.size = Len(contents)
  BY <1>1, SoundSize
<1>3. values \in Seq(Values) /\ Len(values) \in Nat
  BY AddedAre
<1>4. Opened(GrowBy(array, Len(values)), contents, Len(contents), Len(values))
  BY <1>1, <1>3, GrownBy
<1>5. Sound(CopyOutside(GrowBy(array, Len(values)), Len(contents), values), InsertedAt(contents, Len(contents), values))
  <2> DEFINE b == GrowBy(array, Len(values))
             index == Len(contents)
  <2>1. index \in Nat /\ index <= Len(contents) /\ Opened(b, contents, index, Len(values))
    BY <1>2, <1>4
  <2> HIDE DEF b, index
  <2>2. Sound(CopyOutside(b, index, values), InsertedAt(contents, index, values))
    BY <1>2, <1>3, <2>1, FilledOutside
  <2> QED BY <2>2 DEF b, index
<1>6. InsertedAt(contents, Len(contents), values) = contents \o values
  BY <1>2, <1>3, AppendedAt
<1> QED BY <1>2, <1>5, <1>6 DEF ArrayAppend

\* arrayAppend() of a slice of the array, which may move meanwhile, keeps it sound.
LEMMA KeepsAppendOwn ==
    ASSUME Sound(array, contents), NEW offset \in Nat, NEW count \in Nat, ArrayAppendOwn(offset, count)
    PROVE  Sound(array', contents')
<1>1. PICK cap, growable : Whole(array, cap, contents, growable)
  BY DEF Sound
<1>2. contents \in Seq(Values) /\ Len(contents) \in Nat /\ array.size = Len(contents) /\ Capacity(array) = cap /\ Len(contents) <= cap /\ cap \in Nat
  BY <1>1, SoundSize
<1> DEFINE s == Slice(contents, offset, count)
           b == GrowBy(array, count)
           index == Len(contents)
<1>3. offset + count <= Len(contents)
  BY <1>2 DEF ArrayAppendOwn
<1>4. s \in Seq(Values) /\ Len(s) = count
  BY <1>2, <1>3, SliceOf
<1>5. Opened(b, contents, index, count)
  BY <1>1, GrownBy
<1>6. InsertedAt(contents, index, s) = contents \o s
  <2> HIDE DEF s
  <2> QED BY <1>2, <1>4, AppendedAt
<1>7. index \in Nat /\ index <= Len(contents)
  BY <1>2
<1>8. array' = (IF offset >= Capacity(array) THEN b ELSE CopyOwn(b, index, offset, count)) /\ contents' = contents \o s
  BY <1>2 DEF ArrayAppendOwn
<1>9. CASE offset >= cap
  <2>1. count = 0
    BY <1>2, <1>3, <1>9
  <2> HIDE DEF s, b, index
  <2>2. Sound(b, InsertedAt(contents, index, s))
    BY <1>2, <1>4, <1>5, <1>7, <2>1, FilledAlready
  <2> QED BY <1>2, <1>6, <1>8, <1>9, <2>2
<1>10. CASE ~(offset >= cap)
  <2>1. index <= offset \/ offset + count <= index
    BY <1>3
  <2>2. count = 0 \/ offset = RelocateOffset(offset, index, count)
    BY <1>2, <1>3 DEF RelocateOffset
  <2>3. offset \in Int
    OBVIOUS
  <2> HIDE DEF b, index
  <2>4. Sound(CopyOwn(b, index, offset, count), InsertedAt(contents, index, s))
    BY <1>2, <1>3, <1>5, <1>7, <2>1, <2>2, <2>3, FilledOwn
  <2> QED BY <1>2, <1>6, <1>8, <1>10, <2>4
<1> QED BY <1>9, <1>10

\* arrayAppend(ValueInit) keeps the array sound.
LEMMA KeepsAppendValueInit ==
    ASSUME Sound(array, contents), NEW count \in Nat, ArrayAppendValueInit(count)
    PROVE  Sound(array', contents')
<1>1. PICK cap, growable : Whole(array, cap, contents, growable)
  BY DEF Sound
<1>2. contents \in Seq(Values) /\ Len(contents) \in Nat /\ array.size = Len(contents)
  BY <1>1, SoundSize
<1> DEFINE b == GrowBy(array, count)
           index == Len(contents)
<1>3. Opened(b, contents, index, count)
  BY <1>1, GrownBy
<1>4. index \in Nat /\ index <= Len(contents)
  BY <1>2
<1>5. array' = ConstructRange(b, index, index + count, Zero) /\ contents' = contents \o Zeros(count)
  BY <1>2 DEF ArrayAppendValueInit
<1>6. InsertedAt(contents, index, Zeros(count)) = contents \o Zeros(count)
  <2>1. Zeros(count) \in Seq(Values)
    BY ZerosAre
  <2> QED BY <1>2, <2>1, AppendedAt
<1> HIDE DEF b, index
<1>7. Sound(ConstructRange(b, index, index + count, Zero), InsertedAt(contents, index, Zeros(count)))
  BY <1>2, <1>3, <1>4, FilledZeros
<1> QED BY <1>5, <1>6, <1>7

\* arrayInsert() of values from elsewhere keeps the array sound.
LEMMA KeepsInsert ==
    ASSUME Sound(array, contents), NEW values \in Added, NEW index \in Index, ArrayInsert(index, values)
    PROVE  Sound(array', contents')
<1>1. PICK cap, growable : Whole(array, cap, contents, growable)
  BY DEF Sound
<1>2. contents \in Seq(Values) /\ Len(contents) \in Nat /\ array.size = Len(contents)
  BY <1>1, SoundSize
<1>3. values \in Seq(Values) /\ Len(values) \in Nat
  BY AddedAre
<1>4. index \in 0 .. Len(contents) /\ index \in Nat /\ index <= Len(contents)
  BY <1>2 DEF Index
<1>5. Opened(GrowAtBy(array, index, Len(values)), contents, index, Len(values))
  BY <1>1, <1>3, <1>4, GrownAtBy
<1>6. Sound(CopyOutside(GrowAtBy(array, index, Len(values)), index, values), InsertedAt(contents, index, values))
  BY <1>2, <1>3, <1>4, <1>5, FilledOutside
<1> QED BY <1>6 DEF ArrayInsert

\* arrayInsert() of a slice of the array, before or behind the index, keeps it sound.
LEMMA KeepsInsertOwn ==
    ASSUME Sound(array, contents), NEW index \in Index, NEW offset \in Nat, NEW count \in Nat, ArrayInsertOwn(index, offset, count)
    PROVE  Sound(array', contents')
<1>1. PICK cap, growable : Whole(array, cap, contents, growable)
  BY DEF Sound
<1>2. contents \in Seq(Values) /\ Len(contents) \in Nat /\ array.size = Len(contents) /\ Capacity(array) = cap /\ Len(contents) <= cap /\ cap \in Nat
  BY <1>1, SoundSize
<1>3. index \in 0 .. Len(contents) /\ index \in Nat /\ index <= Len(contents)
  BY <1>2 DEF Index
<1> DEFINE s == Slice(contents, offset, count)
           b == GrowAtBy(array, index, count)
           from == RelocateOffset(offset, index, count)
<1>4. offset + count <= Len(contents) /\ (index <= offset \/ offset + count <= index)
  BY <1>2 DEF ArrayInsertOwn
<1>5. s \in Seq(Values) /\ Len(s) = count
  BY <1>2, <1>4, SliceOf
<1>6. Opened(b, contents, index, count)
  BY <1>1, <1>3, GrownAtBy
<1>7. array' = (IF offset >= Capacity(array) THEN b ELSE CopyOwn(b, index, from, count)) /\ contents' = InsertedAt(contents, index, s)
  BY DEF ArrayInsertOwn
<1>8. CASE offset >= cap
  <2>1. count = 0
    BY <1>2, <1>4, <1>8
  <2> HIDE DEF s, b
  <2>2. Sound(b, InsertedAt(contents, index, s))
    BY <1>2, <1>3, <1>5, <1>6, <2>1, FilledAlready
  <2> QED BY <1>2, <1>7, <1>8, <2>2
<1>9. CASE ~(offset >= cap)
  <2>1. from \in Int
    BY <1>3 DEF RelocateOffset
  <2>2. from = RelocateOffset(offset, index, count)
    OBVIOUS
  <2> HIDE DEF b, from
  <2>3. Sound(CopyOwn(b, index, from, count), InsertedAt(contents, index, s))
    BY <1>2, <1>3, <1>4, <1>6, <2>1, <2>2, FilledOwn
  <2> QED BY <1>2, <1>7, <1>9, <2>3
<1> QED BY <1>8, <1>9

\* arrayInsert(ValueInit) keeps the array sound.
LEMMA KeepsInsertValueInit ==
    ASSUME Sound(array, contents), NEW index \in Index, NEW count \in Nat, ArrayInsertValueInit(index, count)
    PROVE  Sound(array', contents')
<1>1. PICK cap, growable : Whole(array, cap, contents, growable)
  BY DEF Sound
<1>2. contents \in Seq(Values) /\ Len(contents) \in Nat /\ array.size = Len(contents)
  BY <1>1, SoundSize
<1>3. index \in 0 .. Len(contents) /\ index \in Nat /\ index <= Len(contents)
  BY <1>2 DEF Index
<1>4. Opened(GrowAtBy(array, index, count), contents, index, count)
  BY <1>1, <1>3, GrownAtBy
<1>5. Sound(ConstructRange(GrowAtBy(array, index, count), index, index + count, Zero), InsertedAt(contents, index, Zeros(count)))
  BY <1>2, <1>3, <1>4, FilledZeros
<1> QED BY <1>5 DEF ArrayInsertValueInit


\* To remove nothing changes nothing.
LEMMA RemovedNone ==
    ASSUME NEW q \in Seq(Values), NEW index \in Nat, index <= Len(q)
    PROVE  RemovedAt(q, index, 0) = q
<1> DEFINE r == RemovedAt(q, index, 0)
<1>0. Len(q) \in Nat
  BY LenProperties
<1>1. /\ r \in Seq(Values) /\ Len(r) = Len(q) - 0
      /\ \A p \in 0 .. Len(q) - 0 - 1 : r[p + 1] = IF p < index THEN q[p + 1] ELSE q[p + 0 + 1]
  <2>1. index + 0 <= Len(q)
    BY <1>0
  <2> QED BY <2>1, RemovedFrom
<1> HIDE DEF r
<1>2. ASSUME NEW i \in 1 .. Len(q) PROVE r[i] = q[i]
  <2> DEFINE p == i - 1
  <2>1. p \in 0 .. Len(q) - 0 - 1 /\ p + 1 = i /\ p + 0 + 1 = p + 1
    BY <1>0
  <2> HIDE DEF p
  <2>2. r[p + 1] = IF p < index THEN q[p + 1] ELSE q[p + 1]
    BY <1>1, <2>1
  <2> QED BY <2>1, <2>2
<1>3. Len(r) = Len(q)
  BY <1>0, <1>1
<1>4. r = q
  BY <1>1, <1>2, <1>3, SeqEqual
<1> QED BY <1>4 DEF r

\* arrayRemove() keeps the array sound.
LEMMA KeepsRemove ==
    ASSUME Sound(array, contents), NEW index \in Index, NEW count \in Index, ArrayRemove(index, count)
    PROVE  Sound(array', contents')
<1>1. PICK cap, growable : Whole(array, cap, contents, growable)
  BY DEF Sound
<1>2. /\ contents \in Seq(Values) /\ Len(contents) \in Nat /\ array.size = Len(contents) /\ array.growable = growable
      /\ Len(contents) <= cap /\ cap \in Nat /\ growable \in BOOLEAN /\ Arr(array, Row(cap, contents), Len(contents), growable)
  BY <1>1, SoundSize
<1>3. index \in Nat /\ count \in Nat /\ index + count <= Len(contents)
  BY <1>2 DEF Index, ArrayRemove
<1>4. contents' = RemovedAt(contents, index, count)
  BY DEF ArrayRemove
<1>5. CASE count = 0
  <2>1. array' = array
    BY <1>5 DEF ArrayRemove
  <2>2. index <= Len(contents)
    BY <1>2, <1>3
  <2>3. RemovedAt(contents, index, 0) = contents
    BY <1>2, <1>3, <2>2, RemovedNone
  <2> QED BY <1>4, <1>5, <2>1, <2>3
<1>6. CASE count # 0 /\ ~growable
  <2>1. array' = MovedApart(index, count)
    BY <1>2, <1>3, <1>6 DEF ArrayRemove
  <2>2. Sound(MovedApart(index, count), RemovedAt(contents, index, count))
    BY <1>1, <1>3, MovedApartIs
  <2> QED BY <1>4, <2>1, <2>2
<1>7. CASE count # 0 /\ growable
  <2> DEFINE src == index + count
             moveCount == Len(contents) - index - count
             b == ShiftBackward(array, src, index, moveCount, count)
             r == RemovedAt(contents, index, count)
  <2>1. array' = [b EXCEPT !.size = @ - count]
    BY <1>2, <1>3, <1>7 DEF ArrayRemove
  <2>2. /\ r \in Seq(Values) /\ Len(r) = Len(contents) - count
        /\ \A p \in 0 .. Len(contents) - count - 1 : r[p + 1] = IF p < index THEN contents[p + 1] ELSE contents[p + count + 1]
    BY <1>2, <1>3, RemovedFrom
  <2>3. /\ src \in Nat /\ moveCount \in Nat /\ index < src /\ src + moveCount = Len(contents)
        /\ index + moveCount + count = Len(contents) /\ src = index + count
    BY <1>2, <1>3, <1>7
  <2> HIDE DEF r, src, moveCount, b
  <2>4. ASSUME NEW p \in 0 .. Len(r) - 1
        PROVE  r[p + 1] = IF p \in index .. index + moveCount - 1 THEN contents[p + src - index + 1] ELSE contents[p + 1]
    <3>1. p \in 0 .. Len(contents) - count - 1 /\ (p < index <=> p \notin index .. index + moveCount - 1) /\ p + src - index + 1 = p + count + 1
      <4>1. Len(contents) \in Nat /\ count \in Nat /\ index \in Nat /\ moveCount \in Nat /\ Len(r) = Len(contents) - count
        BY <1>2, <1>3, <2>2, <2>3
      <4>2. index + moveCount + count = Len(contents) /\ src = index + count
        BY <2>3
      <4>3. p \in 0 .. Len(contents) - count - 1
        BY <4>1
      <4>4. p < index <=> p \notin index .. index + moveCount - 1
        BY <4>1, <4>2
      <4>5. p + src - index + 1 = p + count + 1
        BY <4>1, <4>2
      <4> QED BY <4>3, <4>4, <4>5
    <3> QED BY <2>2, <3>1
  <2>5. Closes(contents, r, src, index, moveCount, count)
    <3>1. index + moveCount + count <= Len(contents)
      BY <1>2, <2>3
    <3> QED BY <1>2, <1>3, <2>2, <2>3, <2>4, <3>1 DEF Closes
  <2>6. Arr(b, Row(cap, r), Len(contents), growable)
    BY <1>2, <2>5, ShiftedBackward DEF b
  <2>7. Arr(array', Row(cap, r), Len(contents) - count, growable)
    BY <2>1, <2>6, ShrinkingBy
  <2>8. Sound(array', r)
    <3>1. Len(contents) - count <= cap /\ Len(contents) - count = Len(r)
      BY <1>2, <1>3, <2>2
    <3> QED BY <1>2, <1>7, <2>2, <2>7, <3>1, NowWhole
  <2> QED BY <1>4, <2>8 DEF r
<1> QED BY <1>5, <1>6, <1>7

\* The sequence that arrayRemoveUnordered() leaves, m elements of the end moved up.
Reordered(q, index, count, m) ==
    SubSeq(q, 1, index) \o Slice(q, Len(q) - m, m) \o SubSeq(q, index + count + 1, Len(q) - m)

\* Elements that can be removed, the m last of the others to take the places.
CanReorder(q, index, count, m) ==
    /\ q \in Seq(Values)
    /\ index \in Nat /\ count \in Nat /\ index + count <= Len(q)
    /\ m = Smaller(count, Len(q) - count - index)

\* The sequence that arrayRemoveUnordered() asks for, element by element.
LEMMA ReorderedIs ==
    ASSUME NEW q, NEW index, NEW count, NEW m, CanReorder(q, index, count, m)
    PROVE  /\ m \in Nat /\ m <= count /\ index + count + m <= Len(q) /\ (m = count \/ index + count + m = Len(q))
           /\ Reordered(q, index, count, m) \in Seq(Values)
           /\ Len(Reordered(q, index, count, m)) = Len(q) - count
           /\ \A p \in 0 .. Len(q) - count - 1 :
                 Reordered(q, index, count, m)[p + 1] =
                     IF p \in index .. index + m - 1 THEN q[p + (Len(q) - m) - index + 1] ELSE q[p + 1]
<1> DEFINE n == Len(q)
           src == n - m
           s1 == SubSeq(q, 1, index)
           s2 == Slice(q, src, m)
           s3 == SubSeq(q, index + count + 1, src)
           r == s1 \o s2 \o s3
<1>0. m = Smaller(count, Len(q) - count - index)
  BY DEF CanReorder
<1> q \in Seq(Values) /\ index \in Nat /\ count \in Nat /\ index + count <= Len(q)
  BY DEF CanReorder
<1>1. n \in Nat /\ \A i \in 1 .. n : q[i] \in Values
  BY LenProperties, ElementOfSeq
<1>2. m \in Nat /\ m <= count /\ index + count + m <= n /\ (m = count \/ index + count + m = n)
  <2> DEFINE rest == n - count - index
  <2>1. rest \in Nat /\ rest + count + index = n
    BY <1>1
  <2> HIDE DEF rest
  <2>2. (count < rest /\ m = count) \/ (~(count < rest) /\ m = rest)
    BY <1>0 DEF Smaller, rest
  <2> HIDE DEF n
  <2> QED BY <1>1, <2>1, <2>2
<1>3. src \in Nat /\ src + m = n /\ index <= n /\ index + count <= src
  BY <1>1, <1>2
<1>4. s1 \in Seq(Values) /\ Len(s1) = index /\ \A i \in 1 .. index : s1[i] = q[i]
  BY <1>1, <1>3, PrefixOf
<1>5. s2 \in Seq(Values) /\ Len(s2) = m /\ \A k \in 1 .. m : s2[k] = q[src + k]
  <2> HIDE DEF src, s2
  <2>1. src + m <= Len(q)
    BY <1>1, <1>3
  <2>2. Slice(q, src, m) \in Seq(Values) /\ Len(Slice(q, src, m)) = m /\ \A k \in 1 .. m : Slice(q, src, m)[k] = q[src + k]
    BY <1>2, <1>3, <2>1, SliceOf
  <2> QED BY <2>2 DEF s2
<1>6. s3 \in Seq(Values) /\ Len(s3) = src - (index + count) /\ \A k \in 1 .. src - (index + count) : s3[k] = q[index + count + k]
  <2> DEFINE l == index + count + 1
  <2> HIDE DEF src, n
  <2>a. l \in Nat /\ 1 <= l
    OBVIOUS
  <2>b. n \in Nat /\ src \in Nat
    BY <1>1, <1>3
  <2>c. src <= n
    BY <2>b, <1>2, <1>3
  <2> HIDE DEF l
  <2>0. l \in Nat /\ 1 <= l /\ src \in Nat /\ src <= n /\ n \in Nat
    BY <2>a, <2>b, <2>c
  <2>1. l \in Int /\ src \in Int /\ \A i \in l .. src : i \in 1 .. n
    BY <2>0
  <2> USE DEF l
  <2>2. \A i \in l .. src : q[i] \in Values
    BY <1>1, <2>1
  <2> HIDE DEF src
  <2>3. src - l + 1 = src - (index + count) /\ src - (index + count) \in Nat
    BY <1>3
  <2> HIDE DEF l
  <2>4. /\ SubSeq(q, l, src) \in Seq(Values)
        /\ Len(SubSeq(q, l, src)) = IF l <= src THEN src - l + 1 ELSE 0
        /\ \A i \in 1 .. src - l + 1 : SubSeq(q, l, src)[i] = q[l + i - 1]
    BY <2>1, <2>2, SubSeqProperties
  <2>5. Len(SubSeq(q, l, src)) = src - (index + count)
    BY <2>1, <2>3, <2>4
  <2>6. \A k \in 1 .. src - (index + count) : SubSeq(q, l, src)[k] = q[index + count + k]
    <3> TAKE k \in 1 .. src - (index + count)
    <3>1. SubSeq(q, l, src)[k] = q[l + k - 1]
      BY <2>3, <2>4
    <3>2. l + k - 1 = index + count + k
      BY DEF l
    <3> QED BY <3>1, <3>2
  <2> QED BY <2>4, <2>5, <2>6 DEF l
<1> HIDE DEF s1, s2, s3
<1>7. /\ s1 \o s2 \in Seq(Values) /\ Len(s1 \o s2) = index + m
      /\ \A i \in 1 .. index + m : (s1 \o s2)[i] = IF i <= index THEN s1[i] ELSE s2[i - index]
  <2>1. /\ s1 \o s2 \in Seq(Values) /\ Len(s1 \o s2) = Len(s1) + Len(s2)
        /\ \A i \in 1 .. Len(s1) + Len(s2) : (s1 \o s2)[i] = IF i <= Len(s1) THEN s1[i] ELSE s2[i - Len(s1)]
    BY <1>4, <1>5, ConcatProperties
  <2> QED BY <1>4, <1>5, <2>1
<1>8. /\ r \in Seq(Values) /\ Len(r) = index + m + (src - (index + count))
      /\ \A i \in 1 .. index + m + (src - (index + count)) : r[i] = IF i <= index + m THEN (s1 \o s2)[i] ELSE s3[i - (index + m)]
  <2> DEFINE t == s1 \o s2
  <2> HIDE DEF t
  <2>1. t \in Seq(Values) /\ Len(t) = index + m
    BY <1>7 DEF t
  <2>2. /\ t \o s3 \in Seq(Values) /\ Len(t \o s3) = Len(t) + Len(s3)
        /\ \A i \in 1 .. Len(t) + Len(s3) : (t \o s3)[i] = IF i <= Len(t) THEN t[i] ELSE s3[i - Len(t)]
    BY <1>6, <2>1, ConcatProperties
  <2> QED BY <1>6, <2>1, <2>2 DEF t
<1> HIDE DEF r, src, n
<1>9. Len(r) = n - count
  <2>0. n \in Nat /\ m \in Nat /\ src \in Nat /\ src + m = n
    BY <1>1, <1>2, <1>3
  <2>1. index + m + (src - (index + count)) = n - count
    BY <2>0
  <2> QED BY <1>8, <2>1
<1>10. ASSUME NEW p \in 0 .. n - count - 1
       PROVE  r[p + 1] = IF p \in index .. index + m - 1 THEN q[p + src - index + 1] ELSE q[p + 1]
  <2> DEFINE i == p + 1
  <2>0. p \in Nat /\ p <= n - count - 1 /\ src \in Nat /\ n \in Nat /\ m \in Nat /\ src + m = n
    BY <1>1, <1>2, <1>3
  <2>1. i \in 1 .. index + m + (src - (index + count))
    BY <2>0
  <2>2. CASE p < index
    <3>1. i \in 1 .. index /\ i \in 1 .. index + m /\ i <= index /\ i <= index + m /\ p \notin index .. index + m - 1
      BY <1>2, <2>2
    <3> HIDE DEF i
    <3>2. r[i] = q[i]
      BY <1>4, <1>7, <1>8, <2>1, <3>1
    <3> QED BY <3>1, <3>2 DEF i
  <2>3. CASE p >= index /\ p < index + m
    <3>1. i \in 1 .. index + m /\ ~(i <= index) /\ i <= index + m /\ p \in index .. index + m - 1 /\ i - index \in 1 .. m
      BY <1>2, <2>3
    <3>2. src + (i - index) = p + src - index + 1
      BY <1>3
    <3> HIDE DEF i, src
    <3>3. r[i] = s2[i - index]
      BY <1>7, <1>8, <2>1, <3>1
    <3>4. s2[i - index] = q[src + (i - index)]
      BY <1>5, <3>1
    <3> QED BY <3>1, <3>2, <3>3, <3>4 DEF i
  <2>4. CASE p >= index + m
    <3>1. m = count /\ ~(i <= index + m) /\ p \notin index .. index + m - 1 /\ i - (index + m) \in 1 .. src - (index + count)
      <4>1. m = count
        BY <1>2, <2>0, <2>4
      <4>2. i - (index + m) \in 1 .. src - (index + count)
        BY <2>0, <2>4, <4>1
      <4> QED BY <2>0, <2>4, <4>1, <4>2
    <3>2. index + count + (i - (index + m)) = i
      BY <1>1, <1>2, <3>1
    <3> HIDE DEF i, src
    <3>3. r[i] = s3[i - (index + m)]
      BY <1>8, <2>1, <3>1
    <3>4. s3[i - (index + m)] = q[index + count + (i - (index + m))]
      BY <1>6, <3>1
    <3>5. r[i] = q[i]
      BY <3>2, <3>3, <3>4
    <3> QED BY <3>1, <3>5 DEF i
  <2> QED BY <1>2, <2>2, <2>3, <2>4
<1>11. Reordered(q, index, count, m) = r
  BY DEF Reordered, r, s1, s2, s3, n, src
<1> QED BY <1>2, <1>8, <1>9, <1>10, <1>11 DEF n, src

\* arrayRemoveUnordered() keeps the array sound.
LEMMA KeepsRemoveUnordered ==
    ASSUME Sound(array, contents), NEW index \in Index, NEW count \in Index, ArrayRemoveUnordered(index, count)
    PROVE  Sound(array', contents')
<1>1. PICK cap, growable : Whole(array, cap, contents, growable)
  BY DEF Sound
<1>2. /\ contents \in Seq(Values) /\ Len(contents) \in Nat /\ array.size = Len(contents) /\ array.growable = growable
      /\ Len(contents) <= cap /\ cap \in Nat /\ growable \in BOOLEAN /\ Arr(array, Row(cap, contents), Len(contents), growable)
  BY <1>1, SoundSize
<1>3. index \in Nat /\ count \in Nat /\ index + count <= Len(contents)
  BY <1>2 DEF Index, ArrayRemoveUnordered
<1> DEFINE m == Smaller(count, Len(contents) - count - index)
           src == Len(contents) - m
           r == Reordered(contents, index, count, m)
           b == ShiftBackward(array, src, index, m, count)
<1>4. /\ array' = CASE count = 0 -> array
                   [] count > 0 /\ ~growable -> MovedApart(index, count)
                   [] OTHER -> [b EXCEPT !.size = @ - count]
      /\ contents' = IF growable THEN r ELSE RemovedAt(contents, index, count)
  BY <1>2 DEF ArrayRemoveUnordered, Reordered
<1>5. CASE ~growable
  <2>1. contents' = RemovedAt(contents, index, count)
    BY <1>4, <1>5
  <2>2. CASE count = 0
    <3>1. array' = array
      BY <1>4, <2>2
    <3>2. index <= Len(contents)
      BY <1>2, <1>3
    <3>3. RemovedAt(contents, index, 0) = contents
      BY <1>2, <1>3, <3>2, RemovedNone
    <3> QED BY <2>1, <2>2, <3>1, <3>3
  <2>3. CASE count # 0
    <3>1. array' = MovedApart(index, count)
      BY <1>3, <1>4, <1>5, <2>3
    <3>2. Sound(MovedApart(index, count), RemovedAt(contents, index, count))
      BY <1>1, <1>3, MovedApartIs
    <3> QED BY <2>1, <3>1, <3>2
  <2> QED BY <2>2, <2>3
<1>6. /\ m \in Nat /\ m <= count /\ index + count + m <= Len(contents) /\ (m = count \/ index + count + m = Len(contents))
      /\ r \in Seq(Values) /\ Len(r) = Len(contents) - count
      /\ \A p \in 0 .. Len(contents) - count - 1 :
            r[p + 1] = IF p \in index .. index + m - 1 THEN contents[p + src - index + 1] ELSE contents[p + 1]
  <2> HIDE DEF m
  <2>1. CanReorder(contents, index, count, m)
    BY <1>2, <1>3 DEF CanReorder, m
  <2> DEFINE again == Reordered(contents, index, count, m)
  <2>2. again = r
    BY DEF m
  <2>3. /\ m \in Nat /\ m <= count /\ index + count + m <= Len(contents) /\ (m = count \/ index + count + m = Len(contents))
        /\ again \in Seq(Values) /\ Len(again) = Len(contents) - count
        /\ \A p \in 0 .. Len(contents) - count - 1 :
              again[p + 1] = IF p \in index .. index + m - 1 THEN contents[p + (Len(contents) - m) - index + 1] ELSE contents[p + 1]
    BY <2>1, ReorderedIs
  <2> HIDE DEF again, r
  <2> QED BY <2>2, <2>3
<1> HIDE DEF m, r, b
<1>7. src \in Nat /\ src + m = Len(contents)
  BY <1>2, <1>3, <1>6
<1> HIDE DEF src
<1>8. CASE growable /\ count = 0
  <2>1. array' = array /\ contents' = r
    BY <1>4, <1>8
  <2>2. m = 0 /\ Len(r) = Len(contents)
    BY <1>2, <1>6, <1>8
  <2>3. ASSUME NEW i \in 1 .. Len(contents) PROVE r[i] = contents[i]
    <3> DEFINE p == i - 1
    <3>1. p \in 0 .. Len(contents) - count - 1 /\ p + 1 = i /\ p \notin index .. index + m - 1
      BY <1>2, <1>3, <1>8, <2>2
    <3> HIDE DEF p
    <3> QED BY <1>6, <3>1
  <2>4. r = contents
    BY <1>2, <1>6, <2>2, <2>3, SeqEqual
  <2> QED BY <2>1, <2>4
<1>9. CASE growable /\ count # 0
  <2>1. array' = [b EXCEPT !.size = @ - count] /\ contents' = r
    BY <1>3, <1>4, <1>9
  <2>2. Closes(contents, r, src, index, m, count)
    <3>1. index < src
      BY <1>2, <1>3, <1>6, <1>7, <1>9
    <3>2. index + m + count <= Len(contents)
      BY <1>2, <1>3, <1>6
    <3>3. src + count >= Len(contents) \/ index + m + count = Len(contents)
      BY <1>2, <1>3, <1>6, <1>7
    <3>4. \A p \in 0 .. Len(r) - 1 : r[p + 1] = IF p \in index .. index + m - 1 THEN contents[p + src - index + 1] ELSE contents[p + 1]
      BY <1>6
    <3> QED BY <1>2, <1>3, <1>6, <1>7, <3>1, <3>2, <3>3, <3>4 DEF Closes
  <2>3. Arr(b, Row(cap, r), Len(contents), growable)
    BY <1>2, <2>2, ShiftedBackward DEF b
  <2>4. Arr(array', Row(cap, r), Len(contents) - count, growable)
    BY <2>1, <2>3, ShrinkingBy
  <2>5. Sound(array', r)
    <3>1. Len(contents) - count <= cap /\ Len(contents) - count = Len(r)
      BY <1>2, <1>3, <1>6
    <3> QED BY <1>2, <1>6, <1>9, <2>4, <3>1, NowWhole
  <2> QED BY <2>1, <2>5
<1> QED BY <1>2, <1>5, <1>8, <1>9

\* What is removed is all there is behind the index.
LEMMA RemovedSuffix ==
    ASSUME NEW q \in Seq(Values), NEW count \in Nat, NEW index \in Nat, index + count = Len(q)
    PROVE  RemovedAt(q, index, count) = SubSeq(q, 1, index)
<1> DEFINE r == RemovedAt(q, index, count)
           s == SubSeq(q, 1, index)
           n == Len(q)
<1>1. n \in Nat /\ index <= n /\ n - count = index
  BY LenProperties
<1>2. /\ r \in Seq(Values) /\ Len(r) = n - count
      /\ \A p \in 0 .. n - count - 1 : r[p + 1] = IF p < index THEN q[p + 1] ELSE q[p + count + 1]
  <2>1. index + count <= Len(q)
    BY <1>1
  <2> QED BY <2>1, RemovedFrom
<1>3. s \in Seq(Values) /\ Len(s) = index /\ \A i \in 1 .. index : s[i] = q[i]
  BY <1>1, PrefixOf
<1> HIDE DEF r, s, n
<1>4. ASSUME NEW i \in 1 .. index PROVE r[i] = s[i]
  <2> DEFINE p == i - 1
  <2>1. p \in 0 .. n - count - 1 /\ p + 1 = i /\ p < index
    BY <1>1
  <2> HIDE DEF p
  <2>2. r[p + 1] = q[p + 1]
    BY <1>2, <2>1
  <2> QED BY <1>3, <2>1, <2>2
<1>5. r = s
  BY <1>1, <1>2, <1>3, <1>4, SeqEqual
<1> QED BY <1>5 DEF r, s

\* arrayRemoveSuffix() keeps the array sound.
LEMMA KeepsRemoveSuffix ==
    ASSUME Sound(array, contents), NEW count \in Index, ArrayRemoveSuffix(count)
    PROVE  Sound(array', contents')
<1>1. PICK cap, growable : Whole(array, cap, contents, growable)
  BY DEF Sound
<1>2. /\ contents \in Seq(Values) /\ Len(contents) \in Nat /\ array.size = Len(contents) /\ array.growable = growable
      /\ Len(contents) <= cap /\ cap \in Nat /\ growable \in BOOLEAN /\ Arr(array, Row(cap, contents), Len(contents), growable)
  BY <1>1, SoundSize
<1> DEFINE index == Len(contents) - count
           r == SubSeq(contents, 1, index)
<1>3. count \in Nat /\ index \in Nat /\ index + count = Len(contents) /\ index <= Len(contents) /\ index <= cap
  BY <1>2 DEF Index, ArrayRemoveSuffix
<1>4. /\ array' = CASE count = 0 -> array
                    [] count > 0 /\ ~growable -> MovedApart(index, count)
                    [] OTHER -> [DestructRange(array, index, Len(contents)) EXCEPT !.size = @ - count]
      /\ contents' = r
  BY <1>2 DEF ArrayRemoveSuffix
<1> HIDE DEF index, r
<1>5. r \in Seq(Values) /\ Len(r) = index /\ (index = Len(contents) => r = contents)
  BY <1>2, <1>3, PrefixOf DEF r
<1>6. CASE count = 0
  <2>1. array' = array
    BY <1>4, <1>6
  <2>2. index = Len(contents)
    BY <1>2, <1>3, <1>6
  <2> QED BY <1>4, <1>5, <2>1, <2>2
<1>7. CASE count # 0 /\ ~growable
  <2>1. array' = MovedApart(index, count)
    BY <1>3, <1>4, <1>7
  <2>2. RemovedAt(contents, index, count) = r
    BY <1>2, <1>3, RemovedSuffix DEF r
  <2>3. index + count <= Len(contents)
    BY <1>2, <1>3
  <2>4. Sound(MovedApart(index, count), RemovedAt(contents, index, count))
    BY <1>1, <1>3, <2>3, MovedApartIs
  <2> QED BY <1>4, <2>1, <2>2, <2>4
<1>8. CASE count # 0 /\ growable
  <2> DEFINE b == DestructRange(array, index, Len(contents))
  <2>1. array' = [b EXCEPT !.size = @ - count]
    BY <1>3, <1>4, <1>8
  <2> HIDE DEF b
  <2>2. Arr(b, Row(cap, r), Len(contents), growable)
    BY <1>1, <1>3, DestructedSuffix DEF b, r
  <2>3. Arr(array', Row(cap, r), Len(contents) - count, growable)
    BY <2>1, <2>2, ShrinkingBy
  <2>4. Len(contents) - count = Len(r) /\ Len(contents) - count <= cap
    BY <1>3, <1>5 DEF index
  <2>5. Sound(array', r)
    BY <1>2, <1>5, <1>8, <2>3, <2>4, NowWhole
  <2> QED BY <1>4, <2>5
<1> QED BY <1>2, <1>6, <1>7, <1>8

\* No elements of a sequence.
LEMMA EmptyPrefix ==
    ASSUME NEW q \in Seq(Values)
    PROVE  SubSeq(q, 1, 0) = <<>>
<1>1. 1 \in Int /\ 0 \in Int /\ 0 < 1
  OBVIOUS
<1> QED BY <1>1, SubSeqEmpty

\* An array of no size is sound.
LEMMA EmptyWhole ==
    ASSUME NEW a, NEW cap \in Nat, NEW growable \in BOOLEAN, ~growable => cap = 0, NEW q, q = <<>>, Arr(a, Row(cap, q), 0, growable)
    PROVE  Sound(a, q)
<1>1. q \in Seq(Values) /\ Len(q) = 0
  OBVIOUS
<1>2. 0 = Len(q) /\ 0 <= cap
  BY <1>1
<1> QED BY <1>1, <1>2, NowWhole

\* arrayClear() keeps the array sound, with memory of either kind.
LEMMA KeepsClear ==
    ASSUME Sound(array, contents), ArrayClear
    PROVE  Sound(array', contents')
<1>1. PICK cap, growable : Whole(array, cap, contents, growable)
  BY DEF Sound
<1>2. /\ contents \in Seq(Values) /\ Len(contents) \in Nat /\ array.size = Len(contents) /\ array.growable = growable
      /\ Len(contents) <= cap /\ cap \in Nat /\ growable \in BOOLEAN /\ Arr(array, Row(cap, contents), Len(contents), growable)
  BY <1>1, SoundSize
<1> DEFINE none == <<>>
           b == DestructRange(array, 0, Len(contents))
<1>3. array' = (IF growable THEN [b EXCEPT !.size = 0] ELSE Allocate(array, 0, 0, FALSE)) /\ contents' = none
  BY <1>2 DEF ArrayClear
<1>4. SubSeq(contents, 1, 0) = none
  BY <1>2, EmptyPrefix
<1>5. none = <<>>
  OBVIOUS
<1> HIDE DEF none, b
<1>6. CASE growable
  <2>1. Arr(b, Row(cap, none), Len(contents), growable)
    <3>1. 0 \in Nat /\ 0 <= Len(contents)
      BY <1>2
    <3> QED BY <1>1, <1>4, <3>1, DestructedSuffix DEF b
  <2>2. Arr(array', Row(cap, none), 0, growable)
    BY <1>3, <1>6, <2>1, Resizing
  <2> QED BY <1>2, <1>3, <1>5, <1>6, <2>2, EmptyWhole
<1>7. CASE ~growable
  <2>1. Arr(Allocate(array, 0, 0, FALSE), Memory(0), 0, FALSE)
    BY <1>1, ElementsOf
  <2>2. Memory(0) = Row(0, none)
    BY DEF Memory, Row
  <2>3. Arr(array', Row(0, none), 0, FALSE)
    BY <1>3, <1>7, <2>1, <2>2
  <2>4. 0 \in Nat /\ FALSE \in BOOLEAN
    OBVIOUS
  <2> QED BY <1>3, <1>5, <2>3, <2>4, EmptyWhole
<1> QED BY <1>2, <1>6, <1>7

\* arrayReserve() keeps the array sound and its elements what they are.
LEMMA KeepsReserve ==
    ASSUME Sound(array, contents), NEW capacity \in Nat, ArrayReserve(capacity)
    PROVE  Sound(array', contents')
<1>1. PICK cap, growable : Whole(array, cap, contents, growable)
  BY DEF Sound
<1>2. /\ contents \in Seq(Values) /\ Len(contents) \in Nat /\ Capacity(array) = cap /\ Len(contents) <= cap /\ cap \in Nat
  BY <1>1, SoundSize
<1>3. contents' = contents /\ array' = IF cap >= capacity THEN array ELSE Reallocate(array, capacity)
  BY <1>2 DEF ArrayReserve
<1>4. CASE cap >= capacity
  BY <1>3, <1>4
<1>5. CASE ~(cap >= capacity)
  <2>1. Len(contents) <= capacity
    BY <1>2, <1>5
  <2>2. Arr(Reallocate(array, capacity), Row(capacity, contents), Len(contents), TRUE)
    BY <1>1, <2>1, Reallocated
  <2>3. TRUE \in BOOLEAN /\ Len(contents) = Len(contents)
    OBVIOUS
  <2>4. Sound(Reallocate(array, capacity), contents)
    BY <1>2, <2>1, <2>2, <2>3, NowWhole
  <2> QED BY <1>3, <1>5, <2>4
<1> QED BY <1>4, <1>5

\* Nothing to destruct.
LEMMA DestructedNone ==
    ASSUME NEW a, NEW cap, NEW q, NEW growable, Whole(a, cap, q, growable), NEW first \in Nat, Len(q) < first
    PROVE  Arr(DestructRange(a, first, Len(q)), Row(cap, q), Len(q), growable)
<1> DEFINE row == Row(cap, q)
           places == Upwards(first, Len(q) - first)
<1>1. q \in Seq(Values) /\ Len(q) \in Nat /\ cap \in Nat /\ Len(q) <= cap /\ Arr(a, row, Len(q), growable)
  BY SoundSize
<1>2. row \in [0 .. cap - 1 -> Cell]
  BY <1>1, RowCells
<1>3. DOMAIN places = 1 .. 0
  <2>1. 1 .. Len(q) - first = 1 .. 0
    BY <1>1
  <2> QED BY <2>1 DEF Upwards
<1> HIDE DEF row, places
<1>4. Destructs(row, places, 0, row)
  <2>1. Before(places, 0) = {} /\ 1 .. 0 = {} /\ 0 \in Nat
    BY DEF Before
  <2>2. DOMAIN row = 0 .. cap - 1
    BY <1>2
  <2> QED BY <1>2, <1>3, <2>1, <2>2 DEF Destructs
<1>5. Arr(DestructEach(a, places), row, Len(q), growable)
  BY <1>1, <1>4, DestructedEach
<1> QED BY <1>5 DEF DestructRange, places, row

\* A smaller array holds the first elements.
LEMMA ResizedDown ==
    ASSUME Sound(array, contents), NEW size \in Nat, size <= Len(contents)
    PROVE  Sound(Resized(size), SubSeq(contents, 1, size))
<1>1. PICK cap, growable : Whole(array, cap, contents, growable)
  BY DEF Sound
<1>2. /\ contents \in Seq(Values) /\ Len(contents) \in Nat /\ array.size = Len(contents) /\ array.growable = growable
      /\ Capacity(array) = cap /\ Len(contents) <= cap /\ cap \in Nat /\ growable \in BOOLEAN
  BY <1>1, SoundSize
<1> DEFINE r == SubSeq(contents, 1, size)
<1>3. r \in Seq(Values) /\ Len(r) = size /\ (size = Len(contents) => r = contents)
  BY <1>2, PrefixOf
<1> HIDE DEF r
<1>4. CASE size = Len(contents)
  <2>1. Resized(size) = array
    BY <1>2, <1>4 DEF Resized
  <2> QED BY <1>3, <1>4, <2>1 DEF r
<1>5. CASE size # Len(contents) /\ ~growable
  <2> DEFINE b == MoveConstruct(array, Allocate(array, size, size, TRUE), 0, 0, size)
  <2>1. Smaller(Len(contents), size) = size
    BY <1>2, <1>5 DEF Smaller
  <2>2. Resized(size) = b
    BY <1>2, <1>5, <2>1 DEF Resized
  <2> HIDE DEF b
  <2>3. size <= size /\ TRUE \in BOOLEAN
    OBVIOUS
  <2>4. Arr(b, Row(size, r), size, TRUE)
    BY <1>1, <2>3, MovedPrefix DEF b, r
  <2>5. Sound(b, r)
    BY <1>3, <2>3, <2>4, NowWhole
  <2> QED BY <2>2, <2>5 DEF r
<1>6. CASE size # Len(contents) /\ growable
  <2> DEFINE b == DestructRange(array, size, Len(contents))
  <2>1. ~(cap < size) /\ size <= cap
    BY <1>2
  <2>2. Resized(size) = [b EXCEPT !.size = size]
    BY <1>2, <1>6, <2>1 DEF Resized
  <2> HIDE DEF b
  <2>3. Arr(b, Row(cap, r), Len(contents), growable)
    BY <1>1, DestructedSuffix DEF b, r
  <2>4. Arr(Resized(size), Row(cap, r), size, growable)
    BY <2>2, <2>3, Resizing
  <2>5. Sound(Resized(size), r)
    BY <1>2, <1>3, <1>6, <2>1, <2>4, NowWhole
  <2> QED BY <2>5 DEF r
<1> QED BY <1>2, <1>4, <1>5, <1>6

\* A larger one has a gap at the end.
LEMMA ResizedUp ==
    ASSUME Sound(array, contents), NEW size \in Nat, Len(contents) < size
    PROVE  Opened(Resized(size), contents, Len(contents), size - Len(contents))
<1>1. PICK cap, growable : Whole(array, cap, contents, growable)
  BY DEF Sound
<1>2. /\ contents \in Seq(Values) /\ Len(contents) \in Nat /\ array.size = Len(contents) /\ array.growable = growable
      /\ Capacity(array) = cap /\ Len(contents) <= cap /\ cap \in Nat /\ growable \in BOOLEAN
  BY <1>1, SoundSize
<1> DEFINE n == Len(contents)
           more == size - n
<1>3. more \in Nat /\ n + more = size /\ size # n /\ n <= size /\ n \in Nat
  BY <1>2
<1> HIDE DEF more
<1>4. ASSUME NEW m \in Nat, NEW other \in BOOLEAN, size <= m, ~other => m = size,
             Arr(Resized(size), Row(m, contents), size, other)
      PROVE  Opened(Resized(size), contents, n, more)
  <2>1. Gap(m, contents, n, more) = Row(m, contents)
    <3> DEFINE index == n
    <3>1. index \in 0 .. Len(contents) /\ index = Len(contents)
      BY <1>2
    <3> HIDE DEF index
    <3>2. Gap(m, contents, index, more) = Row(m, contents)
      BY <1>2, <1>3, <3>1, GapIsRow
    <3> QED BY <3>2 DEF index
  <2> QED BY <1>3, <1>4, <2>1 DEF Opened
<1>5. CASE ~growable
  <2> DEFINE b == MoveConstruct(array, Allocate(array, size, size, TRUE), 0, 0, n)
  <2>1. Smaller(n, size) = n
    BY DEF Smaller
  <2>2. Resized(size) = b
    BY <1>2, <1>3, <1>5, <2>1 DEF Resized
  <2> HIDE DEF b
  <2>3. SubSeq(contents, 1, n) = contents
    <3> DEFINE l == n
    <3>1. l \in Nat /\ l <= Len(contents) /\ l = Len(contents)
      BY <1>2
    <3> HIDE DEF l
    <3>2. SubSeq(contents, 1, l) = contents
      BY <1>2, <3>1, PrefixOf
    <3> QED BY <3>2 DEF l
  <2>4. Arr(b, Row(size, contents), size, TRUE)
    <3> DEFINE l == n
    <3>1. l \in Nat /\ l <= Len(contents) /\ l <= size /\ TRUE \in BOOLEAN
      BY <1>2
    <3>2. SubSeq(contents, 1, l) = contents /\ b = MoveConstruct(array, Allocate(array, size, size, TRUE), 0, 0, l)
      BY <2>3 DEF b
    <3> HIDE DEF l
    <3>3. Arr(MoveConstruct(array, Allocate(array, size, size, TRUE), 0, 0, l), Row(size, SubSeq(contents, 1, l)), size, TRUE)
      BY <1>1, <3>1, MovedPrefix
    <3> QED BY <3>2, <3>3
  <2>5. size <= size /\ TRUE \in BOOLEAN
    OBVIOUS
  <2> QED BY <1>4, <2>2, <2>4, <2>5 DEF more
<1>6. CASE growable /\ cap < size
  <2> DEFINE b == Reallocate(array, size)
  <2>1. Resized(size) = [b EXCEPT !.size = size]
    BY <1>2, <1>3, <1>6 DEF Resized
  <2> HIDE DEF b
  <2>2. Arr(b, Row(size, contents), n, TRUE)
    BY <1>1, <1>3, Reallocated DEF b
  <2>3. Arr(Resized(size), Row(size, contents), size, TRUE)
    <3> DEFINE row == Row(size, contents)
    <3>1. Arr(b, row, n, TRUE)
      BY <2>2
    <3> HIDE DEF row
    <3>2. Arr([b EXCEPT !.size = size], row, size, TRUE)
      BY <3>1, Resizing
    <3> QED BY <2>1, <3>2 DEF row
  <2>4. size <= size /\ TRUE \in BOOLEAN
    OBVIOUS
  <2> QED BY <1>4, <2>3, <2>4 DEF more
<1>7. CASE growable /\ ~(cap < size)
  <2> DEFINE b == DestructRange(array, size, n)
  <2>1. Resized(size) = [b EXCEPT !.size = size]
    BY <1>2, <1>3, <1>7 DEF Resized
  <2> HIDE DEF b
  <2>2. Arr(b, Row(cap, contents), n, growable)
    BY <1>1, DestructedNone DEF b
  <2>3. Arr(Resized(size), Row(cap, contents), size, growable)
    BY <2>1, <2>2, Resizing
  <2>4. size <= cap
    BY <1>2, <1>7
  <2> QED BY <1>2, <1>4, <1>7, <2>3, <2>4 DEF more
<1> QED BY <1>2, <1>5, <1>6, <1>7

\* arrayResize(ValueInit) keeps the array sound, smaller or larger.
LEMMA KeepsResize ==
    ASSUME Sound(array, contents), NEW size \in Nat, ArrayResize(size)
    PROVE  Sound(array', contents')
<1>1. PICK cap, growable : Whole(array, cap, contents, growable)
  BY DEF Sound
<1>2. contents \in Seq(Values) /\ Len(contents) \in Nat /\ array.size = Len(contents)
  BY <1>1, SoundSize
<1> DEFINE n == Len(contents)
           b == Resized(size)
<1>3. /\ array' = ConstructRange(b, n, size, Zero)
      /\ contents' = SubSeq(contents, 1, Smaller(size, n)) \o Zeros(size - n)
  BY <1>2 DEF ArrayResize
<1>4. CASE size <= n
  <2> DEFINE r == SubSeq(contents, 1, size)
             no == Zeros(size - n)
  <2>1. Sound(b, r)
    BY <1>4, ResizedDown
  <2>2. ConstructRange(b, n, size, Zero) = b
    BY <1>2, <1>4 DEF ConstructRange
  <2>3. SubSeq(contents, 1, Smaller(size, n)) = r
    <3>1. Smaller(size, n) = size
      BY <1>2, <1>4 DEF Smaller
    <3> QED BY <3>1
  <2>4. no = <<>>
    <3>1. 1 .. size - n = {}
      BY <1>2, <1>4
    <3>2. no = [p \in {} |-> Zero]
      BY <3>1 DEF Zeros
    <3> QED BY <3>2
  <2>5. r \in Seq(Values)
    BY <1>2, <1>4, PrefixOf
  <2> HIDE DEF r, b, no
  <2>6. r \o <<>> = r
    BY <2>5, ConcatEmptySeq
  <2>7. contents' = r
    BY <1>3, <2>3, <2>4, <2>6 DEF no
  <2>8. array' = b
    BY <1>3, <2>2
  <2> QED BY <2>1, <2>7, <2>8
<1>5. CASE ~(size <= n)
  <2> DEFINE more == size - n
             index == n
  <2>1. more \in Nat /\ n < size /\ size = index + more /\ index \in Nat /\ index <= n
    BY <1>2, <1>5
  <2>2. Opened(b, contents, index, more)
    BY <2>1, ResizedUp
  <2>3. SubSeq(contents, 1, Smaller(size, n)) = contents
    <3> DEFINE l == n
    <3>1. l \in Nat /\ l <= Len(contents) /\ l = Len(contents) /\ Smaller(size, n) = l
      BY <1>2, <1>5 DEF Smaller
    <3> HIDE DEF l, n
    <3> QED BY <1>2, <3>1, PrefixOf
  <2>4. InsertedAt(contents, index, Zeros(more)) = contents \o Zeros(more)
    <3>1. Zeros(more) \in Seq(Values)
      BY <2>1, ZerosAre
    <3> HIDE DEF more
    <3> QED BY <1>2, <3>1, AppendedAt
  <2>5. array' = ConstructRange(b, index, size, Zero) /\ contents' = contents \o Zeros(more)
    BY <1>3, <2>3
  <2> HIDE DEF b, more, index
  <2>6. Sound(ConstructRange(b, index, size, Zero), InsertedAt(contents, index, Zeros(more)))
    BY <1>2, <2>1, <2>2, FilledZeros
  <2> QED BY <2>4, <2>5, <2>6
<1> QED BY <1>4, <1>5

\* arrayShrink(NoInit) keeps the array sound and gives the memory back to Array.
LEMMA KeepsShrinkNoInit ==
    ASSUME Sound(array, contents), ArrayShrinkNoInit
    PROVE  Sound(array', contents')
<1>1. PICK cap, growable : Whole(array, cap, contents, growable)
  BY DEF Sound
<1>2. contents \in Seq(Values) /\ Len(contents) \in Nat /\ array.size = Len(contents) /\ array.growable = growable /\ growable \in BOOLEAN
  BY <1>1, SoundSize
<1> DEFINE n == Len(contents)
           b == MoveConstruct(array, Allocate(array, n, n, FALSE), 0, 0, n)
<1>3. array' = (IF ~growable THEN array ELSE b) /\ contents' = contents
  BY <1>2 DEF ArrayShrinkNoInit
<1>4. CASE ~growable
  BY <1>3, <1>4
<1>5. CASE growable
  <2> DEFINE l == n
             q == contents
  <2>1. l \in Nat /\ l <= Len(q) /\ l <= l /\ l = Len(q) /\ q \in Seq(Values) /\ FALSE \in BOOLEAN
    BY <1>2
  <2>2. array' = MoveConstruct(array, Allocate(array, l, l, FALSE), 0, 0, l)
    BY <1>3, <1>5
  <2> HIDE DEF l
  <2>3. SubSeq(q, 1, l) = q
    BY <2>1, PrefixOf
  <2>4. Arr(MoveConstruct(array, Allocate(array, l, l, FALSE), 0, 0, l), Row(l, SubSeq(q, 1, l)), l, FALSE)
    BY <1>1, <2>1, MovedPrefix
  <2>5. Arr(array', Row(l, q), l, FALSE)
    BY <2>2, <2>3, <2>4
  <2>6. Sound(array', q)
    BY <2>1, <2>5, NowWhole
  <2> QED BY <1>3, <2>6
<1> QED BY <1>2, <1>4, <1>5

\* Zeros in all of new memory.
LEMMA FreshZeros ==
    ASSUME NEW a, NEW n \in Nat, Arr(a, Memory(n), n, FALSE)
    PROVE  \E cells \in [0 .. n - 1 -> Cell] : Arr(ConstructRange(a, 0, n, Zero), cells, n, FALSE)
<1> DEFINE memory == Memory(n)
           zeros == Zeros(n)
           cells == [p \in 0 .. n - 1 |-> Zero]
<1>1. memory \in [0 .. n - 1 -> Cell] /\ cells \in [0 .. n - 1 -> Cell] /\ Zero \in Values
  BY GrowableArrayAssumption DEF Memory, Cell
<1>2. CASE n = 0
  <2>1. ConstructRange(a, 0, n, Zero) = a
    BY <1>2 DEF ConstructRange
  <2> QED BY <1>1, <2>1
<1>3. CASE n # 0
  <2>1. ConstructRange(a, 0, n, Zero) = CopyOutside(a, 0, zeros)
    <3>1. 0 < n /\ n - 0 = n
      BY <1>3
    <3> QED BY <3>1 DEF ConstructRange, Zeros
  <2>2. Len(zeros) = n /\ zeros \in Seq(Values)
    BY ZerosAre
  <2>3. \A p \in 0 .. n - 1 : memory[p] = Raw /\ cells[p] = zeros[p - 0 + 1]
    BY DEF Memory, Zeros
  <2>4. Copies(memory, 0, zeros, cells)
    <3>1. DOMAIN memory = 0 .. n - 1 /\ 0 .. n - 1 \in SUBSET Int /\ 0 \in Int
      BY <1>1
    <3>2. 0 .. 0 + n - 1 = 0 .. n - 1
      OBVIOUS
    <3> HIDE DEF memory, cells, zeros
    <3> QED BY <1>1, <2>2, <2>3, <3>1, <3>2 DEF Copies
  <2> HIDE DEF memory, cells, zeros
  <2>5. Arr(CopyOutside(a, 0, zeros), cells, n, FALSE)
    BY <2>4, CopiedOutside DEF memory
  <2> QED BY <1>1, <2>1, <2>5
<1> QED BY <1>2, <1>3

\* arrayShrink(ValueInit) keeps the array sound: elements are assigned over elements.
LEMMA KeepsShrinkValueInit ==
    ASSUME Sound(array, contents), ArrayShrinkValueInit
    PROVE  Sound(array', contents')
<1>1. PICK cap, growable : Whole(array, cap, contents, growable)
  BY DEF Sound
<1>2. /\ contents \in Seq(Values) /\ Len(contents) \in Nat /\ array.size = Len(contents) /\ array.growable = growable /\ growable \in BOOLEAN
      /\ Len(contents) <= cap /\ cap \in Nat /\ Arr(array, Row(cap, contents), Len(contents), growable)
  BY <1>1, SoundSize
<1> DEFINE n == Len(contents)
           fresh == ConstructRange(Allocate(array, n, n, FALSE), 0, n, Zero)
<1>3. array' = (IF ~growable THEN array ELSE [fresh EXCEPT !.cells = [p \in DOMAIN @ |-> array.cells[p]]]) /\ contents' = contents
  BY <1>2 DEF ArrayShrinkValueInit
<1>4. CASE ~growable
  BY <1>3, <1>4
<1>5. CASE growable
  <2>1. PICK cells \in [0 .. n - 1 -> Cell] : Arr(fresh, cells, n, FALSE)
    <3>1. n \in Nat
      BY <1>2
    <3>2. Arr(Allocate(array, n, n, FALSE), Memory(n), n, FALSE)
      BY <1>1, ElementsOf
    <3> QED BY <3>1, <3>2, FreshZeros
  <2>2. array.cells = Row(cap, contents)
    BY <1>2 DEF Arr
  <2>3. [p \in 0 .. n - 1 |-> array.cells[p]] = Row(n, contents)
    <3>1. \A p \in 0 .. n - 1 : p \in 0 .. cap - 1 /\ p < Len(contents)
      BY <1>2
    <3> QED BY <2>2, <3>1 DEF Row
  <2>4. array' = [fresh EXCEPT !.cells = [p \in DOMAIN @ |-> array.cells[p]]]
    BY <1>3, <1>5
  <2> HIDE DEF fresh, n
  <2>5. DOMAIN fresh.cells = 0 .. n - 1
    BY <2>1 DEF Arr
  <2>6. array' = [fresh EXCEPT !.cells = Row(n, contents)]
    BY <2>3, <2>4, <2>5
  <2>7. Arr(array', Row(n, contents), n, FALSE)
    <3> DEFINE row == Row(n, contents)
    <3>1. array' = [fresh EXCEPT !.cells = row]
      BY <2>6
    <3> HIDE DEF row
    <3>2. Arr([fresh EXCEPT !.cells = row], row, n, FALSE)
      BY <2>1 DEF Arr
    <3> QED BY <3>1, <3>2 DEF row
  <2>8. n \in Nat /\ n = Len(contents) /\ n <= n /\ FALSE \in BOOLEAN
    BY <1>2 DEF n
  <2>9. Sound(array', contents)
    BY <1>2, <2>7, <2>8, NowWhole
  <2> QED BY <1>3, <2>9
<1> QED BY <1>2, <1>4, <1>5


-----------------------------------------------------------------------------

(***************************************************************************)
(* Every step, of whatever operation and in whatever order, keeps the      *)
(* array sound: one step of the proof for each operation of the next-state *)
(* relation.                                                               *)
(***************************************************************************)
LEMMA KeepsSound ==
    ASSUME Sound(array, contents), [ArrayNext]_arrayVars
    PROVE  Sound(array', contents')
<1>1. Index \subseteq Nat
  <2>1. PICK cap, growable : Whole(array, cap, contents, growable)
    BY DEF Sound
  <2>2. array.size \in Nat
    BY <2>1, SoundSize
  <2> QED BY <2>2 DEF Index
<1>2. 0 .. MaxAdded \subseteq Nat /\ 0 .. MaxReserve \subseteq Nat /\ 0 .. MaxSize \subseteq Nat
  BY GrowableArrayAssumption
<1>3. CASE UNCHANGED arrayVars
  BY <1>3 DEF arrayVars
<1>4. ASSUME NEW values \in Added, AssignArray(values) PROVE Sound(array', contents')
  BY <1>4, KeepsAssign
<1>5. ASSUME NEW values \in Added, ArrayAppend(values) PROVE Sound(array', contents')
  BY <1>5, KeepsAppend
<1>6. ASSUME NEW values \in Added, NEW index \in Index, ArrayInsert(index, values) PROVE Sound(array', contents')
  BY <1>6, KeepsInsert
<1>7. ASSUME NEW offset \in Index, NEW count \in 0 .. MaxAdded, ArrayAppendOwn(offset, count) PROVE Sound(array', contents')
  BY <1>1, <1>2, <1>7, KeepsAppendOwn
<1>8. ASSUME NEW index \in Index, NEW offset \in Index, NEW count \in 0 .. MaxAdded, ArrayInsertOwn(index, offset, count)
      PROVE  Sound(array', contents')
  BY <1>1, <1>2, <1>8, KeepsInsertOwn
<1>9. ASSUME NEW count \in 0 .. MaxAdded, ArrayAppendValueInit(count) PROVE Sound(array', contents')
  BY <1>2, <1>9, KeepsAppendValueInit
<1>10. ASSUME NEW index \in Index, NEW count \in 0 .. MaxAdded, ArrayInsertValueInit(index, count) PROVE Sound(array', contents')
  BY <1>2, <1>10, KeepsInsertValueInit
<1>11. ASSUME NEW index \in Index, NEW count \in Index, ArrayRemove(index, count) PROVE Sound(array', contents')
  BY <1>11, KeepsRemove
<1>12. ASSUME NEW index \in Index, NEW count \in Index, ArrayRemoveUnordered(index, count) PROVE Sound(array', contents')
  BY <1>12, KeepsRemoveUnordered
<1>13. ASSUME NEW count \in Index, ArrayRemoveSuffix(count) PROVE Sound(array', contents')
  BY <1>13, KeepsRemoveSuffix
<1>14. CASE ArrayClear
  BY <1>14, KeepsClear
<1>15. ASSUME NEW capacity \in 0 .. MaxReserve, ArrayReserve(capacity) PROVE Sound(array', contents')
  BY <1>2, <1>15, KeepsReserve
<1>16. ASSUME NEW size \in 0 .. MaxSize, ArrayResize(size) PROVE Sound(array', contents')
  BY <1>2, <1>16, KeepsResize
<1>17. CASE ArrayShrinkNoInit
  BY <1>17, KeepsShrinkNoInit
<1>18. CASE ArrayShrinkValueInit
  BY <1>18, KeepsShrinkValueInit
<1> QED
  BY <1>3, <1>4, <1>5, <1>6, <1>7, <1>8, <1>9, <1>10, <1>11, <1>12, <1>13, <1>14, <1>15, <1>16, <1>17, <1>18 DEF ArrayNext

(***************************************************************************)
(* What the invariant says of a state.                                     *)
(***************************************************************************)
LEMMA SoundImplies ==
    ASSUME Sound(array, contents)
    PROVE  ArrayTypeOK /\ LifetimesExact /\ ContentsExact
<1>1. PICK cap, growable : Whole(array, cap, contents, growable)
  BY DEF Sound
<1> DEFINE n == Len(contents)
           row == Row(cap, contents)
<1>2. /\ contents \in Seq(Values) /\ n \in Nat /\ array.size = n /\ array.growable = growable /\ growable \in BOOLEAN
      /\ n <= cap /\ cap \in Nat /\ (~growable => cap = n) /\ Arr(array, row, n, growable)
  BY <1>1, SoundSize
<1>3. row \in [0 .. cap - 1 -> Cell] /\ \A p \in 0 .. n - 1 : row[p] = contents[p + 1]
  BY <1>2, RowCells
<1>4. Elements(array) = 0 .. n - 1
  BY <1>1, ElementsOf
<1> HIDE DEF row
<1>5. array.cells = row /\ array.fault \in BOOLEAN /\ ~array.fault
  BY <1>2 DEF Arr
<1>6. Cardinality(0 .. cap - 1) = cap
  <2>1. 0 \in Int /\ cap - 1 \in Int
    BY <1>2
  <2>2. Cardinality(0 .. cap - 1) = IF 0 > cap - 1 THEN 0 ELSE cap - 1 - 0 + 1
    BY <2>1, FS_Interval
  <2> QED BY <1>2, <2>2
<1>7. DOMAIN array.cells = 0 .. cap - 1
  BY <1>3, <1>5
<1>8. ArrayTypeOK
  <2>1. array.cells \in [0 .. Cardinality(DOMAIN array.cells) - 1 -> Cell]
    BY <1>3, <1>5, <1>6, <1>7
  <2> QED BY <1>2, <1>5, <2>1 DEF ArrayTypeOK
<1>9. LifetimesExact
  <2>1. ~array.growable => DOMAIN array.cells = 0 .. array.size - 1
    BY <1>2, <1>7
  <2>2. Elements(array) = 0 .. array.size - 1
    BY <1>2, <1>4
  <2> QED BY <1>5, <2>1, <2>2 DEF LifetimesExact
<1>10. ContentsExact
  BY <1>2, <1>3, <1>5 DEF ContentsExact
<1> QED BY <1>8, <1>9, <1>10

(***************************************************************************)
(* The array is whole and holds what the calls ask for, from the start and *)
(* after every operation (GrowableArray.h).                                *)
(***************************************************************************)
THEOREM ArrayAlwaysSound == ArraySpec => []Sound(array, contents)
<1>1. ArrayInit => Sound(array, contents)
  BY StartsSound
<1>2. Sound(array, contents) /\ [ArrayNext]_arrayVars => Sound(array, contents)'
  BY KeepsSound
<1> QED BY <1>1, <1>2, PTL DEF ArraySpec

(***************************************************************************)
(* The array has its type: cells of memory counted from 0, a size, a       *)
(* deleter of either kind, and a sequence of values asked for.             *)
(***************************************************************************)
THEOREM ArrayAlwaysTyped == ArraySpec => []ArrayTypeOK
<1>1. Sound(array, contents) => ArrayTypeOK
  BY SoundImplies
<1> QED BY <1>1, ArrayAlwaysSound, PTL

(***************************************************************************)
(* No operation ever constructs over an element, assigns to or moves from  *)
(* a raw cell, destructs twice or frees memory with elements in it, for    *)
(* any values, sizes and growth: the elements live in exactly the first    *)
(* size cells (arrayShiftForward(), arrayShiftBackward(), arrayGrowBy(),   *)
(* arrayGrowAtBy() and their users).                                       *)
(***************************************************************************)
THEOREM LifetimesAlwaysExact == ArraySpec => []LifetimesExact
<1>1. Sound(array, contents) => LifetimesExact
  BY SoundImplies
<1> QED BY <1>1, ArrayAlwaysSound, PTL

(***************************************************************************)
(* The array always holds the elements its operations ask for, in order,   *)
(* also when they are elements of the array itself that move while memory  *)
(* grows (arrayAppend(), arrayInsert(), arrayRemove(),                     *)
(* arrayRemoveUnordered(), arrayResize(), arrayShrink()).                  *)
(***************************************************************************)
THEOREM ContentsAlwaysExact == ArraySpec => []ContentsExact
<1>1. Sound(array, contents) => ContentsExact
  BY SoundImplies
<1> QED BY <1>1, ArrayAlwaysSound, PTL
=============================================================================
