----------------------------- MODULE LinkedList -----------------------------
(***************************************************************************)
(* Containers::LinkedList: items that carry the links of the list they are *)
(* in, and lists that know their ends.  Moving a list or an item, clearing *)
(* and destroying them all go through insert() and cut().  A list and an   *)
(* item are where they are: a moved one is another one.  clear() deletes   *)
(* the items, and the destructor of an item is code of the application: it *)
(* may call anything on this or another list, clear() included, while the  *)
(* loop of clear() holds a pointer to the item after it.                   *)
(***************************************************************************)
EXTENDS Naturals, Sequences

CONSTANTS
    Lists, Items, None,
    MaxClears       \* bound: calls of clear() within one another

ASSUME LinkedListAssumption ==
    /\ None \notin Lists
    /\ None \notin Items

ASSUME MaxClearsAssumption == MaxClears \in Nat

VARIABLES
    links,      \* list: of each item; previous, next: of each item; first, last: of each list
    items,      \* items constructed and not destroyed
    clears,     \* the calls of clear() in progress, the innermost last
    fault,      \* what stopped the program, or "none"
    order,      \* history: the items of each list as the calls ask for
    disturbed   \* history: the calls of clear() that had their next item changed

listVars == <<links, items, clears, fault, order, disturbed>>

ItemOrNone == Items \cup {None}

Links == [list: [Items -> Lists \cup {None}],
          previous: [Items -> ItemOrNone], next: [Items -> ItemOrNone],
          first: [Lists -> ItemOrNone], last: [Lists -> ItemOrNone]]

\* The locals of clear(): erased is the item in its destructor, None between two
\* items, and next the one read before.  then: None in a plain clear(), the list
\* to take the items of in operator=(), and the list itself at its destruction.
Frames == [list: Lists, erased: ItemOrNone, next: ItemOrNone, then: Lists \cup {None}]

\* A failed assertion, an item used or deleted after its end, or a list that
\* gives up its ends with items still in it.
Faults == {"none", "assertion", "undefined", "lost"}

ListTypeOK ==
    /\ links \in Links
    /\ items \subseteq Items
    /\ clears \in Seq(Frames)
    /\ fault \in Faults
    /\ order \in [Lists -> Seq(Items)]
    /\ disturbed \subseteq DOMAIN clears

-----------------------------------------------------------------------------

\* insert(), the item in no list, before None or an item of the list.
Inserted(k, l, i, before) ==
    CASE before = None /\ k.first[l] = None ->
            [k EXCEPT !.list[i] = l, !.first[l] = i, !.last[l] = i]
      [] before = None /\ k.first[l] # None ->
            [k EXCEPT !.list[i] = l, !.next[k.last[l]] = i, !.previous[i] = k.last[l], !.last[l] = i]
      [] before # None /\ k.previous[before] = None ->
            [k EXCEPT !.list[i] = l, !.next[i] = k.first[l], !.previous[k.first[l]] = i, !.first[l] = i]
      [] OTHER ->
            [k EXCEPT !.list[i] = l, !.previous = [@ EXCEPT ![i] = k.previous[before], ![before] = i],
                      !.next = [@ EXCEPT ![i] = before, ![k.previous[before]] = i]]

\* Mutant: the only item leaves the list its end.
Unlinked_Mutant(k, i) ==
    LET l == k.list[i] IN
    IF i = k.first[l]
    THEN [k EXCEPT !.first[l] = k.next[i],
                   !.previous = IF k.next[i] = None THEN @ ELSE [@ EXCEPT ![k.next[i]] = None]]
    ELSE [k EXCEPT !.next[k.previous[i]] = k.next[i],
                   !.previous = IF k.next[i] = None THEN @ ELSE [@ EXCEPT ![k.next[i]] = k.previous[i]],
                   !.last[l] = IF i = @ THEN k.previous[i] ELSE @]

\* What cut() does to the neighbours and the ends.
Unlinked(k, i) ==
    LET l == k.list[i] IN
    CASE i = k.first[l] ->
            [k EXCEPT !.first[l] = k.next[i],
                      !.previous = IF k.next[i] = None THEN @ ELSE [@ EXCEPT ![k.next[i]] = None],
                      !.last[l] = IF i = @ THEN None ELSE @]
      [] i # k.first[l] /\ i = k.last[l] ->
            [k EXCEPT !.last[l] = k.previous[i],
                      !.next = IF k.previous[i] = None THEN @ ELSE [@ EXCEPT ![k.previous[i]] = None]]
      [] OTHER ->
            [k EXCEPT !.next[k.previous[i]] = k.next[i],
                      !.previous[k.next[i]] = k.previous[i]]

\* cut()
CutOut(k, i) == [Unlinked(k, i) EXCEPT !.list[i] = None, !.previous[i] = None, !.next[i] = None]

\* Mutant: the items keep their list.
Adopted_Mutant(k, l, other) ==
    [k EXCEPT !.first = [@ EXCEPT ![l] = k.first[other], ![other] = None],
              !.last = [@ EXCEPT ![l] = k.last[other], ![other] = None]]

\* The ends and the items of the other list are taken over.
Adopted(k, l, other) ==
    [k EXCEPT !.first = [@ EXCEPT ![l] = k.first[other], ![other] = None],
              !.last = [@ EXCEPT ![l] = k.last[other], ![other] = None],
              !.list = [i \in Items |-> IF k.list[i] = other THEN l ELSE k.list[i]]]

\* The same on the sequences of items.
Position(q, i) == CHOOSE p \in DOMAIN q : q[p] = i

Without(o, i) ==
    [l \in Lists |->
        IF \A p \in DOMAIN o[l] : o[l][p] # i THEN o[l]
        ELSE LET at == Position(o[l], i) IN
             SubSeq(o[l], 1, at - 1) \o SubSeq(o[l], at + 1, Len(o[l]))]

WithBefore(o, l, i, before) ==
    LET at == IF before = None THEN Len(o[l]) + 1 ELSE Position(o[l], before) IN
    [o EXCEPT ![l] = SubSeq(@, 1, at - 1) \o <<i>> \o SubSeq(@, at, Len(@))]

-----------------------------------------------------------------------------

Top == clears[Len(clears)]

\* The application calls from outside, or from the destructor of the item that
\* the innermost clear() erases.
Calls ==
    /\ fault = "none"
    /\ clears # <<>> => Top.erased # None

Destructing(i) == \E k \in DOMAIN clears : clears[k].erased = i

\* What comes after the item i, in a list that i is the first of or not in.
Coming(q, i) ==
    CASE q = <<>> -> None
      [] q # <<>> /\ q[1] # i -> q[1]
      [] OTHER -> IF Len(q) = 1 THEN None ELSE q[2]

\* The pointer that the k-th clear() holds still is the item to erase next, and
\* no other clear() is erasing an item of its list.
Awaits(fs, k, o) ==
    LET q == o[fs[k].list] IN
    /\ fs[k].next = Coming(q, fs[k].erased)
    /\ \A m \in DOMAIN fs \ {k} : \A p \in DOMAIN q : q[p] # fs[m].erased

\* History: which of the outermost n calls of clear() the step disturbs.
Watch(n) ==
    disturbed' = {k \in DOMAIN clears' :
                     k \in disturbed \/ (k <= n /\ ~Awaits(clears', k, order'))}

\* A call of the application leaves the loops alone.
CallsOn == UNCHANGED <<clears, fault>> /\ Watch(Len(clears))

ConstructItem(i) ==
    /\ Calls
    /\ i \notin items
    /\ items' = items \cup {i}
    /\ UNCHANGED <<links, order>>
    /\ CallsOn

\* insert(), with its two assertions as guards.
InsertItem(l, i, before) ==
    /\ Calls
    /\ i \in items
    /\ links.list[i] = None
    /\ before = None \/ (before \in items /\ links.list[before] = l)
    /\ links' = Inserted(links, l, i, before)
    /\ order' = WithBefore(order, l, i, before)
    /\ UNCHANGED items
    /\ CallsOn

Cut(i) ==
    /\ Calls
    /\ i \in items
    /\ links.list[i] # None
    /\ links' = CutOut(links, i)
    /\ order' = Without(order, i)
    /\ UNCHANGED items
    /\ CallsOn

\* move(): nothing before itself.
Move(i, before) ==
    LET l == links.list[i] IN
    /\ Calls
    /\ i \in items
    /\ l # None
    /\ i # before
    /\ before = None \/ (before \in items /\ links.list[before] = l)
    /\ links' = Inserted(CutOut(links, i), l, i, before)
    /\ order' = WithBefore(Without(order, i), l, i, before)
    /\ UNCHANGED items
    /\ CallsOn

\* erase() and ~LinkedListItem(), once; what the destructors of subclasses call
\* before is the calls before this one.
DestroyItem(i) ==
    /\ Calls
    /\ i \in items
    /\ ~Destructing(i)
    /\ items' = items \ {i}
    /\ links' = IF links.list[i] = None THEN links ELSE CutOut(links, i)
    /\ order' = Without(order, i)
    /\ CallsOn

Replaced(k, i, other) ==
    IF k.list[other] = None THEN k
    ELSE CutOut(Inserted(k, k.list[other], i, k.next[other]), other)

OrderReplaced(o, i, other) ==
    [l \in Lists |-> [p \in DOMAIN o[l] |-> IF o[l][p] = other THEN i ELSE o[l][p]]]

\* LinkedListItem(LinkedListItem&&): the new item takes the place of the other.
MoveConstructItem(i, other) ==
    /\ Calls
    /\ i \notin items
    /\ other \in items
    /\ items' = items \cup {i}
    /\ links' = Replaced(links, i, other)
    /\ order' = OrderReplaced(order, i, other)
    /\ CallsOn

\* operator=(LinkedListItem&&); an item assigned to itself is cut out.
MoveAssignItem(i, other) ==
    /\ Calls
    /\ i \in items
    /\ other \in items
    /\ links' = Replaced(IF links.list[i] = None THEN links ELSE CutOut(links, i), i, other)
    /\ order' = OrderReplaced(Without(order, i), i, other)
    /\ UNCHANGED items
    /\ CallsOn

\* LinkedList(LinkedList&&), the new list being an empty one that nobody uses.
MoveConstructList(l, other) ==
    /\ Calls
    /\ l # other
    /\ \A k \in DOMAIN clears : l \notin {clears[k].list, clears[k].then}
    /\ links.first[l] = None
    /\ links' = Adopted(links, l, other)
    /\ order' = [order EXCEPT ![l] = order[other], ![other] = <<>>]
    /\ UNCHANGED items
    /\ CallsOn

\* clear(), the beginning of operator=(LinkedList&&) and of ~LinkedList().
Clear(l, then) ==
    /\ Calls
    /\ Len(clears) < MaxClears
    /\ clears' = Append(clears, [list |-> l, erased |-> None, next |-> links.first[l], then |-> then])
    /\ UNCHANGED <<links, items, fault, order>>
    /\ Watch(Len(clears'))

Looping == fault = "none" /\ clears # <<>> /\ Top.erased = None

\* erase() of the next item, up to its destructor: the item after it is read
\* first, then comes the assertion, then delete.
EraseNext ==
    LET i == Top.next IN
    /\ Looping
    /\ i # None
    /\ fault' = CASE i \notin items -> "undefined"
                  [] i \in items /\ links.list[i] # Top.list -> "assertion"
                  [] i \in items /\ links.list[i] = Top.list /\ Destructing(i) -> "undefined"
                  [] OTHER -> "none"
    /\ clears' = IF fault' # "none" THEN clears
                 ELSE [clears EXCEPT ![Len(clears)] = [@ EXCEPT !.erased = i, !.next = links.next[i]]]
    /\ UNCHANGED <<links, items, order>>
    /\ Watch(Len(clears) - 1)

\* Mutant: the next item is read from the erased one.
EraseReturns_Mutant ==
    /\ Calls
    /\ clears # <<>>
    /\ clears' = [clears EXCEPT ![Len(clears)] = [@ EXCEPT !.erased = None, !.next = None]]
    /\ items' = items \ {Top.erased}
    /\ links' = IF links.list[Top.erased] = None THEN links ELSE CutOut(links, Top.erased)
    /\ order' = Without(order, Top.erased)
    /\ UNCHANGED fault
    /\ Watch(Len(clears) - 1)

\* ~LinkedListItem() at the end of the destructor, back in the loop.
EraseReturns ==
    /\ Calls
    /\ clears # <<>>
    /\ clears' = [clears EXCEPT ![Len(clears)] = [@ EXCEPT !.erased = None]]
    /\ items' = items \ {Top.erased}
    /\ links' = IF links.list[Top.erased] = None THEN links ELSE CutOut(links, Top.erased)
    /\ order' = Without(order, Top.erased)
    /\ UNCHANGED fault
    /\ Watch(Len(clears) - 1)

\* The end of clear(), and of operator=(LinkedList&&) that overwrites the ends of
\* the list whatever is in it.
ClearReturns ==
    LET l == Top.list  then == Top.then IN
    /\ Looping
    /\ Top.next = None
    /\ IF then # None /\ links.first[l] # None
       THEN fault' = "lost" /\ UNCHANGED <<links, clears, order>>
       ELSE /\ clears' = SubSeq(clears, 1, Len(clears) - 1)
            /\ links' = IF then = None THEN links ELSE Adopted(links, l, then)
            /\ order' = IF then = None THEN order ELSE [order EXCEPT ![l] = order[then], ![then] = <<>>]
            /\ UNCHANGED fault
    /\ UNCHANGED items
    /\ Watch(Len(clears) - 1)

-----------------------------------------------------------------------------

ListInit ==
    /\ links = [list |-> [i \in Items |-> None],
                previous |-> [i \in Items |-> None], next |-> [i \in Items |-> None],
                first |-> [l \in Lists |-> None], last |-> [l \in Lists |-> None]]
    /\ items = {}
    /\ clears = <<>>
    /\ fault = "none"
    /\ order = [l \in Lists |-> <<>>]
    /\ disturbed = {}

ListNext ==
    \/ \E i \in Items : ConstructItem(i) \/ Cut(i) \/ DestroyItem(i)
    \/ \E l \in Lists, i \in Items, before \in ItemOrNone : InsertItem(l, i, before)
    \/ \E i \in Items, before \in ItemOrNone : Move(i, before)
    \/ \E i, other \in Items : MoveConstructItem(i, other) \/ MoveAssignItem(i, other)
    \/ \E l, other \in Lists : MoveConstructList(l, other)
    \/ \E l \in Lists, then \in Lists \cup {None} : Clear(l, then)
    \/ EraseNext
    \/ EraseReturns
    \/ ClearReturns

ListSpec == ListInit /\ [][ListNext]_listVars

-----------------------------------------------------------------------------

(***************************************************************************)
(* The links of neighbours agree, in both directions and about their list, *)
(* an item at an end is the one its list names, an item in no list has no  *)
(* links, and only constructed items are in a list (insert(), cut() and    *)
(* all that use them, whoever is being cleared meanwhile).                 *)
(***************************************************************************)
ItemLinked(k, its, i) ==
    LET l == k.list[i] IN
    IF l = None THEN k.previous[i] = None /\ k.next[i] = None
    ELSE /\ i \in its
         /\ k.previous[i] = None <=> k.first[l] = i
         /\ k.next[i] = None <=> k.last[l] = i
         /\ k.previous[i] # None => k.next[k.previous[i]] = i /\ k.list[k.previous[i]] = l
         /\ k.next[i] # None => k.previous[k.next[i]] = i /\ k.list[k.next[i]] = l

EndsLinked(k, l) ==
    /\ k.first[l] # None => k.list[k.first[l]] = l
    /\ k.last[l] # None => k.list[k.last[l]] = l
    /\ k.first[l] = None <=> k.last[l] = None

Linked(k, its) ==
    /\ \A i \in Items : ItemLinked(k, its, i)
    /\ \A l \in Lists : EndsLinked(k, l)

LinksAgree == Linked(links, items)

(***************************************************************************)
(* From either end of a list, the links pass exactly the items that the    *)
(* calls put there, in their order (begin(), end(), LinkedListItem::next() *)
(* and previous()), whatever the destructors of erased items call; all of  *)
(* them exist, and an item in no list keeps no links.                      *)
(***************************************************************************)
OrderExact ==
    /\ \A l \in Lists :
        LET q == order[l] IN
        /\ links.first[l] = IF q = <<>> THEN None ELSE q[1]
        /\ links.last[l] = IF q = <<>> THEN None ELSE q[Len(q)]
        /\ {i \in Items : links.list[i] = l} = {q[p] : p \in DOMAIN q}
        /\ \A p \in DOMAIN q :
            /\ q[p] \in items
            /\ links.next[q[p]] = IF p = Len(q) THEN None ELSE q[p + 1]
            /\ links.previous[q[p]] = IF p = 1 THEN None ELSE q[p - 1]
    /\ \A i \in Items : links.list[i] = None => links.next[i] = None /\ links.previous[i] = None

(***************************************************************************)
(* clear() reads the pointer to the next item before it erases an item,    *)
(* and destructors may do anything in between.  Unless one of them changed *)
(* what comes next in the list that is being cleared, the loop never uses  *)
(* an item that is gone or elsewhere, neither when destructors clear other *)
(* lists, and when it ends the list is empty, so that operator=() and the  *)
(* destructor of the list leave no item behind (clear(), erase()).         *)
(***************************************************************************)
ClearsSound ==
    /\ fault # "none" => clears # <<>> /\ Len(clears) \in disturbed
    /\ Looping /\ Top.next = None /\ Len(clears) \notin disturbed => order[Top.list] = <<>>

(***************************************************************************)
(* The loop of clear() never meets an item that is gone or elsewhere,      *)
(* whatever the destructors of the items do, which are told that the item  *)
(* is still connected to the list.  It may: see containers_clear.cfg.      *)
(***************************************************************************)
ClearsWhatever == fault \notin {"assertion", "undefined"}
=============================================================================
