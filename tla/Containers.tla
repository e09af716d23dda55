----------------------------- MODULE Containers -----------------------------
(***************************************************************************)
(* Containers that keep the memory or the links of others: linked lists    *)
(* and growable arrays.  They share nothing, so an execution is about      *)
(* either of them.                                                         *)
(***************************************************************************)
EXTENDS LinkedList, GrowableArray

VARIABLE container      \* "list" or "array", chosen in Init

containersVars == <<container, listVars, arrayVars>>

ContainersInit ==
    /\ container \in {"list", "array"}
    /\ ListInit
    /\ ArrayInit

ContainersNext ==
    /\ \/ container = "list" /\ ListNext /\ UNCHANGED arrayVars
       \/ container = "array" /\ ArrayNext /\ UNCHANGED listVars
    /\ UNCHANGED container

ContainersSpec == ContainersInit /\ [][ContainersNext]_containersVars
=============================================================================
