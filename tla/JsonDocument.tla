---------------------------- MODULE JsonDocument ----------------------------
(***************************************************************************)
(* What the documentation of Utility::JsonWriter promises of the order of  *)
(* its calls: containers close in the order opposite to their opening, an  *)
(* object takes keys and values in turn, a compact array takes only single *)
(* values, and one complete value is the whole document.  There is no      *)
(* text, indentation or comma here; JsonWriter.tla implements this module. *)
(***************************************************************************)
EXTENDS Sequences, SequencesExt

VARIABLES
    open,       \* kinds of the containers that are open, outermost first
    keyed,      \* a key was written whose value is missing
    done        \* the document is complete

vars == <<open, keyed, done>>

Kinds == {"object", "array", "compact"}

Inside(kind) == open # <<>> /\ Last(open) = kind

ValueExpected == ~done /\ (Inside("object") => keyed)

Init == open = <<>> /\ keyed = FALSE /\ done = FALSE

Begin(kind) ==
    /\ ValueExpected
    /\ ~Inside("compact")
    /\ open' = Append(open, kind)
    /\ keyed' = FALSE
    /\ UNCHANGED done

End ==
    /\ open # <<>>
    /\ ~keyed
    /\ open' = Front(open)
    /\ done' = (Len(open) = 1)
    /\ UNCHANGED keyed

Key ==
    /\ Inside("object")
    /\ ~keyed
    /\ keyed' = TRUE
    /\ UNCHANGED <<open, done>>

\* A single value, or a whole compact array in one call.
Value ==
    /\ ValueExpected
    /\ keyed' = FALSE
    /\ done' = (open = <<>>)
    /\ UNCHANGED open

Next ==
    \/ \E kind \in Kinds : Begin(kind)
    \/ End
    \/ Key
    \/ Value

Spec == Init /\ [][Next]_vars
=============================================================================
