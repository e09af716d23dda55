--------------------------- MODULE MCStateMachine ---------------------------
(* Three states, so that a step made by a slot can lead elsewhere. *)
EXTENDS StateMachine

CONSTANTS a, b, c, x
=============================================================================
