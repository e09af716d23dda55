-------------------------- MODULE MCInterconnect --------------------------
(***************************************************************************)
(* Instances of Interconnect for TLC.  The address pool is smaller than    *)
(* what the emitters could use, so that addresses are reused.              *)
(***************************************************************************)
EXTENDS Interconnect, TLC

\* Which connection, emitter or receiver is which does not matter.
Symmetry == Permutations(Addresses) \cup Permutations(Emitters)
                \cup Permutations(Receivers) \cup Permutations(Signals)
=============================================================================
