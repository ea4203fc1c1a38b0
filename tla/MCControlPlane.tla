--------------------------- MODULE MCControlPlane ---------------------------
(* The control plane with few calls, goals and failures. *)
EXTENDS ControlPlane, TLC

Symmetry == Permutations(Calls) \cup Permutations(Objectives)
=============================================================================
