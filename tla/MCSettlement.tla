---------------------------- MODULE MCSettlement ----------------------------
(* Instances of the settlement path for TLC. *)
EXTENDS Settlement, TLC
CONSTANTS v1, v2
Symmetric == Permutations({v1, v2})
=============================================================================
