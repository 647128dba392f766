----------------------------- MODULE MCJobQueue -----------------------------
(* Instances of the job queue for TLC. *)
EXTENDS JobQueue, TLC
CONSTANTS k1, k2, w1, w2
Symmetric == Permutations({w1, w2}) \cup Permutations({k1, k2})
=============================================================================
