---------------------------- MODULE MCReadModel ----------------------------
(* An instance of the read model for TLC: the tasks share one manifest. *)
EXTENDS ReadModel, TLC
CONSTANTS t1, t2, t3, m1
MCManifestOf == [task \in Tasks |-> m1]
Symmetric == Permutations(Tasks \ Settling)
=============================================================================
