--------------------------- MODULE MCIdempotency ---------------------------
(* An instance of the idempotency key for TLC: two clients ask one question *)
(* under it, a third another.                                               *)
EXTENDS Idempotency, TLC
CONSTANTS c1, c2, c3
MCAsks ==
  c1 :> [route |-> "prepare", body |-> "b1"] @@ c2 :> [route |-> "prepare", body |-> "b1"]
    @@ c3 :> [route |-> "challenge", body |-> "b2"]
=============================================================================
