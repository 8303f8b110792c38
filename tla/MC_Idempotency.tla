--------------------------- MODULE MC_Idempotency ---------------------------
(* Instances of Idempotency for TLC. *)
EXTENDS Idempotency, TLC

CONSTANTS w1, w2

RequestSymmetry == Permutations(Workers)
=============================================================================
