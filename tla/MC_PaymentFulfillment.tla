----------------------- MODULE MC_PaymentFulfillment -----------------------
(* Instances of PaymentFulfillment for TLC. *)
EXTENDS PaymentFulfillment, TLC

CONSTANTS o1, o2, w1, w2

OneBalance == o1 :> "balance"
SubscriptionAndLegacy == o1 :> "subscription" @@ o2 :> "legacy"

WorkerSymmetry == Permutations(Workers)
=============================================================================
