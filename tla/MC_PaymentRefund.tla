-------------------------- MODULE MC_PaymentRefund --------------------------
(* Instances of PaymentRefund for TLC. *)
EXTENDS PaymentRefund, TLC

CONSTANTS o1, w1, w2

BalanceOrder == o1 :> "balance"
SubscriptionOrder == o1 :> "subscription"
AmountOne == o1 :> 1
AmountTwo == o1 :> 2
FromCompleted == o1 :> {"completed"}
FromRecorded == o1 :> {"completed", "pending"}
FromAny == o1 :> Origins

RequestSymmetry == Permutations(Workers)

-----------------------------------------------------------------------------
(* What the comments of the code say and the code does not do.             *)

\* markRefundPending's comment: once the gateway confirmed the failure of a pending
\* refund, the deduction is given back (or at least flagged).
DeductionIsReturned ==
    \A o \in Orders :
        (gw[o] = "failed" /\ deducted[o] > 0)
            ~> (deducted[o] = 0 \/ o \in flagged \/ status[o] \in Final)
=============================================================================
