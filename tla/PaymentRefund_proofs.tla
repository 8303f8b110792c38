------------------------ MODULE PaymentRefund_proofs ------------------------
(* Proofs about PaymentRefund, for any orders, amounts, requests and number *)
(* of failures.                                                             *)
EXTENDS PaymentRefund, TLAPS

-----------------------------------------------------------------------------
(* The inductive invariant.                                                 *)

\* Program points at which a request still owns what it deducted.
Holding == {"gateway", "markOk", "markPending", "rollback"}

\* Program points of QueryAndFinalizeRefund.
Finalizing == {"ask", "finalOk", "finalFail", "finalFail2"}

\* Nothing is given back that was not taken: the plan of a request, or the audit row
\* of a pending refund, never claims more than is deducted.
HeldInv ==
    /\ \A o \in Orders :
        /\ (status[o] = "REFUND_PENDING" /\ detail[o] = "held") => deducted[o] >= pendingAmt[o]
        /\ gw[o] = "pending" => accepted[o] >= 1
    /\ \A w \in Workers :
        /\ pc[w] \in Holding => deducted[ord[w]] >= plan[w].take
        /\ (pc[w] \in Finalizing /\ plan[w].held = "yes") =>
              detail[ord[w]] = "held" /\ plan[w].take = pendingAmt[ord[w]]

RefundInv == TypeOK /\ RefundExclusive /\ HeldInv

\* Plans whose deduction has to cover the refund.
MustCover(w) ==
    plan[w].deduct = "yes" /\ plan[w].force = "no" /\ OrderType[ord[w]] = "balance"

\* Such a plan takes the whole amount, up to the gateway call.
CoverInv ==
    \A w \in Workers :
        (/\ pc[w] \in {"lock", "deduct", "gateway"} /\ MustCover(w)
         /\ pc[w] = "gateway" => ord[w] \notin flagged)
        => plan[w].take = plan[w].amt /\ plan[w].amt > 0

\* No plan and no row is about more than the order.
BoundInv ==
    /\ \A o \in Orders : refundAmt[o] <= Amount[o] /\ pendingAmt[o] <= Amount[o]
    /\ \A w \in Workers :
        /\ pc[w] \in {"idle", "request"} => plan[w] = NoPlan
        /\ plan[w].amt <= Amount[ord[w]] /\ plan[w].take <= Amount[ord[w]]

\* What the rows of an order tell about its deduction when no request works on it.
RowInv ==
    \A o \in Recorded :
        /\ deducted[o] <= Amount[o]
        /\ status[o] = "REFUND_PENDING" => detail[o] # "none"
        /\ detail[o] = "notReturned" => o \in flagged
        /\ detail[o] = "returned" => pendingAmt[o] = 0
        /\ (status[o] = "REFUND_PENDING" /\ detail[o] = "returned") => o \notin flagged
        /\ o \notin flagged =>
              /\ status[o] \in Refundable => deducted[o] = 0
              /\ status[o] = "REFUND_PENDING" => deducted[o] = pendingAmt[o]

\* What a request knows about the deduction of the order it works on.
WorkInv ==
    \A w \in Workers : ord[w] \in Recorded =>
        /\ pc[w] \in {"deduct", "restore"} => ord[w] \in flagged \/ deducted[ord[w]] = 0
        /\ pc[w] \in Holding =>
              IF ord[w] \in flagged THEN plan[w].take = 0 ELSE deducted[ord[w]] = plan[w].take
        /\ pc[w] = "failStatus" => ord[w] \in flagged
        /\ (pc[w] \in Finalizing /\ plan[w].held = "no") =>
              /\ detail[ord[w]] \in {"returned", "notReturned"}
              /\ detail[ord[w]] = "notReturned" => plan[w].take = 0

DeductionInv == BoundInv /\ RowInv /\ WorkInv

\* The gateway is asked only when it has nothing to pay out, and a stale query
\* cannot contradict it.
GatewayInv ==
    /\ \A o \in Orders :
        /\ accepted[o] = IF gw[o] \in {"pending", "success"} THEN 1 ELSE 0
        /\ status[o] \in Refundable => accepted[o] = 0
        /\ status[o] \in Final => gw[o] = "success"
    /\ \A w \in Workers :
        /\ pc[w] \in Refunding \ {"markOk", "markPending"} => accepted[ord[w]] = 0
        /\ pc[w] \in {"markOk", "finalOk"} => gw[ord[w]] = "success"
        /\ pc[w] = "markPending" => gw[ord[w]] # "none"
        /\ pc[w] = "ask" =>
              status[ord[w]] \in Final \union {"REFUND_PENDING"} \/ ord[w] \in failLogged
        /\ pc[w] \in {"finalFail", "finalFail2"} =>
              \/ status[ord[w]] = "REFUND_PENDING" /\ gw[ord[w]] = "failed"
              \/ ord[w] \in failLogged

\* Failures so far.
Failures == MaxFaults - faults

\* A query that saw a failed payout finds the order pending with it, or ended.
QueryInv ==
    \A w \in Workers :
        /\ pc[w] = "ask" =>
              status[ord[w]] \in Final \union {"REFUND_PENDING"} \/ ord[w] \in failLogged
        /\ pc[w] \in {"finalFail", "finalFail2"} =>
              \/ status[ord[w]] = "REFUND_PENDING" /\ gw[ord[w]] = "failed"
              \/ status[ord[w]] \in Final
              \/ ord[w] \in failLogged

\* A payout beyond the number of failures belongs to the latest request, which has not
\* failed, and nobody can start another one: the order is REFUNDING and about to be
\* marked, pending or refunded.
PayoutInv ==
    /\ Failures \in Nat
    /\ \A o \in Orders :
        /\ accepted[o] <= 1 + Failures
        /\ status[o] \in Refundable => accepted[o] <= Failures
        /\ gw[o] \in {"none", "failed"} => accepted[o] <= Failures
    /\ \A w \in Workers :
        pc[w] \in Refunding \ {"markOk", "markPending"} => accepted[ord[w]] <= Failures

-----------------------------------------------------------------------------
(* Facts about plans.                                                       *)

\* NoPlan is a plan about nothing.
LEMMA NoPlanType == NoPlan \in Plans /\ NoPlan.take = 0 /\ NoPlan.amt = 0
BY DEF Plans, NoPlan, YesNo, RefundOrderStatuses, Refundable

\* The fields of a RefundPlan.
LEMMA PlanFields ==
    ASSUME NEW p \in Plans
    PROVE  /\ p.amt \in Nat /\ p.take \in Nat
           /\ p.force \in YesNo /\ p.deduct \in YesNo /\ p.held \in YesNo
BY DEF Plans

\* BalanceToDeduct or SubDaysToDeduct replaced by what was deducted.
LEMMA PlanTake ==
    ASSUME TypeOK, NEW w \in Workers, NEW n \in Nat,
           plan' = [plan EXCEPT ![w].take = n]
    PROVE  /\ plan' \in [Workers -> Plans]
           /\ plan'[w].take = n /\ plan'[w].amt = plan[w].amt
           /\ plan'[w].force = plan[w].force /\ plan'[w].deduct = plan[w].deduct
           /\ \A v \in Workers \ {w} : plan'[v] = plan[v]
<1>1. plan[w] \in Plans /\ plan' = [plan EXCEPT ![w] = [@ EXCEPT !.take = n]]
  BY DEF TypeOK
<1>2. [plan[w] EXCEPT !.take = n] \in Plans
  BY <1>1 DEF Plans
<1>3. QED
  BY <1>1, <1>2 DEF TypeOK, Plans

\* A deduction takes between nothing and what the plan says.
LEMMA DeductedNowBound ==
    ASSUME TypeOK, NEW w \in Workers
    PROVE  DeductedNow(w) \in Nat /\ DeductedNow(w) <= plan[w].take
<1>1. plan[w].take \in Nat /\ balance \in Int
  BY PlanFields DEF TypeOK
<1>2. QED
  BY <1>1 DEF DeductedNow, Available, Smaller

\* The plan PrepareRefund makes.
LEMMA Prepared ==
    ASSUME TypeOK, NEW w \in Workers, NEW o \in Orders, PrepareRefund(w, o)
    PROVE  /\ faults' \in Nat
           /\ \E p \in Plans :
                /\ plan' = [plan EXCEPT ![w] = p]
                /\ p.amt <= Amount[o] /\ p.take <= Amount[o] /\ p.held = "no"
                /\ p.amt > 0
                /\ (p.deduct = "yes" /\ p.force = "no" /\ OrderType[o] = "balance")
                      => p.take = p.amt
<1>1. PICK amt \in 1..Amount[o], force \in YesNo, deduct \in YesNo, take \in 0..Amount[o] :
        /\ \/ NoFault /\ deduct = "no" /\ take = 0
           \/ /\ NoFault /\ deduct = "yes" /\ OrderType[o] = "balance"
              /\ force = "yes" \/ balance >= amt
              /\ take = Available(amt)
           \/ /\ NoFault /\ deduct = "yes" /\ OrderType[o] = "subscription"
              /\ take = Amount[o] \/ (force = "yes" /\ take = 0)
           \/ Fault /\ deduct = "yes" /\ force = "yes" /\ take = 0
        /\ plan' = [plan EXCEPT ![w] =
                      [amt |-> amt, force |-> force, deduct |-> deduct, take |-> take,
                       held |-> "no", from |-> status[o]]]
  BY DEF PrepareRefund
<1> DEFINE p == [amt |-> amt, force |-> force, deduct |-> deduct, take |-> take,
                 held |-> "no", from |-> status[o]]
<1>2. p \in Plans
  BY OrderAssumption DEF TypeOK, Plans, YesNo
<1>3. faults' \in Nat
  BY <1>1 DEF TypeOK, NoFault, Fault
<1>4. p.amt <= Amount[o] /\ p.take <= Amount[o] /\ p.held = "no"
  BY OrderAssumption
<1>5. p.amt > 0 /\ ((p.deduct = "yes" /\ p.force = "no" /\ OrderType[o] = "balance")
                       => p.take = p.amt)
  BY <1>1, OrderAssumption DEF TypeOK, Available, Smaller
<1>6. QED
  BY <1>1, <1>2, <1>3, <1>4, <1>5

\* The plan refundFinalizePlan and applyTo make.
LEMMA Queried ==
    ASSUME TypeOK, NEW w \in Workers, NEW o \in Orders, QueryAndFinalizeRefund(w, o)
    PROVE  \E p \in Plans :
             /\ plan' = [plan EXCEPT ![w] = p]
             /\ p.amt = refundAmt[o]
             /\ p.take \in {0, pendingAmt[o], refundAmt[o], Amount[o]}
             /\ p.held = "yes" => detail[o] = "held" /\ p.take = pendingAmt[o]
             /\ p.held = "no" => detail[o] # "held"
             /\ detail[o] = "notReturned" => p.take = 0
<1> DEFINE P(take) == [amt |-> refundAmt[o], force |-> IF o \in forced THEN "yes" ELSE "no",
                       deduct |-> "yes", take |-> take,
                       held |-> IF detail[o] = "held" THEN "yes" ELSE "no",
                       from |-> "REFUND_PENDING"]
<1> DEFINE Takes == IF detail[o] = "held" THEN {pendingAmt[o]}
                    ELSE IF ~(detail[o] \in {"none", "returned"}) THEN {0}
                    ELSE IF OrderType[o] = "balance" THEN {refundAmt[o]} ELSE {0, Amount[o]}
<1>0. PICK take \in Takes : plan' = [plan EXCEPT ![w] = P(take)]
  BY Zenon DEF QueryAndFinalizeRefund
<1>1. /\ take \in {0, pendingAmt[o], refundAmt[o], Amount[o]}
      /\ detail[o] = "held" => take = pendingAmt[o]
      /\ detail[o] = "notReturned" => take = 0
  OBVIOUS
<1>2. P(take) \in Plans
  <2>1. take \in Nat /\ refundAmt[o] \in Nat
    BY <1>1, OrderAssumption DEF TypeOK
  <2>2. QED
    BY <2>1 DEF Plans, YesNo, RefundOrderStatuses
<1>3. QED
  BY <1>0, <1>1, <1>2

-----------------------------------------------------------------------------
(* One lemma per conjunct: every step keeps it.                             *)

\* Every step keeps the types; amounts stay natural because nothing is given back
\* that was not taken.
LEMMA TypeStep ==
    ASSUME RefundInv, [Next]_refundVars
    PROVE  TypeOK'
<1> USE OrderAssumption DEF RefundInv, TypeOK, RefundOrderStatuses, Refundable, Final,
            RefundPCs, Refunding
<1> USE DEF rowVars, logVars, moneyVars, gatewayVars, Fault, NoFault, LateFault, Go, Done,
            SetStatus, Take, GiveBack
<1>1. ASSUME NEW w \in Workers, NEW o \in Orders, RequestRefund(w, o) \/ PrepareRefund(w, o)
      PROVE  TypeOK'
  <2>1. CASE RequestRefund(w, o)
    BY <2>1 DEF RequestRefund
  <2>2. CASE PrepareRefund(w, o)
    <3>1. plan' \in [Workers -> Plans] /\ faults' \in Nat
      BY <2>2, Prepared
    <3>2. QED
      BY <2>2, <3>1 DEF PrepareRefund
  <2>3. QED
    BY <1>1, <2>1, <2>2
<1>2. ASSUME NEW w \in Workers, NEW o \in Orders, QueryAndFinalizeRefund(w, o)
      PROVE  TypeOK'
  <2>1. plan' \in [Workers -> Plans]
    BY <1>2, Queried
  <2>2. QED
    BY <1>2, <2>1 DEF QueryAndFinalizeRefund
<1>3. ASSUME NEW w \in Workers, RecordRequest(w) \/ LockRefund(w)
      PROVE  TypeOK'
  BY <1>3, NoPlanType DEF RecordRequest, LockRefund
<1>4. ASSUME NEW w \in Workers, Deduct(w)
      PROVE  TypeOK'
  <2>1. plan[w].take \in Nat /\ DeductedNow(w) \in Nat
    BY DeductedNowBound, PlanFields
  <2>2. ASSUME NEW n \in Nat, plan' = [plan EXCEPT ![w].take = n]
        PROVE  plan' \in [Workers -> Plans]
    BY <2>2, PlanTake
  <2>3. plan' \in [Workers -> Plans]
    BY <1>4, <2>1, <2>2 DEF Deduct
  <2>4. deducted' \in [Orders -> Nat] /\ balance' \in Int
    BY <1>4, <2>1 DEF Deduct
  <2>5. QED
    BY <1>4, <2>3, <2>4 DEF Deduct
<1>5. ASSUME NEW w \in Workers, CallGateway(w)
      PROVE  TypeOK'
  BY <1>5 DEF CallGateway
<1>6. ASSUME NEW w \in Workers, MarkRefundOk(w) \/ MarkRefundPending(w)
      PROVE  TypeOK'
  <2>1. plan[w].take \in Nat /\ plan[w].amt \in Nat
    BY PlanFields
  <2>2. QED
    BY <1>6, <2>1, NoPlanType DEF MarkRefundOk, MarkRefundPending, WriteRefund, FinalStatus
<1>7. ASSUME NEW w \in Workers, RollbackRefund(w)
      PROVE  TypeOK'
  <2>1. plan[w].take \in Nat
    BY PlanFields
  <2>2. pc[w] = "rollback" => deducted[ord[w]] - plan[w].take \in Nat
    BY <2>1 DEF HeldInv, Holding
  <2>3. QED
    BY <1>7, <2>1, <2>2 DEF RollbackRefund
<1>8. ASSUME NEW w \in Workers, FlagRollback(w) \/ FailStatus(w) \/ RestoreStatus(w)
      PROVE  TypeOK'
  BY <1>8, NoPlanType DEF FlagRollback, FailStatus, RestoreStatus
<1>9. ASSUME NEW w \in Workers, AskGateway(w) \/ Abandon(w)
      PROVE  TypeOK'
  BY <1>9, NoPlanType DEF AskGateway, Abandon
<1>10. ASSUME NEW w \in Workers, FinalizeSuccess(w)
      PROVE  TypeOK'
  <2>1. DeductedNow(w) \in Nat /\ plan[w].amt \in Nat
    BY DeductedNowBound, PlanFields
  <2>2. QED
    BY <1>10, <2>1, NoPlanType DEF FinalizeSuccess, WriteRefund, FinalStatus
<1>11. ASSUME NEW w \in Workers, FinalizeFailed(w) \/ FinalizeFlagged(w)
      PROVE  TypeOK'
  <2>1. plan[w].take \in Nat
    BY PlanFields
  <2>2. (status[ord[w]] = "REFUND_PENDING" /\ pc[w] = "finalFail" /\ plan[w].held = "yes")
            => deducted[ord[w]] - plan[w].take \in Nat
    BY <2>1 DEF HeldInv, Finalizing
  <2>3. QED
    BY <1>11, <2>1, <2>2, NoPlanType DEF FinalizeFailed, FinalizeFlagged
<1>12. ASSUME NEW o \in Orders, GatewaySettles(o) PROVE TypeOK'
  BY <1>12 DEF GatewaySettles, HeldInv
<1>13. CASE Spend \/ TopUp
  BY <1>13 DEF Spend, TopUp
<1>14. CASE UNCHANGED refundVars
  BY <1>14 DEF refundVars
<1>15. QED
  BY <1>1, <1>2, <1>3, <1>4, <1>5, <1>6, <1>7, <1>8, <1>9, <1>10, <1>11, <1>12, <1>13, <1>14
  DEF Next, Continue

\* Only the conditional update to REFUNDING lets a request in.
LEMMA ExclusiveStep ==
    ASSUME RefundInv, [Next]_refundVars
    PROVE  RefundExclusive'
<1> USE OrderAssumption DEF RefundInv, RefundExclusive, TypeOK, RefundOrderStatuses,
            Refundable, Final, RefundPCs, Refunding
<1> USE DEF rowVars, logVars, moneyVars, gatewayVars, Fault, NoFault, LateFault, Go, Done,
            SetStatus, Take, GiveBack
<1>1. ASSUME NEW w \in Workers, NEW o \in Orders, RequestRefund(w, o) \/ PrepareRefund(w, o)
      PROVE  RefundExclusive'
  BY <1>1 DEF RequestRefund, PrepareRefund, NoPlan
<1>2. ASSUME NEW w \in Workers, NEW o \in Orders, QueryAndFinalizeRefund(w, o)
      PROVE  RefundExclusive'
  BY <1>2 DEF QueryAndFinalizeRefund
<1>3. ASSUME NEW w \in Workers, RecordRequest(w) \/ LockRefund(w)
      PROVE  RefundExclusive'
  BY <1>3 DEF RecordRequest, LockRefund
<1>4. ASSUME NEW w \in Workers, Deduct(w)
      PROVE  RefundExclusive'
  BY <1>4 DEF Deduct
<1>5. ASSUME NEW w \in Workers, CallGateway(w)
      PROVE  RefundExclusive'
  BY <1>5 DEF CallGateway
<1>6. ASSUME NEW w \in Workers, MarkRefundOk(w) \/ MarkRefundPending(w)
      PROVE  RefundExclusive'
  BY <1>6 DEF MarkRefundOk, MarkRefundPending, WriteRefund, FinalStatus
<1>7. ASSUME NEW w \in Workers, RollbackRefund(w)
      PROVE  RefundExclusive'
  BY <1>7 DEF RollbackRefund
<1>8. ASSUME NEW w \in Workers, FlagRollback(w) \/ FailStatus(w) \/ RestoreStatus(w)
      PROVE  RefundExclusive'
  BY <1>8 DEF FlagRollback, FailStatus, RestoreStatus
<1>9. ASSUME NEW w \in Workers, AskGateway(w) \/ Abandon(w)
      PROVE  RefundExclusive'
  BY <1>9 DEF AskGateway, Abandon
<1>10. ASSUME NEW w \in Workers, FinalizeSuccess(w)
      PROVE  RefundExclusive'
  BY <1>10 DEF FinalizeSuccess, WriteRefund, FinalStatus
<1>11. ASSUME NEW w \in Workers, FinalizeFailed(w) \/ FinalizeFlagged(w)
      PROVE  RefundExclusive'
  BY <1>11 DEF FinalizeFailed, FinalizeFlagged
<1>12. ASSUME NEW o \in Orders, GatewaySettles(o) PROVE RefundExclusive'
  BY <1>12 DEF GatewaySettles, HeldInv
<1>13. CASE Spend \/ TopUp
  BY <1>13 DEF Spend, TopUp
<1>14. CASE UNCHANGED refundVars
  BY <1>14 DEF refundVars
<1>15. QED
  BY <1>1, <1>2, <1>3, <1>4, <1>5, <1>6, <1>7, <1>8, <1>9, <1>10, <1>11, <1>12, <1>13, <1>14
  DEF Next, Continue

\* Claims on the deduction stay covered by it.
LEMMA HeldStep ==
    ASSUME RefundInv, TypeOK', [Next]_refundVars
    PROVE  HeldInv'
<1> USE OrderAssumption DEF RefundInv, RefundExclusive, HeldInv, Holding, Finalizing,
            TypeOK, RefundOrderStatuses, Refundable, Final, RefundPCs, Refunding
<1> USE DEF rowVars, logVars, moneyVars, gatewayVars, Fault, NoFault, LateFault, Go, Done,
            SetStatus, Take, GiveBack
<1>1. ASSUME NEW w \in Workers, NEW o \in Orders, RequestRefund(w, o) \/ PrepareRefund(w, o)
      PROVE  HeldInv'
  <2>1. CASE RequestRefund(w, o)
    BY <2>1 DEF RequestRefund
  <2>2. CASE PrepareRefund(w, o)
    BY <2>2, Prepared DEF PrepareRefund
  <2>3. QED
    BY <1>1, <2>1, <2>2
<1>2. ASSUME NEW w \in Workers, NEW o \in Orders, QueryAndFinalizeRefund(w, o)
      PROVE  HeldInv'
  BY <1>2, Queried DEF QueryAndFinalizeRefund
<1>3. ASSUME NEW w \in Workers, RecordRequest(w) \/ LockRefund(w)
      PROVE  HeldInv'
  <2>1. plan[w].take \in Nat
    BY PlanFields
  <2>2. QED
    BY <1>3, <2>1 DEF RecordRequest, LockRefund
<1>4. ASSUME NEW w \in Workers, Deduct(w)
      PROVE  HeldInv'
  <2>1. DeductedNow(w) \in Nat
    BY DeductedNowBound
  <2>2. ASSUME NEW n \in Nat, plan' = [plan EXCEPT ![w].take = n]
        PROVE  plan'[w].take = n /\ \A v \in Workers \ {w} : plan'[v] = plan[v]
    BY <2>2, PlanTake
  <2>3. CASE plan' = [plan EXCEPT ![w].take = 0] /\ UNCHANGED moneyVars
    BY <1>4, <2>2, <2>3 DEF Deduct
  <2>4. CASE plan' = [plan EXCEPT ![w].take = DeductedNow(w)] /\ Take(ord[w], DeductedNow(w))
    BY <1>4, <2>1, <2>2, <2>4 DEF Deduct
  <2>5. CASE UNCHANGED plan /\ pc'[w] = "restore"
    BY <1>4, <2>1, <2>5 DEF Deduct
  <2>6. QED
    BY <1>4, <2>3, <2>4, <2>5 DEF Deduct
<1>5. ASSUME NEW w \in Workers, CallGateway(w)
      PROVE  HeldInv'
  BY <1>5 DEF CallGateway
<1>6. ASSUME NEW w \in Workers, MarkRefundOk(w) \/ MarkRefundPending(w)
      PROVE  HeldInv'
  BY <1>6 DEF MarkRefundOk, MarkRefundPending, WriteRefund, FinalStatus
<1>7. ASSUME NEW w \in Workers, RollbackRefund(w)
      PROVE  HeldInv'
  BY <1>7 DEF RollbackRefund
<1>8. ASSUME NEW w \in Workers, FlagRollback(w) \/ FailStatus(w) \/ RestoreStatus(w)
      PROVE  HeldInv'
  BY <1>8 DEF FlagRollback, FailStatus, RestoreStatus
<1>9. ASSUME NEW w \in Workers, AskGateway(w) \/ Abandon(w)
      PROVE  HeldInv'
  BY <1>9 DEF AskGateway, Abandon
<1>10. ASSUME NEW w \in Workers, FinalizeSuccess(w)
      PROVE  HeldInv'
  BY <1>10 DEF FinalizeSuccess, WriteRefund, FinalStatus
<1>11. ASSUME NEW w \in Workers, FinalizeFailed(w) \/ FinalizeFlagged(w)
      PROVE  HeldInv'
  <2>1. CASE FinalizeFailed(w)
    BY <2>1 DEF FinalizeFailed
  <2>2. CASE FinalizeFlagged(w)
    BY <2>2 DEF FinalizeFlagged
  <2>3. QED
    BY <1>11, <2>1, <2>2
<1>12. ASSUME NEW o \in Orders, GatewaySettles(o) PROVE HeldInv'
  BY <1>12 DEF GatewaySettles, HeldInv
<1>13. CASE Spend \/ TopUp
  BY <1>13 DEF Spend, TopUp
<1>14. CASE UNCHANGED refundVars
  BY <1>14 DEF refundVars
<1>15. QED
  BY <1>1, <1>2, <1>3, <1>4, <1>5, <1>6, <1>7, <1>8, <1>9, <1>10, <1>11, <1>12, <1>13, <1>14
  DEF Next, Continue

\* Plans and rows stay within the order's amount.
LEMMA BoundStep ==
    ASSUME RefundInv, BoundInv, TypeOK', [Next]_refundVars
    PROVE  BoundInv'
<1> USE OrderAssumption DEF RefundInv, BoundInv, TypeOK, RefundOrderStatuses, Refundable,
            Final, RefundPCs, Refunding
<1> USE DEF rowVars, logVars, moneyVars, gatewayVars, Fault, NoFault, LateFault, Go, Done,
            SetStatus, Take, GiveBack
<1>1. ASSUME NEW w \in Workers, NEW o \in Orders, RequestRefund(w, o) \/ PrepareRefund(w, o)
      PROVE  BoundInv'
  <2>1. CASE RequestRefund(w, o)
    BY <2>1, NoPlanType DEF RequestRefund
  <2>2. CASE PrepareRefund(w, o)
    BY <2>2, Prepared DEF PrepareRefund
  <2>3. QED
    BY <1>1, <2>1, <2>2
<1>2. ASSUME NEW w \in Workers, NEW o \in Orders, QueryAndFinalizeRefund(w, o)
      PROVE  BoundInv'
  BY <1>2, Queried DEF QueryAndFinalizeRefund
<1>3. ASSUME NEW w \in Workers, RecordRequest(w) \/ LockRefund(w)
      PROVE  BoundInv'
  BY <1>3, NoPlanType DEF RecordRequest, LockRefund
<1>4. ASSUME NEW w \in Workers, Deduct(w)
      PROVE  BoundInv'
  <2>1. DeductedNow(w) \in Nat /\ DeductedNow(w) <= plan[w].take /\ plan[w].take \in Nat
    BY DeductedNowBound, PlanFields
  <2>2. ASSUME NEW n \in Nat, plan' = [plan EXCEPT ![w].take = n]
        PROVE  /\ plan'[w].take = n /\ plan'[w].amt = plan[w].amt
               /\ \A v \in Workers \ {w} : plan'[v] = plan[v]
    BY <2>2, PlanTake
  <2>3. CASE plan' = [plan EXCEPT ![w].take = 0] /\ UNCHANGED moneyVars
    BY <1>4, <2>1, <2>2, <2>3 DEF Deduct
  <2>4. CASE plan' = [plan EXCEPT ![w].take = DeductedNow(w)] /\ Take(ord[w], DeductedNow(w))
    BY <1>4, <2>1, <2>2, <2>4 DEF Deduct
  <2>5. CASE UNCHANGED plan /\ pc'[w] = "restore"
    BY <1>4, <2>5 DEF Deduct
  <2>6. QED
    BY <1>4, <2>3, <2>4, <2>5 DEF Deduct
<1>5. ASSUME NEW w \in Workers, CallGateway(w)
      PROVE  BoundInv'
  BY <1>5 DEF CallGateway
<1>6. ASSUME NEW w \in Workers, MarkRefundOk(w) \/ MarkRefundPending(w)
      PROVE  BoundInv'
  <2> DEFINE o == ord[w]
  <2>1. /\ o \in Orders /\ plan[w].amt <= Amount[o] /\ plan[w].take <= Amount[o]
        /\ pc' = [pc EXCEPT ![w] = "idle"] /\ plan' = [plan EXCEPT ![w] = NoPlan] /\ ord' = ord
    BY <1>6 DEF MarkRefundOk, MarkRefundPending
  <2>2. refundAmt' \in {refundAmt, [refundAmt EXCEPT ![o] = plan[w].amt]}
    <3>1. CASE MarkRefundOk(w)
      BY <3>1 DEF MarkRefundOk, WriteRefund
    <3>2. CASE MarkRefundPending(w)
      BY <3>2 DEF MarkRefundPending, WriteRefund
    <3>3. QED
      BY <1>6, <3>1, <3>2
  <2>3. pendingAmt' \in {pendingAmt, [pendingAmt EXCEPT ![o] = plan[w].take]}
    <3>1. CASE MarkRefundOk(w)
      BY <3>1 DEF MarkRefundOk
    <3>2. CASE MarkRefundPending(w)
      BY <3>2 DEF MarkRefundPending
    <3>3. QED
      BY <1>6, <3>1, <3>2
  <2>4. \A x \in Orders : refundAmt'[x] <= Amount[x] /\ pendingAmt'[x] <= Amount[x]
    BY <2>1, <2>2, <2>3
  <2>5. \A v \in Workers :
           /\ pc'[v] \in {"idle", "request"} => plan'[v] = NoPlan
           /\ plan'[v].amt <= Amount[ord'[v]] /\ plan'[v].take <= Amount[ord'[v]]
    BY <2>1, NoPlanType
  <2>6. QED
    BY <2>4, <2>5
<1>7. ASSUME NEW w \in Workers, RollbackRefund(w)
      PROVE  BoundInv'
  BY <1>7 DEF RollbackRefund
<1>8. ASSUME NEW w \in Workers, FlagRollback(w) \/ FailStatus(w) \/ RestoreStatus(w)
      PROVE  BoundInv'
  BY <1>8, NoPlanType DEF FlagRollback, FailStatus, RestoreStatus
<1>9. ASSUME NEW w \in Workers, AskGateway(w) \/ Abandon(w)
      PROVE  BoundInv'
  BY <1>9, NoPlanType DEF AskGateway, Abandon
<1>10. ASSUME NEW w \in Workers, FinalizeSuccess(w)
      PROVE  BoundInv'
  BY <1>10, NoPlanType DEF FinalizeSuccess, WriteRefund
<1>11. ASSUME NEW w \in Workers, FinalizeFailed(w) \/ FinalizeFlagged(w)
      PROVE  BoundInv'
  BY <1>11, NoPlanType DEF FinalizeFailed, FinalizeFlagged
<1>12. ASSUME NEW o \in Orders, GatewaySettles(o) PROVE BoundInv'
  BY <1>12 DEF GatewaySettles, HeldInv
<1>13. CASE Spend \/ TopUp
  BY <1>13 DEF Spend, TopUp
<1>14. CASE UNCHANGED refundVars
  BY <1>14 DEF refundVars
<1>15. QED
  BY <1>1, <1>2, <1>3, <1>4, <1>5, <1>6, <1>7, <1>8, <1>9, <1>10, <1>11, <1>12, <1>13, <1>14
  DEF Next, Continue

\* A plan that must cover the refund goes on covering it.
LEMMA CoverStep ==
    ASSUME RefundInv, CoverInv, TypeOK', [Next]_refundVars
    PROVE  CoverInv'
<1> USE OrderAssumption DEF RefundInv, CoverInv, MustCover, TypeOK, RefundOrderStatuses,
            Refundable, Final, RefundPCs, Refunding
<1> USE DEF rowVars, logVars, moneyVars, gatewayVars, Fault, NoFault, LateFault, Go, Done,
            SetStatus, Take, GiveBack
<1>1. ASSUME NEW w \in Workers, NEW o \in Orders, RequestRefund(w, o) \/ PrepareRefund(w, o)
      PROVE  CoverInv'
  <2>1. CASE RequestRefund(w, o)
    BY <2>1 DEF RequestRefund
  <2>2. CASE PrepareRefund(w, o)
    <3>1. PICK p \in Plans :
            /\ plan' = [plan EXCEPT ![w] = p] /\ p.amt > 0
            /\ (p.deduct = "yes" /\ p.force = "no" /\ OrderType[o] = "balance")
                  => p.take = p.amt
      BY <2>2, Prepared
    <3>2. /\ pc' = [pc EXCEPT ![w] = "lock"] /\ ord' = [ord EXCEPT ![w] = o]
          /\ flagged' = flagged
      BY <2>2 DEF PrepareRefund
    <3>3. QED
      BY <3>1, <3>2
  <2>3. QED
    BY <1>1, <2>1, <2>2
<1>2. ASSUME NEW w \in Workers, NEW o \in Orders, QueryAndFinalizeRefund(w, o)
      PROVE  CoverInv'
  BY <1>2, Queried DEF QueryAndFinalizeRefund
<1>3. ASSUME NEW w \in Workers, RecordRequest(w) \/ LockRefund(w)
      PROVE  CoverInv'
  BY <1>3 DEF RecordRequest, LockRefund
<1>4. ASSUME NEW w \in Workers, Deduct(w)
      PROVE  CoverInv'
  <2>1. DeductedNow(w) \in Nat /\ plan[w].take \in Nat
    BY DeductedNowBound, PlanFields
  <2>2. ASSUME NEW n \in Nat, plan' = [plan EXCEPT ![w].take = n]
        PROVE  /\ plan'[w].take = n /\ plan'[w].amt = plan[w].amt
               /\ plan'[w].force = plan[w].force /\ plan'[w].deduct = plan[w].deduct
               /\ \A v \in Workers \ {w} : plan'[v] = plan[v]
    BY <2>2, PlanTake
  <2>3. CASE plan' = [plan EXCEPT ![w].take = 0] /\ ord[w] \in flagged
    BY <1>4, <2>1, <2>2, <2>3 DEF Deduct
  <2>4. CASE plan' = [plan EXCEPT ![w].take = DeductedNow(w)] /\ Covered(w)
    BY <1>4, <2>1, <2>2, <2>4 DEF Deduct, Covered
  <2>5. CASE UNCHANGED plan /\ pc'[w] = "restore"
    BY <1>4, <2>5 DEF Deduct
  <2>6. QED
    BY <1>4, <2>3, <2>4, <2>5 DEF Deduct
<1>5. ASSUME NEW w \in Workers, CallGateway(w)
      PROVE  CoverInv'
  BY <1>5 DEF CallGateway
<1>6. ASSUME NEW w \in Workers, MarkRefundOk(w) \/ MarkRefundPending(w)
      PROVE  CoverInv'
  BY <1>6 DEF MarkRefundOk, MarkRefundPending, WriteRefund, FinalStatus
<1>7. ASSUME NEW w \in Workers, RollbackRefund(w)
      PROVE  CoverInv'
  BY <1>7 DEF RollbackRefund
<1>8. ASSUME NEW w \in Workers, FlagRollback(w) \/ FailStatus(w) \/ RestoreStatus(w)
      PROVE  CoverInv'
  BY <1>8 DEF FlagRollback, FailStatus, RestoreStatus
<1>9. ASSUME NEW w \in Workers, AskGateway(w) \/ Abandon(w)
      PROVE  CoverInv'
  BY <1>9 DEF AskGateway, Abandon
<1>10. ASSUME NEW w \in Workers, FinalizeSuccess(w)
      PROVE  CoverInv'
  BY <1>10 DEF FinalizeSuccess, WriteRefund, FinalStatus
<1>11. ASSUME NEW w \in Workers, FinalizeFailed(w) \/ FinalizeFlagged(w)
      PROVE  CoverInv'
  BY <1>11 DEF FinalizeFailed, FinalizeFlagged
<1>12. ASSUME NEW o \in Orders, GatewaySettles(o) PROVE CoverInv'
  BY <1>12 DEF GatewaySettles, HeldInv
<1>13. CASE Spend \/ TopUp
  BY <1>13 DEF Spend, TopUp
<1>14. CASE UNCHANGED refundVars
  BY <1>14 DEF refundVars
<1>15. QED
  BY <1>1, <1>2, <1>3, <1>4, <1>5, <1>6, <1>7, <1>8, <1>9, <1>10, <1>11, <1>12, <1>13, <1>14
  DEF Next, Continue

\* The rows go on telling the truth about the deduction.
LEMMA RowStep ==
    ASSUME RefundInv, DeductionInv, ~LateFaults, TypeOK', [Next]_refundVars
    PROVE  RowInv'
<1> USE OrderAssumption DEF DeductionInv, RefundInv, RefundExclusive, BoundInv, RowInv,
            WorkInv, Holding, Finalizing, Recorded, TypeOK, RefundOrderStatuses,
            Refundable, Final, RefundPCs, Refunding
<1> USE DEF rowVars, logVars, moneyVars, gatewayVars, Fault, NoFault, LateFault, Go, Done,
            SetStatus, Take, GiveBack
<1>1. ASSUME NEW w \in Workers, NEW o \in Orders, RequestRefund(w, o) \/ PrepareRefund(w, o)
      PROVE  RowInv'
  BY <1>1 DEF RequestRefund, PrepareRefund
<1>2. ASSUME NEW w \in Workers, NEW o \in Orders, QueryAndFinalizeRefund(w, o)
      PROVE  RowInv'
  BY <1>2 DEF QueryAndFinalizeRefund
<1>3. ASSUME NEW w \in Workers, RecordRequest(w) \/ LockRefund(w)
      PROVE  RowInv'
  BY <1>3 DEF RecordRequest, LockRefund
<1>4. ASSUME NEW w \in Workers, Deduct(w)
      PROVE  RowInv'
  <2>1. DeductedNow(w) \in Nat /\ DeductedNow(w) <= plan[w].take /\ plan[w].take \in Nat
    BY DeductedNowBound, PlanFields
  <2>2. QED
    BY <1>4, <2>1 DEF Deduct
<1>5. ASSUME NEW w \in Workers, CallGateway(w)
      PROVE  RowInv'
  BY <1>5 DEF CallGateway
<1>6. ASSUME NEW w \in Workers, MarkRefundOk(w) \/ MarkRefundPending(w)
      PROVE  RowInv'
  <2>1. plan[w].take \in Nat
    BY PlanFields
  <2>2. QED
    BY <1>6, <2>1 DEF MarkRefundOk, MarkRefundPending, WriteRefund, FinalStatus
<1>7. ASSUME NEW w \in Workers, RollbackRefund(w)
      PROVE  RowInv'
  <2>1. plan[w].take \in Nat
    BY PlanFields
  <2>2. status[ord[w]] = "REFUNDING" /\ ord[w] \in Orders
    BY <1>7 DEF RollbackRefund
  <2>3. UNCHANGED <<rowVars, logVars>>
    BY <1>7 DEF RollbackRefund
  <2>4. deducted' \in {deducted, [deducted EXCEPT ![ord[w]] = @ - plan[w].take]}
    BY <1>7 DEF RollbackRefund
  <2>5. /\ deducted'[ord[w]] <= deducted[ord[w]]
        /\ \A o \in Orders \ {ord[w]} : deducted'[o] = deducted[o]
    BY <2>1, <2>2, <2>4
  <2>6. QED
    BY <2>2, <2>3, <2>5
<1>8. ASSUME NEW w \in Workers, FlagRollback(w) \/ FailStatus(w) \/ RestoreStatus(w)
      PROVE  RowInv'
  BY <1>8 DEF FlagRollback, FailStatus, RestoreStatus
<1>9. ASSUME NEW w \in Workers, AskGateway(w) \/ Abandon(w)
      PROVE  RowInv'
  BY <1>9 DEF AskGateway, Abandon
<1>10. ASSUME NEW w \in Workers, FinalizeSuccess(w)
      PROVE  RowInv'
  <2>1. DeductedNow(w) \in Nat /\ DeductedNow(w) <= plan[w].take /\ plan[w].take \in Nat
        /\ plan[w].held \in YesNo
    BY DeductedNowBound, PlanFields
  <2>2. QED
    BY <1>10, <2>1 DEF FinalizeSuccess, WriteRefund, FinalStatus, YesNo
<1>11. ASSUME NEW w \in Workers, FinalizeFailed(w) \/ FinalizeFlagged(w)
      PROVE  RowInv'
  <2>1. plan[w].take \in Nat /\ plan[w].held \in YesNo
    BY PlanFields
  <2>2. QED
    BY <1>11, <2>1 DEF FinalizeFailed, FinalizeFlagged, HeldInv, YesNo
<1>12. ASSUME NEW o \in Orders, GatewaySettles(o) PROVE RowInv'
  BY <1>12 DEF GatewaySettles, HeldInv
<1>13. CASE Spend \/ TopUp
  BY <1>13 DEF Spend, TopUp
<1>14. CASE UNCHANGED refundVars
  BY <1>14 DEF refundVars
<1>15. QED
  BY <1>1, <1>2, <1>3, <1>4, <1>5, <1>6, <1>7, <1>8, <1>9, <1>10, <1>11, <1>12, <1>13, <1>14
  DEF Next, Continue

\* Requests go on knowing what is deducted.
LEMMA WorkStep ==
    ASSUME RefundInv, DeductionInv, ~LateFaults, TypeOK', [Next]_refundVars
    PROVE  WorkInv'
<1> USE OrderAssumption DEF DeductionInv, RefundInv, RefundExclusive, BoundInv, RowInv,
            WorkInv, Holding, Finalizing, Recorded, TypeOK, RefundOrderStatuses,
            Refundable, Final, RefundPCs, Refunding
<1> USE DEF rowVars, logVars, moneyVars, gatewayVars, Fault, NoFault, LateFault, Go, Done,
            SetStatus, Take, GiveBack
<1>1. ASSUME NEW w \in Workers, NEW o \in Orders, RequestRefund(w, o) \/ PrepareRefund(w, o)
      PROVE  WorkInv'
  <2>1. CASE RequestRefund(w, o)
    BY <2>1 DEF RequestRefund
  <2>2. CASE PrepareRefund(w, o)
    BY <2>2, Prepared DEF PrepareRefund
  <2>3. QED
    BY <1>1, <2>1, <2>2
<1>2. ASSUME NEW w \in Workers, NEW o \in Orders, QueryAndFinalizeRefund(w, o)
      PROVE  WorkInv'
  BY <1>2, Queried DEF QueryAndFinalizeRefund
<1>3. ASSUME NEW w \in Workers, RecordRequest(w) \/ LockRefund(w)
      PROVE  WorkInv'
  <2>1. plan[w].take \in Nat
    BY PlanFields
  <2>2. QED
    BY <1>3, <2>1, NoPlanType DEF RecordRequest, LockRefund
<1>4. ASSUME NEW w \in Workers, Deduct(w)
      PROVE  WorkInv'
  <2>1. DeductedNow(w) \in Nat /\ DeductedNow(w) <= plan[w].take /\ plan[w].take \in Nat
    BY DeductedNowBound, PlanFields
  <2>2. ASSUME NEW n \in Nat, plan' = [plan EXCEPT ![w].take = n]
        PROVE  /\ plan'[w].take = n
               /\ \A v \in Workers \ {w} : plan'[v] = plan[v]
    BY <2>2, PlanTake
  <2>3. CASE plan' = [plan EXCEPT ![w].take = 0] /\ UNCHANGED moneyVars /\ ord[w] \in flagged
    BY <1>4, <2>1, <2>2, <2>3 DEF Deduct
  <2>4. CASE /\ plan' = [plan EXCEPT ![w].take = DeductedNow(w)]
             /\ Take(ord[w], DeductedNow(w)) /\ ord[w] \notin flagged
    BY <1>4, <2>1, <2>2, <2>4 DEF Deduct
  <2>5. CASE UNCHANGED <<plan, moneyVars>> /\ pc'[w] = "restore"
    BY <1>4, <2>5 DEF Deduct
  <2>6. QED
    BY <1>4, <2>3, <2>4, <2>5 DEF Deduct
<1>5. ASSUME NEW w \in Workers, CallGateway(w)
      PROVE  WorkInv'
  BY <1>5 DEF CallGateway
<1>6. ASSUME NEW w \in Workers, MarkRefundOk(w) \/ MarkRefundPending(w)
      PROVE  WorkInv'
  BY <1>6 DEF MarkRefundOk, MarkRefundPending, WriteRefund
<1>7. ASSUME NEW w \in Workers, RollbackRefund(w)
      PROVE  WorkInv'
  <2>1. plan[w].take \in Nat
    BY PlanFields
  <2>2. QED
    BY <1>7, <2>1 DEF RollbackRefund
<1>8. ASSUME NEW w \in Workers, FlagRollback(w) \/ FailStatus(w) \/ RestoreStatus(w)
      PROVE  WorkInv'
  BY <1>8 DEF FlagRollback, FailStatus, RestoreStatus
<1>9. ASSUME NEW w \in Workers, AskGateway(w) \/ Abandon(w)
      PROVE  WorkInv'
  BY <1>9 DEF AskGateway, Abandon
<1>10. ASSUME NEW w \in Workers, FinalizeSuccess(w)
      PROVE  WorkInv'
  BY <1>10 DEF FinalizeSuccess, WriteRefund
<1>11. ASSUME NEW w \in Workers, FinalizeFailed(w) \/ FinalizeFlagged(w)
      PROVE  WorkInv'
  BY <1>11 DEF FinalizeFailed, FinalizeFlagged
<1>12. ASSUME NEW o \in Orders, GatewaySettles(o) PROVE WorkInv'
  BY <1>12 DEF GatewaySettles, HeldInv
<1>13. CASE Spend \/ TopUp
  BY <1>13 DEF Spend, TopUp
<1>14. CASE UNCHANGED refundVars
  BY <1>14 DEF refundVars
<1>15. QED
  BY <1>1, <1>2, <1>3, <1>4, <1>5, <1>6, <1>7, <1>8, <1>9, <1>10, <1>11, <1>12, <1>13, <1>14
  DEF Next, Continue

\* The rows and the requests stay in agreement with the gateway.
LEMMA GatewayStep ==
    ASSUME RefundInv, GatewayInv, ~LateFaults, TypeOK', [Next]_refundVars
    PROVE  GatewayInv'
<1> USE OrderAssumption DEF RefundInv, RefundExclusive, GatewayInv, TypeOK,
            RefundOrderStatuses, Refundable, Final, RefundPCs, Refunding
<1> USE DEF rowVars, logVars, moneyVars, gatewayVars, Fault, NoFault, LateFault, Go, Done,
            SetStatus, Take, GiveBack
<1>1. ASSUME NEW w \in Workers, NEW o \in Orders, RequestRefund(w, o) \/ PrepareRefund(w, o)
      PROVE  GatewayInv'
  BY <1>1 DEF RequestRefund, PrepareRefund
<1>2. ASSUME NEW w \in Workers, NEW o \in Orders, QueryAndFinalizeRefund(w, o)
      PROVE  GatewayInv'
  BY <1>2 DEF QueryAndFinalizeRefund
<1>3. ASSUME NEW w \in Workers, RecordRequest(w) \/ LockRefund(w)
      PROVE  GatewayInv'
  BY <1>3 DEF RecordRequest, LockRefund
<1>4. ASSUME NEW w \in Workers, Deduct(w)
      PROVE  GatewayInv'
  BY <1>4 DEF Deduct
<1>5. ASSUME NEW w \in Workers, CallGateway(w)
      PROVE  GatewayInv'
  BY <1>5 DEF CallGateway
<1>6. ASSUME NEW w \in Workers, MarkRefundOk(w) \/ MarkRefundPending(w)
      PROVE  GatewayInv'
  BY <1>6 DEF MarkRefundOk, MarkRefundPending, WriteRefund, FinalStatus
<1>7. ASSUME NEW w \in Workers, RollbackRefund(w)
      PROVE  GatewayInv'
  BY <1>7 DEF RollbackRefund
<1>8. ASSUME NEW w \in Workers, FlagRollback(w) \/ FailStatus(w) \/ RestoreStatus(w)
      PROVE  GatewayInv'
  BY <1>8 DEF FlagRollback, FailStatus, RestoreStatus
<1>9. ASSUME NEW w \in Workers, AskGateway(w) \/ Abandon(w)
      PROVE  GatewayInv'
  BY <1>9 DEF AskGateway, Abandon
<1>10. ASSUME NEW w \in Workers, FinalizeSuccess(w)
      PROVE  GatewayInv'
  BY <1>10 DEF FinalizeSuccess, WriteRefund, FinalStatus
<1>11. ASSUME NEW w \in Workers, FinalizeFailed(w) \/ FinalizeFlagged(w)
      PROVE  GatewayInv'
  BY <1>11 DEF FinalizeFailed, FinalizeFlagged
<1>12. ASSUME NEW o \in Orders, GatewaySettles(o) PROVE GatewayInv'
  BY <1>12 DEF GatewaySettles, HeldInv
<1>13. CASE Spend \/ TopUp
  BY <1>13 DEF Spend, TopUp
<1>14. CASE UNCHANGED refundVars
  BY <1>14 DEF refundVars
<1>15. QED
  BY <1>1, <1>2, <1>3, <1>4, <1>5, <1>6, <1>7, <1>8, <1>9, <1>10, <1>11, <1>12, <1>13, <1>14
  DEF Next, Continue

\* Whatever fails, the way out of REFUND_PENDING is logged or for good.
LEMMA QueryStep ==
    ASSUME RefundInv, QueryInv, TypeOK', [Next]_refundVars
    PROVE  QueryInv'
<1> USE DEF RefundInv, RefundExclusive, QueryInv, TypeOK,
            RefundOrderStatuses, Refundable, Final, RefundPCs, Refunding
<1> USE DEF rowVars, logVars, moneyVars, gatewayVars, Fault, NoFault, LateFault, Go, Done,
            SetStatus, Take, GiveBack
<1>1. ASSUME NEW w \in Workers, NEW o \in Orders, RequestRefund(w, o) \/ PrepareRefund(w, o)
      PROVE  QueryInv'
  BY <1>1 DEF RequestRefund, PrepareRefund
<1>2. ASSUME NEW w \in Workers, NEW o \in Orders, QueryAndFinalizeRefund(w, o)
      PROVE  QueryInv'
  BY <1>2 DEF QueryAndFinalizeRefund
<1>3. ASSUME NEW w \in Workers, RecordRequest(w) \/ LockRefund(w)
      PROVE  QueryInv'
  BY <1>3 DEF RecordRequest, LockRefund
<1>4. ASSUME NEW w \in Workers, Deduct(w)
      PROVE  QueryInv'
  BY <1>4 DEF Deduct
<1>5. ASSUME NEW w \in Workers, CallGateway(w)
      PROVE  QueryInv'
  BY <1>5 DEF CallGateway
<1>6. ASSUME NEW w \in Workers, MarkRefundOk(w) \/ MarkRefundPending(w)
      PROVE  QueryInv'
  BY <1>6 DEF MarkRefundOk, MarkRefundPending, WriteRefund, FinalStatus
<1>7. ASSUME NEW w \in Workers, RollbackRefund(w)
      PROVE  QueryInv'
  BY <1>7 DEF RollbackRefund
<1>8. ASSUME NEW w \in Workers, FlagRollback(w) \/ FailStatus(w) \/ RestoreStatus(w)
      PROVE  QueryInv'
  BY <1>8 DEF FlagRollback, FailStatus, RestoreStatus
<1>9. ASSUME NEW w \in Workers, AskGateway(w) \/ Abandon(w)
      PROVE  QueryInv'
  BY <1>9 DEF AskGateway, Abandon
<1>10. ASSUME NEW w \in Workers, FinalizeSuccess(w)
      PROVE  QueryInv'
  BY <1>10 DEF FinalizeSuccess, WriteRefund, FinalStatus
<1>11. ASSUME NEW w \in Workers, FinalizeFailed(w) \/ FinalizeFlagged(w)
      PROVE  QueryInv'
  BY <1>11 DEF FinalizeFailed, FinalizeFlagged
<1>12. ASSUME NEW o \in Orders, GatewaySettles(o)
      PROVE  QueryInv'
  BY <1>12 DEF GatewaySettles
<1>13. CASE Spend \/ TopUp
  BY <1>13 DEF Spend, TopUp
<1>14. CASE UNCHANGED refundVars
  BY <1>14 DEF refundVars
<1>15. QED
  BY <1>1, <1>2, <1>3, <1>4, <1>5, <1>6, <1>7, <1>8, <1>9, <1>10, <1>11, <1>12, <1>13, <1>14
  DEF Next, Continue

\* Failures are counted, never forgotten.
LEMMA FailuresGrow ==
    ASSUME TypeOK, TypeOK', Failures \in Nat, [Next]_refundVars
    PROVE  Failures' \in Nat /\ Failures' >= Failures
<1> DEFINE Counted == faults' = faults \/ faults' = faults - 1
<1> USE DEF Fault, NoFault, LateFault, rowVars, logVars, moneyVars, gatewayVars
<1>1. ASSUME NEW w \in Workers, NEW o \in Orders,
             RequestRefund(w, o) \/ PrepareRefund(w, o) \/ QueryAndFinalizeRefund(w, o)
      PROVE  Counted
  BY <1>1 DEF RequestRefund, PrepareRefund, QueryAndFinalizeRefund
<1>2. ASSUME NEW w \in Workers,
             RecordRequest(w) \/ LockRefund(w) \/ Deduct(w) \/ CallGateway(w) \/ MarkRefundOk(w)
      PROVE  Counted
  BY <1>2 DEF RecordRequest, LockRefund, Deduct, CallGateway, MarkRefundOk
<1>3. ASSUME NEW w \in Workers,
             \/ MarkRefundPending(w) \/ RollbackRefund(w) \/ FlagRollback(w) \/ FailStatus(w)
             \/ RestoreStatus(w)
      PROVE  Counted
  BY <1>3 DEF MarkRefundPending, RollbackRefund, FlagRollback, FailStatus, RestoreStatus
<1>4. ASSUME NEW w \in Workers,
             \/ AskGateway(w) \/ FinalizeSuccess(w) \/ FinalizeFailed(w) \/ FinalizeFlagged(w)
             \/ Abandon(w)
      PROVE  Counted
  BY <1>4 DEF AskGateway, FinalizeSuccess, FinalizeFailed, FinalizeFlagged, Abandon
<1>5. ASSUME (\E o \in Orders : GatewaySettles(o)) \/ Spend \/ TopUp \/ UNCHANGED refundVars
      PROVE  Counted
  BY <1>5 DEF GatewaySettles, Spend, TopUp, refundVars
<1>6. Counted
  BY <1>1, <1>2, <1>3, <1>4, <1>5 DEF Next, Continue
<1>7. PICK f \in Nat, g \in Nat : f = faults /\ g = faults'
  BY DEF TypeOK
<1>8. (g = f \/ g = f - 1) /\ MaxFaults \in Nat /\ MaxFaults - f \in Nat
  BY <1>6, <1>7, RefundBoundAssumption DEF Failures
<1>9. MaxFaults - g \in Nat /\ MaxFaults - g >= MaxFaults - f
  BY ONLY <1>8, f \in Nat, g \in Nat
<1>10. QED
  BY <1>7, <1>9 DEF Failures

\* A failure is counted.
LEMMA FaultCounted ==
    ASSUME TypeOK, TypeOK', Fault
    PROVE  Failures' = Failures + 1
<1>1. PICK f \in Nat, g \in Nat : f = faults /\ g = faults'
  BY DEF TypeOK
<1>2. g = f - 1 /\ MaxFaults \in Nat
  BY <1>1, RefundBoundAssumption DEF Fault
<1>3. MaxFaults - g = (MaxFaults - f) + 1
  BY ONLY <1>2, f \in Nat, g \in Nat
<1>4. QED
  BY <1>1, <1>3 DEF Failures

\* A step after which an order is refundable, or a request at work on it, only if the
\* failures so far account for its payouts, and which does not change these.
PaidAsBefore ==
    /\ \A o \in Orders : status'[o] \in Refundable => accepted[o] <= Failures
    /\ \A w \in Workers : pc'[w] \in Refunding \ {"markOk", "markPending"} =>
            accepted[ord'[w]] <= Failures
    /\ UNCHANGED <<gw, accepted>>

\* Requests take such steps, except when they call the gateway.
LEMMA PaidAsBeforeStep ==
    ASSUME RefundInv, QueryInv, PayoutInv, TypeOK', NEW v \in Workers, NEW x \in Orders,
           \/ RequestRefund(v, x) \/ PrepareRefund(v, x) \/ QueryAndFinalizeRefund(v, x)
           \/ Abandon(v) \/ (Continue(v) /\ ~CallGateway(v))
    PROVE  PaidAsBefore
<1> DEFINE Few == {o \in Orders : accepted[o] <= Failures}
<1>a. /\ \A o \in Orders : status[o] \in Refundable \/ gw[o] \in {"none", "failed"} => o \in Few
      /\ \A w \in Workers : pc[w] \in Refunding \ {"markOk", "markPending"} => ord[w] \in Few
  BY DEF PayoutInv, RefundInv, TypeOK
<1> DEFINE Kept == /\ \A o \in Orders : status'[o] \in Refundable => o \in Few
                   /\ \A w \in Workers :
                        pc'[w] \in Refunding \ {"markOk", "markPending"} => ord'[w] \in Few
                   /\ UNCHANGED <<gw, accepted>>
<1>b. SUFFICES Kept
  BY DEF PaidAsBefore
<1> HIDE DEF Few
<1> USE <1>a DEF RefundInv, RefundExclusive, QueryInv, TypeOK,
                 RefundOrderStatuses, Refundable, Final, RefundPCs, Refunding
<1> USE DEF rowVars, logVars, moneyVars, gatewayVars, Fault, NoFault, LateFault, Go, Done,
            SetStatus, Take, GiveBack
<1>1. CASE RequestRefund(v, x) \/ PrepareRefund(v, x)
  BY <1>1 DEF RequestRefund, PrepareRefund
<1>2. CASE QueryAndFinalizeRefund(v, x)
  BY <1>2 DEF QueryAndFinalizeRefund
<1>3. CASE RecordRequest(v) \/ LockRefund(v)
  BY <1>3 DEF RecordRequest, LockRefund
<1>4. CASE Deduct(v)
  BY <1>4 DEF Deduct
<1>5. CASE MarkRefundOk(v) \/ MarkRefundPending(v)
  BY <1>5 DEF MarkRefundOk, MarkRefundPending, WriteRefund, FinalStatus
<1>6. CASE RollbackRefund(v)
  BY <1>6 DEF RollbackRefund
<1>7. CASE FlagRollback(v) \/ FailStatus(v) \/ RestoreStatus(v)
  BY <1>7 DEF FlagRollback, FailStatus, RestoreStatus
<1>8. CASE AskGateway(v) \/ Abandon(v)
  BY <1>8 DEF AskGateway, Abandon
<1>9. CASE FinalizeSuccess(v)
  BY <1>9 DEF FinalizeSuccess, WriteRefund, FinalStatus
<1>10. CASE FinalizeFailed(v) \/ FinalizeFlagged(v)
  BY <1>10 DEF FinalizeFailed, FinalizeFlagged
<1>11. QED
  BY <1>1, <1>2, <1>3, <1>4, <1>5, <1>6, <1>7, <1>8, <1>9, <1>10 DEF Continue

\* Whatever fails, a step adds a payout only where the failures account for the others.
LEMMA PayoutStep ==
    ASSUME RefundInv, QueryInv, PayoutInv, TypeOK', [Next]_refundVars
    PROVE  PayoutInv'
<1>1. /\ accepted \in [Orders -> Nat] /\ accepted' \in [Orders -> Nat]
      /\ \A w \in Workers : ord[w] \in Orders /\ ord'[w] \in Orders
  BY DEF RefundInv, TypeOK
<1>2. Failures \in Nat /\ Failures' \in Nat /\ Failures' >= Failures
  BY FailuresGrow DEF RefundInv, PayoutInv
<1>3. ASSUME PaidAsBefore PROVE PayoutInv'
  BY <1>1, <1>2, <1>3 DEF PayoutInv, PaidAsBefore
<1> USE DEF RefundInv, RefundExclusive, TypeOK, RefundOrderStatuses, Refundable, RefundPCs,
            Refunding, rowVars, logVars, moneyVars, gatewayVars
<1>4. ASSUME NEW w \in Workers, CallGateway(w)
      PROVE  PayoutInv'
  <2> DEFINE o == ord[w]  Accepts == accepted' = [accepted EXCEPT ![o] = @ + 1]
  <2>1. accepted[o] <= Failures /\ status[o] = "REFUNDING"
    BY <1>4 DEF CallGateway, PayoutInv
  <2>2. /\ status' = status /\ ord' = ord
        /\ \A x \in Orders \ {o} : gw'[x] = gw[x] /\ accepted'[x] = accepted[x]
        /\ \A v \in Workers \ {w} : pc'[v] = pc[v]
    BY <1>4 DEF CallGateway, Go
  <2>3. \/ /\ Accepts /\ gw'[o] \in {"success", "pending"}
           /\ pc'[w] \in {"markOk", "markPending"}
        \/ accepted' = accepted
        \/ Accepts /\ Failures' = Failures + 1
    BY <1>4, FaultCounted DEF CallGateway, Go, LateFault
  <2>4. accepted'[o] <= 1 + Failures'
    BY <1>1, <1>2, <2>1, <2>3
  <2>5. \/ accepted'[o] <= Failures'
        \/ gw'[o] \in {"success", "pending"} /\ pc'[w] \in {"markOk", "markPending"}
    BY <1>1, <1>2, <2>1, <2>3
  <2>6. \A x \in Orders \ {o} :
            (accepted[x] <= 1 + Failures => accepted'[x] <= 1 + Failures')
                /\ (accepted[x] <= Failures => accepted'[x] <= Failures')
    BY <1>1, <1>2, <2>2
  <2>7. \A v \in Workers \ {w} : pc[v] \in Refunding => ord[v] # o
    BY <1>4 DEF CallGateway
  <2> HIDE DEF o
  <2>8. \A x \in Orders : /\ accepted'[x] <= 1 + Failures'
                          /\ status'[x] \in Refundable => accepted'[x] <= Failures'
                          /\ gw'[x] \in {"none", "failed"} => accepted'[x] <= Failures'
    BY ONLY PayoutInv, <2>1, <2>2, <2>4, <2>5, <2>6 DEF PayoutInv, Refundable
  <2>9. \A v \in Workers : pc'[v] \in Refunding \ {"markOk", "markPending"} =>
                              accepted'[ord'[v]] <= Failures'
    <3> SUFFICES ASSUME NEW v \in Workers, pc'[v] \in Refunding \ {"markOk", "markPending"}
                 PROVE  accepted'[ord[v]] <= Failures'
      BY <2>2
    <3>1. CASE v = w
      BY <2>5, <3>1 DEF o
    <3>2. CASE v # w
      <4>1. pc[v] \in Refunding \ {"markOk", "markPending"} /\ ord[v] \in Orders \ {o}
        BY <1>1, <2>2, <2>7, <3>2
      <4>2. accepted[ord[v]] <= Failures
        BY <4>1 DEF PayoutInv
      <4>3. QED
        BY <2>6, <4>1, <4>2
    <3>3. QED
      BY <3>1, <3>2
  <2>10. QED
    BY <1>2, <2>8, <2>9 DEF PayoutInv
<1>5. ASSUME NEW o \in Orders, GatewaySettles(o)
      PROVE  PayoutInv'
  <2>1. /\ gw[o] = "pending" /\ gw'[o] \in {"success", "failed"}
        /\ \/ gw'[o] # "failed" /\ accepted' = accepted
           \/ accepted' = [accepted EXCEPT ![o] = @ - 1]
        /\ \A x \in Orders \ {o} : gw'[x] = gw[x]
        /\ status' = status /\ ord' = ord /\ pc' = pc
    BY <1>5 DEF GatewaySettles
  <2>2. accepted[o] <= 1 + Failures /\ accepted[o] >= 1
    BY <2>1 DEF PayoutInv, HeldInv
  <2>3. /\ \A x \in Orders : accepted'[x] <= accepted[x]
        /\ gw'[o] = "failed" => accepted'[o] <= Failures
    BY <1>1, <1>2, <2>1, <2>2
  <2>4. \A x \in Orders : gw'[x] \in {"none", "failed"} => accepted'[x] <= Failures
    BY <1>1, <1>2, <2>1, <2>3 DEF PayoutInv
  <2>5. QED
    BY <1>1, <1>2, <2>1, <2>3, <2>4 DEF PayoutInv
<1>6. CASE Spend \/ TopUp \/ UNCHANGED refundVars
  BY <1>3, <1>6 DEF PaidAsBefore, PayoutInv, Spend, TopUp, refundVars
<1>7. ASSUME NEW w \in Workers, NEW o \in Orders,
             RequestRefund(w, o) \/ PrepareRefund(w, o) \/ QueryAndFinalizeRefund(w, o)
      PROVE  PayoutInv'
  BY <1>3, <1>7, PaidAsBeforeStep
<1>8. ASSUME NEW w \in Workers, Continue(w) \/ Abandon(w)
      PROVE  PayoutInv'
  BY <1>1, <1>3, <1>4, <1>8, PaidAsBeforeStep
<1>9. QED
  BY <1>5, <1>6, <1>7, <1>8 DEF Next

\* Without a failure, a request leaves REFUNDING for another status unless its order has
\* a REFUND_PENDING row already.
LEMMA OrphanStep ==
    ASSUME RefundInv, PayoutInv, OrphanedByFailure, RefundInv', PayoutInv', [Next]_refundVars
    PROVE  OrphanedByFailure'
<1>a. SUFFICES ASSUME NEW o \in Orders, status'[o] = "REFUNDING", detail'[o] = "none",
                      ~(faults' < MaxFaults)
               PROVE  Working(o)'
  BY DEF OrphanedByFailure
<1>b. ~(faults < MaxFaults) /\ ~Fault
  <2>1. PICK f \in Nat, g \in Nat : f = faults /\ g = faults'
    BY DEF RefundInv, TypeOK
  <2>2. /\ MaxFaults \in Nat /\ ~(g < MaxFaults)
        /\ MaxFaults - f \in Nat /\ MaxFaults - g >= MaxFaults - f
    BY <1>a, <2>1, RefundBoundAssumption, FailuresGrow DEF RefundInv, PayoutInv, Failures
  <2>3. ~(f < MaxFaults) /\ g # f - 1
    BY ONLY <2>2, f \in Nat, g \in Nat
  <2>4. QED
    BY <2>1, <2>3 DEF Fault
<1> DEFINE Before == status[o] = "REFUNDING" /\ detail[o] = "none"
           Kept == \/ Before /\ \A v \in Workers : pc[v] \in Refunding /\ ord[v] = o =>
                                    pc'[v] \in Refunding /\ ord'[v] = o
                   \/ \E v \in Workers : pc'[v] \in Refunding /\ ord'[v] = o
<1> USE <1>a, <1>b DEF RefundInv, RefundExclusive, TypeOK, Refundable, Final, Refunding,
                 rowVars, logVars, moneyVars, gatewayVars, LateFault, Go, Done, SetStatus
<1>1. ASSUME NEW w \in Workers, NEW x \in Orders, RequestRefund(w, x) \/ PrepareRefund(w, x) \/ QueryAndFinalizeRefund(w, x)
      PROVE  Kept
  BY <1>1 DEF RequestRefund, PrepareRefund, QueryAndFinalizeRefund
<1>2. ASSUME NEW w \in Workers, RecordRequest(w) \/ LockRefund(w)
      PROVE  Kept
  BY <1>2 DEF RecordRequest, LockRefund
<1>3. ASSUME NEW w \in Workers, Deduct(w) \/ CallGateway(w)
      PROVE  Kept
  BY <1>3 DEF Deduct, CallGateway
<1>4. ASSUME NEW w \in Workers, MarkRefundOk(w) \/ MarkRefundPending(w)
      PROVE  Kept
  BY <1>4 DEF MarkRefundOk, MarkRefundPending, WriteRefund, FinalStatus
<1>5. ASSUME NEW w \in Workers, RollbackRefund(w) \/ FlagRollback(w)
      PROVE  Kept
  BY <1>5 DEF RollbackRefund, FlagRollback
<1>6. ASSUME NEW w \in Workers, FailStatus(w) \/ RestoreStatus(w)
      PROVE  Kept
  BY <1>6 DEF FailStatus, RestoreStatus
<1>7. ASSUME NEW w \in Workers, AskGateway(w) \/ Abandon(w)
      PROVE  Kept
  BY <1>7 DEF AskGateway, Abandon
<1>8. ASSUME NEW w \in Workers, FinalizeSuccess(w)
      PROVE  Kept
  BY <1>8 DEF FinalizeSuccess, WriteRefund, FinalStatus
<1>9. ASSUME NEW w \in Workers, FinalizeFailed(w) \/ FinalizeFlagged(w)
      PROVE  Kept
  BY <1>9 DEF FinalizeFailed, FinalizeFlagged
<1>10. ASSUME NEW x \in Orders, GatewaySettles(x)
      PROVE  Kept
  BY <1>10 DEF GatewaySettles
<1>11. ASSUME Spend \/ TopUp \/ UNCHANGED refundVars
      PROVE  Kept
  BY <1>11 DEF Spend, TopUp, refundVars
<1>12. Kept
  BY <1>1, <1>2, <1>3, <1>4, <1>5, <1>6, <1>7, <1>8, <1>9, <1>10, <1>11 DEF Next, Continue
<1>13. Before => \E v \in Workers : pc[v] \in Refunding /\ ord[v] = o
  BY DEF OrphanedByFailure, Working
<1>14. \E v \in Workers : pc'[v] \in Refunding /\ ord'[v] = o
  BY <1>12, <1>13
<1>15. QED
  BY <1>14 DEF Working

-----------------------------------------------------------------------------
(* The theorems.                                                            *)

\* Types, exclusiveness and covered claims hold together in every reachable state,
\* whatever fails.
LEMMA RefundInductive == Spec => []RefundInv
<1>1. Init => RefundInv
  <2> SUFFICES ASSUME Init PROVE RefundInv
    OBVIOUS
  <2>0. PICK from \in [Orders -> Origins], kept \in SUBSET Orders :
            /\ \A o \in Orders : from[o] \in Origin[o]
            /\ \A o \in kept : from[o] = "pending"
            /\ InitFrom(from, kept)
    BY DEF Init
  <2>1. TypeOK
    BY <2>0, OrderAssumption, RefundBoundAssumption, NoPlanType
    DEF InitFrom, TypeOK, RefundOrderStatuses, Refundable, RefundPCs
  <2>2. RefundExclusive /\ HeldInv
    BY <2>0, OrderAssumption
    DEF InitFrom, RefundExclusive, HeldInv, Refunding, Holding, Finalizing
  <2>3. QED
    BY <2>1, <2>2 DEF RefundInv
<1>2. RefundInv /\ [Next]_refundVars => RefundInv'
  BY TypeStep, ExclusiveStep, HeldStep DEF RefundInv
<1>3. QED
  BY <1>1, <1>2, PTL DEF Spec

\* Statuses and program points stay within the ones the code knows, and no amount
\* becomes negative: no compensation gives back more than was taken.
THEOREM RefundTypeCorrect == Spec => []TypeOK
BY RefundInductive, PTL DEF RefundInv

\* From the update to REFUNDING in ExecuteRefund on, one request works on an order.
THEOREM RefundIsExclusive == Spec => []RefundExclusive
BY RefundInductive, PTL DEF RefundInv

\* No late write of ExecuteRefund or QueryAndFinalizeRefund changes a refunded order.
THEOREM RefundedForGood == Spec => FinalIsFinal
<1>1. RefundInv /\ [Next]_refundVars =>
        [\A o \in Orders : status[o] \in Final =>
            status'[o] = status[o] /\ deducted'[o] = deducted[o]
                /\ refundAmt'[o] = refundAmt[o]]_refundVars
  <2> SUFFICES ASSUME RefundInv, Next
               PROVE  \A o \in Orders : status[o] \in Final =>
                        status'[o] = status[o] /\ deducted'[o] = deducted[o]
                            /\ refundAmt'[o] = refundAmt[o]
    OBVIOUS
  <2> USE DEF RefundInv, TypeOK, RefundExclusive, Refunding, Refundable, Final,
              rowVars, moneyVars, Fault, NoFault, LateFault, Go, Done,
              SetStatus, Take, GiveBack
  <2> DEFINE Kept == \A o \in Orders : status[o] \in Final =>
                        status'[o] = status[o] /\ deducted'[o] = deducted[o]
                            /\ refundAmt'[o] = refundAmt[o]
  <2>1. ASSUME NEW w \in Workers, NEW o \in Orders,
               RequestRefund(w, o) \/ PrepareRefund(w, o) \/ QueryAndFinalizeRefund(w, o)
        PROVE  Kept
    BY <2>1 DEF RequestRefund, PrepareRefund, QueryAndFinalizeRefund
  <2>2. ASSUME NEW w \in Workers, RecordRequest(w) \/ LockRefund(w) \/ Deduct(w)
        PROVE  Kept
    BY <2>2 DEF RecordRequest, LockRefund, Deduct
  <2>3. ASSUME NEW w \in Workers,
               CallGateway(w) \/ MarkRefundOk(w) \/ MarkRefundPending(w)
        PROVE  Kept
    BY <2>3 DEF CallGateway, MarkRefundOk, MarkRefundPending, WriteRefund
  <2>4. ASSUME NEW w \in Workers,
               RollbackRefund(w) \/ FlagRollback(w) \/ FailStatus(w) \/ RestoreStatus(w)
        PROVE  Kept
    BY <2>4 DEF RollbackRefund, FlagRollback, FailStatus, RestoreStatus
  <2>5. ASSUME NEW w \in Workers,
               AskGateway(w) \/ FinalizeSuccess(w) \/ FinalizeFailed(w)
                   \/ FinalizeFlagged(w) \/ Abandon(w)
        PROVE  Kept
    BY <2>5 DEF AskGateway, FinalizeSuccess, FinalizeFailed, FinalizeFlagged, Abandon,
                WriteRefund
  <2>6. ASSUME (\E o \in Orders : GatewaySettles(o)) \/ Spend \/ TopUp PROVE Kept
    BY <2>6 DEF GatewaySettles, Spend, TopUp
  <2>7. QED
    BY <2>1, <2>2, <2>3, <2>4, <2>5, <2>6 DEF Next, Continue
<1>2. QED
  BY <1>1, RefundInductive, PTL DEF Spec, FinalIsFinal

\* Without force the gateway is not called before the whole amount is deducted, even if
\* other requests spend the balance between PrepareRefund and ExecuteRefund.
THEOREM DeductedFirst == Spec => []FullDeductionFirst
<1>1. Init => CoverInv
  BY DEF Init, InitFrom, CoverInv
<1>2. RefundInv /\ RefundInv' /\ CoverInv /\ [Next]_refundVars => CoverInv'
  BY CoverStep DEF RefundInv
<1>3. RefundInv /\ CoverInv => FullDeductionFirst
  BY DEF RefundInv, HeldInv, Holding, CoverInv, MustCover, FullDeductionFirst
<1>4. QED
  BY <1>1, <1>2, <1>3, RefundInductive, PTL DEF Spec

\* Whatever fails, failures account for the payouts beyond the first.
LEMMA PayoutInductive == Spec => [](RefundInv /\ QueryInv /\ PayoutInv)
<1>1. Init => QueryInv /\ PayoutInv
  BY OrderAssumption, RefundBoundAssumption
  DEF Init, InitFrom, QueryInv, PayoutInv, Failures, Refundable, Refunding
<1>2. /\ RefundInv /\ RefundInv' /\ QueryInv /\ PayoutInv /\ [Next]_refundVars
      => QueryInv' /\ PayoutInv'
  BY QueryStep, PayoutStep DEF RefundInv
<1>3. QED
  BY <1>1, <1>2, RefundInductive, PTL DEF Spec

\* The gateway pays an order at most once more than there were failures, lost replies
\* of CallGateway and lost audit rows included.
THEOREM PayoutsCounted == Spec => []PayoutPerFailure
<1>1. PayoutInv => PayoutPerFailure
  BY DEF PayoutInv, PayoutPerFailure, Failures
<1>2. QED
  BY <1>1, PayoutInductive, PTL

\* Every path of ExecuteRefund leads out of REFUNDING, except after a failure or when
\* markRefundPending meets the row of an earlier refund.
THEOREM OrphansExplained == Spec => []OrphanedByFailure
<1>1. Init => OrphanedByFailure
  BY DEF Init, InitFrom, OrphanedByFailure
<1>2. /\ RefundInv /\ PayoutInv /\ OrphanedByFailure /\ RefundInv' /\ PayoutInv'
      /\ [Next]_refundVars
      => OrphanedByFailure'
  BY OrphanStep
<1>3. QED
  BY <1>1, <1>2, PayoutInductive, PTL DEF Spec

\* While failures are noticed, rows and plans agree about the deduction.
LEMMA DeductionInductive ==
    ASSUME ~LateFaults
    PROVE  Spec => [](RefundInv /\ DeductionInv)
<1>1. Init => DeductionInv
  <2> SUFFICES ASSUME Init PROVE DeductionInv
    OBVIOUS
  <2>0. PICK from \in [Orders -> Origins], kept \in SUBSET Orders :
            /\ \A o \in Orders : from[o] \in Origin[o]
            /\ \A o \in kept : from[o] = "pending"
            /\ InitFrom(from, kept)
    BY DEF Init
  <2> USE <2>0, OrderAssumption, NoPlanType DEF InitFrom
  <2>1. BoundInv
    BY DEF BoundInv
  <2>2. RowInv
    <3> SUFFICES ASSUME NEW o \in Recorded PROVE RowInv!(o)
      BY DEF RowInv
    <3>1. from[o] \in {"completed", "pending"}
      BY DEF Recorded, Origins
    <3>2. CASE from[o] = "completed"
      BY <3>2 DEF Recorded, Refundable
    <3>3. CASE from[o] = "pending"
      BY <3>3 DEF Recorded, Refundable
    <3>4. QED
      BY <3>1, <3>2, <3>3
  <2>3. WorkInv
    BY DEF WorkInv, Holding, Finalizing
  <2>4. QED
    BY <2>1, <2>2, <2>3 DEF DeductionInv
<1>2. RefundInv /\ RefundInv' /\ DeductionInv /\ [Next]_refundVars => DeductionInv'
  <2> SUFFICES ASSUME RefundInv, RefundInv', DeductionInv, [Next]_refundVars
               PROVE  DeductionInv'
    OBVIOUS
  <2>1. BoundInv'
    BY BoundStep DEF RefundInv, DeductionInv
  <2>2. RowInv' /\ WorkInv'
    BY RowStep, WorkStep DEF RefundInv
  <2>3. QED
    BY <2>1, <2>2 DEF DeductionInv
<1>3. QED
  BY <1>1, <1>2, RefundInductive, PTL DEF Spec

\* Provided that failures are noticed and come before the effect, no sequence of
\* refunds, compensations, retries and settlements charges the user more than the
\* order's amount.
THEOREM ChargedOnce ==
    ASSUME ~LateFaults
    PROVE  Spec => []DeductedOnce
<1>1. DeductionInv => DeductedOnce
  BY DEF DeductionInv, RowInv, DeductedOnce
<1>2. QED
  BY <1>1, DeductionInductive, PTL

\* Under the same proviso, the audit rows tell the next request what is deducted.
THEOREM DeductionKnown ==
    ASSUME ~LateFaults
    PROVE  Spec => []DeductionIsKnown
<1>1. DeductionInv => DeductionIsKnown
  BY DEF DeductionInv, RowInv, DeductionIsKnown
<1>2. QED
  BY <1>1, DeductionInductive, PTL

\* Under the same proviso, rows and requests agree with the gateway.
LEMMA GatewayInductive ==
    ASSUME ~LateFaults
    PROVE  Spec => [](RefundInv /\ GatewayInv)
<1>1. Init => GatewayInv
  BY OrderAssumption DEF Init, InitFrom, GatewayInv, Refundable, Final, Refunding
<1>2. RefundInv /\ RefundInv' /\ GatewayInv /\ [Next]_refundVars => GatewayInv'
  BY GatewayStep DEF RefundInv
<1>3. QED
  BY <1>1, <1>2, RefundInductive, PTL DEF Spec

\* Under the same proviso, an order is refundable only when the gateway has nothing to
\* pay out, refunded only when it paid, and asked to pay once.
THEOREM GatewayAgreement ==
    ASSUME ~LateFaults
    PROVE  Spec => []GatewayAgrees
<1>1. GatewayInv => GatewayAgrees
  <2> SUFFICES ASSUME GatewayInv, NEW o \in Orders
               PROVE  /\ accepted[o] <= 1
                      /\ status[o] \in Refundable => accepted[o] = 0
                      /\ status[o] \in Final => gw[o] = "success" /\ accepted[o] = 1
    BY DEF GatewayAgrees
  <2>1. accepted[o] = 0 \/ accepted[o] = 1
    BY DEF GatewayInv
  <2>2. QED
    BY <2>1 DEF GatewayInv
<1>2. QED
  BY <1>1, GatewayInductive, PTL

-----------------------------------------------------------------------------
(* Refinement: what is seen of an order changes as RefundPromise allows.    *)

theView == [o \in Recorded |-> View(status[o])]
thePayout == [o \in Recorded |-> gw[o]]
theCharge == [o \in Recorded |-> deducted[o]]
seen == <<theView, thePayout, theCharge>>

NothingPaid == {"none", "failed"}

\* Only the order o changes, if any.
OthersKept(o) ==
    \A x \in Orders \ {o} :
        status'[x] = status[x] /\ gw'[x] = gw[x] /\ deducted'[x] = deducted[x]

\* The moves of RefundPromise, for one order.
Shown(o, from, to) == View(status[o]) \in from /\ View(status'[o]) = to
SameMoney(o) == gw'[o] = gw[o] /\ deducted'[o] = deducted[o]

OrderMove(o) ==
    \/ View(status'[o]) = View(status[o]) /\ SameMoney(o)
    \/ Shown(o, {"open"}, "working") /\ SameMoney(o)
    \/ /\ Shown(o, {"working"}, "working") /\ gw[o] \in NothingPaid
       /\ gw'[o] = gw[o] /\ deducted'[o] <= Amount[o]
    \/ /\ Shown(o, {"working"}, "working") /\ gw[o] \in NothingPaid
       /\ gw'[o] # "none" /\ deducted'[o] = deducted[o]
    \/ /\ View(status'[o]) = View(status[o]) /\ gw[o] = "pending"
       /\ gw'[o] \in {"success", "failed"} /\ deducted'[o] = deducted[o]
    \/ Shown(o, {"working"}, "pending") /\ gw[o] # "none" /\ SameMoney(o)
    \/ /\ Shown(o, {"working", "pending"}, "refunded") /\ gw[o] = "success"
       /\ gw'[o] = gw[o] /\ deducted'[o] >= deducted[o] /\ deducted'[o] <= Amount[o]
    \/ /\ Shown(o, {"working", "pending"}, "open") /\ gw[o] \in NothingPaid
       /\ gw'[o] = gw[o] /\ deducted'[o] <= deducted[o]

\* Such a move of one order is a step of RefundPromise, or nothing is seen of it.
LEMMA MoveIsPromised ==
    ASSUME TypeOK, TypeOK', NEW o \in Orders, OthersKept(o), o \in Recorded => OrderMove(o)
    PROVE  [Promise!Next]_seen
<1>0. Recorded \subseteq Orders
  BY DEF Recorded
<1>1. CASE o \notin Recorded
  BY <1>0, <1>1 DEF OthersKept, seen, theView, thePayout, theCharge
<1>2. CASE o \in Recorded
  <2> DEFINE v == View(status[o])  p == gw[o]  c == deducted[o]
  <2> DEFINE v2 == View(status'[o])  p2 == gw'[o]  c2 == deducted'[o]
  <2>1. /\ theView' = [theView EXCEPT ![o] = v2]
        /\ thePayout' = [thePayout EXCEPT ![o] = p2]
        /\ theCharge' = [theCharge EXCEPT ![o] = c2]
    BY <1>0, <1>2 DEF OthersKept, theView, thePayout, theCharge
  <2>2. theView[o] = v /\ thePayout[o] = p /\ theCharge[o] = c
    BY <1>2 DEF theView, thePayout, theCharge
  <2>3. /\ v2 = v => theView' = theView
        /\ p2 = p => thePayout' = thePayout
        /\ c2 = c => theCharge' = theCharge
    BY <1>0, <1>2 DEF OthersKept, theView, thePayout, theCharge
  <2>4. /\ c \in Nat /\ c2 \in Nat /\ Amount[o] \in Nat
        /\ p2 \in {"none", "pending", "success", "failed"}
    BY OrderAssumption DEF TypeOK
  <2>5. OrderMove(o)
    BY <1>2
  <2> HIDE DEF v, p, c, v2, p2, c2
  <2>6. CASE v2 = v /\ p2 = p /\ c2 = c
    BY <2>3, <2>6 DEF seen
  <2>7. CASE v = "open" /\ v2 = "working" /\ p2 = p /\ c2 = c
    <3>1. Promise!Begin(o)
      BY <2>1, <2>2, <2>3, <2>7
      DEF Promise!Begin, Promise!Move, theView, thePayout, theCharge
    <3>2. QED
      BY <1>2, <3>1 DEF Promise!Next
  <2>8. CASE v = "working" /\ v2 = v /\ p \in NothingPaid /\ p2 = p /\ c2 <= Amount[o]
    <3>1. c2 \in c..Amount[o] \/ c2 \in 0..c
      BY <2>4, <2>8
    <3>2. CASE c2 \in c..Amount[o]
      <4>1. Promise!Charge(o)
        BY <2>1, <2>2, <2>3, <2>8, <3>2
        DEF Promise!Charge, Promise!MoreCharged, Promise!NoPayout, NothingPaid,
            theView, thePayout, theCharge
      <4>2. QED
        BY <1>2, <4>1 DEF Promise!Next
    <3>3. CASE c2 \in 0..c
      <4>1. Promise!Return(o)
        BY <2>1, <2>2, <2>3, <2>8, <3>3
        DEF Promise!Return, Promise!LessCharged, Promise!NoPayout, NothingPaid,
            theView, thePayout, theCharge
      <4>2. QED
        BY <1>2, <4>1 DEF Promise!Next
    <3>4. QED
      BY <3>1, <3>2, <3>3
  <2>9. CASE v = "working" /\ v2 = v /\ p \in NothingPaid /\ p2 # "none" /\ c2 = c
    <3>1. Promise!Request(o)
      BY <2>1, <2>2, <2>3, <2>4, <2>9
      DEF Promise!Request, Promise!Pays, Promise!NoPayout, NothingPaid,
          theView, thePayout, theCharge
    <3>2. QED
      BY <1>2, <3>1 DEF Promise!Next
  <2>10. CASE v2 = v /\ p = "pending" /\ p2 \in {"success", "failed"} /\ c2 = c
    <3>1. Promise!Settle(o)
      BY <2>1, <2>2, <2>3, <2>10
      DEF Promise!Settle, Promise!Pays, theView, thePayout, theCharge
    <3>2. QED
      BY <1>2, <3>1 DEF Promise!Next
  <2>11. CASE v = "working" /\ v2 = "pending" /\ p # "none" /\ p2 = p /\ c2 = c
    <3>1. Promise!Pend(o)
      BY <2>1, <2>2, <2>3, <2>11
      DEF Promise!Pend, Promise!Move, theView, thePayout, theCharge
    <3>2. QED
      BY <1>2, <3>1 DEF Promise!Next
  <2>12. CASE /\ v \in {"working", "pending"} /\ v2 = "refunded"
              /\ p = "success" /\ p2 = p /\ c2 >= c /\ c2 <= Amount[o]
    <3>1. Promise!Confirm(o)
      BY <2>1, <2>2, <2>3, <2>4, <2>12
      DEF Promise!Confirm, Promise!Move, Promise!MoreCharged, theView, thePayout, theCharge
    <3>2. QED
      BY <1>2, <3>1 DEF Promise!Next
  <2>13. CASE /\ v \in {"working", "pending"} /\ v2 = "open"
              /\ p \in NothingPaid /\ p2 = p /\ c2 <= c
    <3>1. Promise!Withdraw(o)
      BY <2>1, <2>2, <2>3, <2>4, <2>13
      DEF Promise!Withdraw, Promise!Move, Promise!LessCharged, Promise!NoPayout,
          NothingPaid, theView, thePayout, theCharge
    <3>2. QED
      BY <1>2, <3>1 DEF Promise!Next
  <2>14. QED
    BY <2>5, <2>6, <2>7, <2>8, <2>9, <2>10, <2>11, <2>12, <2>13
    DEF OrderMove, Shown, SameMoney, v, p, c, v2, p2, c2
<1>3. QED
  BY <1>1, <1>2

\* Requests, plans, locks and audit rows: what is seen of the order moves from open
\* to working, or not at all.
LEMMA UnpaidMoves ==
    ASSUME RefundInv, NEW w \in Workers, NEW o \in Orders,
           \/ RequestRefund(w, o) \/ PrepareRefund(w, o) \/ QueryAndFinalizeRefund(w, o)
           \/ RecordRequest(w) \/ LockRefund(w) \/ FlagRollback(w) \/ AskGateway(w)
           \/ Abandon(w) \/ Spend \/ TopUp
    PROVE  OthersKept(ord[w]) /\ OrderMove(ord[w])
<1> USE DEF rowVars, gatewayVars, moneyVars, OthersKept, OrderMove, Shown, SameMoney
<1>1. status \in [Orders -> RefundOrderStatuses] /\ ord[w] \in Orders
  BY DEF RefundInv, TypeOK
<1>2. CASE \/ RequestRefund(w, o) \/ PrepareRefund(w, o) \/ QueryAndFinalizeRefund(w, o)
           \/ FlagRollback(w) \/ AskGateway(w) \/ Abandon(w) \/ Spend \/ TopUp
  BY <1>2 DEF RequestRefund, PrepareRefund, QueryAndFinalizeRefund, FlagRollback,
              AskGateway, Abandon, Spend, TopUp
<1>3. CASE RecordRequest(w)
  BY <1>1, <1>3 DEF RecordRequest, View, Refundable
<1>4. CASE LockRefund(w)
  BY <1>1, <1>4 DEF LockRefund, SetStatus, View, Refundable, Final
<1>5. QED
  BY <1>2, <1>3, <1>4

\* ExecuteRefund while the order is REFUNDING: the deduction and the compensation happen
\* while the gateway has nothing to pay, and the order is shown as the gateway said.
LEMMA ExecuteMoves ==
    ASSUME RefundInv, RefundInv', GatewayInv, RowInv', NEW w \in Workers,
           \/ Deduct(w) \/ CallGateway(w) \/ MarkRefundOk(w) \/ MarkRefundPending(w)
           \/ RollbackRefund(w) \/ FailStatus(w) \/ RestoreStatus(w)
    PROVE  OthersKept(ord[w]) /\ (ord[w] \in Recorded => OrderMove(ord[w]))
<1> USE DEF rowVars, gatewayVars, moneyVars, OthersKept, OrderMove, Shown, SameMoney
<1>1. /\ status \in [Orders -> RefundOrderStatuses] /\ ord[w] \in Orders
      /\ gw \in [Orders -> {"none", "pending", "success", "failed"}]
      /\ deducted \in [Orders -> Nat] /\ deducted' \in [Orders -> Nat]
      /\ Amount[ord[w]] \in Nat
  BY OrderAssumption DEF RefundInv, TypeOK
<1>2. /\ status[ord[w]] = "REFUNDING"
      /\ View("REFUNDING") = "working" /\ View("REFUND_PENDING") = "pending"
      /\ \A s \in Refundable : View(s) = "open"
      /\ \A s \in Final : View(s) = "refunded"
  BY DEF RefundInv, RefundExclusive, Refunding, View, Refundable, Final,
         Deduct, CallGateway, MarkRefundOk, MarkRefundPending, RollbackRefund, FailStatus,
         RestoreStatus
<1>3. ord[w] \in Recorded => deducted'[ord[w]] <= Amount[ord[w]]
  BY DEF RowInv
<1>4. pc[w] \in Refunding \ {"markOk", "markPending"} => gw[ord[w]] \in NothingPaid
  BY <1>1 DEF GatewayInv, NothingPaid
<1>5. CASE Deduct(w)
  BY <1>1, <1>2, <1>3, <1>4, <1>5 DEF Deduct, Take, Refunding
<1>6. CASE RollbackRefund(w)
  BY <1>1, <1>2, <1>3, <1>4, <1>6 DEF RollbackRefund, GiveBack, Refunding
<1>7. CASE CallGateway(w)
  BY <1>1, <1>2, <1>4, <1>7 DEF CallGateway, Refunding
<1>8. CASE MarkRefundOk(w)
  BY <1>1, <1>2, <1>3, <1>8 DEF MarkRefundOk, WriteRefund, FinalStatus, Final, GatewayInv
<1>9. CASE MarkRefundPending(w)
  BY <1>1, <1>2, <1>9 DEF MarkRefundPending, WriteRefund, GatewayInv
<1>10. CASE FailStatus(w)
  BY <1>1, <1>2, <1>4, <1>10 DEF FailStatus, SetStatus, Refundable, Refunding
<1>11. CASE RestoreStatus(w)
  BY <1>1, <1>2, <1>4, <1>11 DEF RestoreStatus, SetStatus, Refundable, Refunding
<1>12. QED
  BY <1>5, <1>6, <1>7, <1>8, <1>9, <1>10, <1>11

\* QueryAndFinalizeRefund: its late writes agree with the gateway, although the order
\* and the answer were read before.
LEMMA FinalizeMoves ==
    ASSUME RefundInv, RefundInv', GatewayInv, RowInv', NEW w \in Workers,
           FinalizeSuccess(w) \/ FinalizeFailed(w) \/ FinalizeFlagged(w)
    PROVE  OthersKept(ord[w]) /\ (ord[w] \in Recorded => OrderMove(ord[w]))
<1> USE DEF rowVars, gatewayVars, moneyVars, OthersKept, OrderMove, Shown, SameMoney
<1>1. /\ status \in [Orders -> RefundOrderStatuses] /\ ord[w] \in Orders
      /\ gw \in [Orders -> {"none", "pending", "success", "failed"}]
      /\ deducted \in [Orders -> Nat] /\ deducted' \in [Orders -> Nat]
      /\ Amount[ord[w]] \in Nat /\ plan[w].take \in Nat
  BY OrderAssumption, PlanFields DEF RefundInv, TypeOK
<1>2. /\ View("REFUND_PENDING") = "pending"
      /\ \A s \in Refundable : View(s) = "open"
      /\ \A s \in Final : View(s) = "refunded"
  BY DEF View, Refundable, Final
<1>3. ord[w] \in Recorded => deducted'[ord[w]] <= Amount[ord[w]]
  BY DEF RowInv
<1>4. CASE FinalizeSuccess(w)
  <2>1. DeductedNow(w) \in Nat
    BY DeductedNowBound DEF RefundInv
  <2>2. gw[ord[w]] = "success"
    BY <1>4 DEF FinalizeSuccess, GatewayInv
  <2>3. QED
    BY <1>1, <1>2, <1>3, <1>4, <2>1, <2>2
    DEF FinalizeSuccess, Take, WriteRefund, FinalStatus, Final
<1>5. (pc[w] \in {"finalFail", "finalFail2"} /\ ord[w] \notin failLogged)
        => gw[ord[w]] \in NothingPaid
  BY DEF GatewayInv, NothingPaid
<1>6. CASE FinalizeFailed(w)
  BY <1>1, <1>2, <1>5, <1>6 DEF FinalizeFailed, SetStatus, GiveBack, Refundable
<1>7. CASE FinalizeFlagged(w)
  BY <1>1, <1>2, <1>5, <1>7 DEF FinalizeFlagged, SetStatus, Refundable
<1>8. QED
  BY <1>4, <1>6, <1>7

\* Every step is one that RefundPromise allows, or nothing is seen of it.
LEMMA StepIsPromised ==
    ASSUME RefundInv, RefundInv', GatewayInv, RowInv', [Next]_refundVars
    PROVE  [Promise!Next]_seen
<1>1. TypeOK /\ TypeOK'
  BY DEF RefundInv
<1>2. \A w \in Workers : ord[w] \in Orders
  BY <1>1 DEF TypeOK
<1>3. ASSUME NEW w \in Workers, NEW o \in Orders,
             RequestRefund(w, o) \/ PrepareRefund(w, o) \/ QueryAndFinalizeRefund(w, o)
      PROVE  [Promise!Next]_seen
  BY <1>1, <1>2, <1>3, UnpaidMoves, MoveIsPromised
<1>4. ASSUME NEW w \in Workers, Continue(w) \/ Abandon(w)
      PROVE  [Promise!Next]_seen
  BY <1>1, <1>2, <1>4, UnpaidMoves, ExecuteMoves, FinalizeMoves, MoveIsPromised
  DEF Continue
<1>5. ASSUME NEW o \in Orders, GatewaySettles(o)
      PROVE  [Promise!Next]_seen
  <2>1. OthersKept(o) /\ OrderMove(o)
    BY <1>1, <1>5
    DEF TypeOK, GatewaySettles, rowVars, moneyVars, OthersKept, OrderMove, SameMoney
  <2>2. QED
    BY <1>1, <2>1, MoveIsPromised
<1>6. CASE Spend \/ TopUp \/ UNCHANGED refundVars
  BY <1>6 DEF Spend, TopUp, refundVars, rowVars, gatewayVars, moneyVars,
              seen, theView, thePayout, theCharge
<1>7. QED
  BY <1>3, <1>4, <1>5, <1>6 DEF Next

\* Under the same proviso, refunds keep RefundPromise: the gateway is asked again only
\* when it has nothing to pay, the user is charged before that and at most the order,
\* and compensated only when there is no payout.
THEOREM RefundPromiseKept ==
    ASSUME ~LateFaults
    PROVE  Spec => KeepsPromise
<1>1. Init => Promise!Init
  <2> SUFFICES ASSUME Init PROVE Promise!Init
    OBVIOUS
  <2>0. PICK from \in [Orders -> Origins], kept \in SUBSET Orders :
            /\ \A o \in Orders : from[o] \in Origin[o]
            /\ \A o \in kept : from[o] = "pending"
            /\ InitFrom(from, kept)
    BY DEF Init
  <2>1. ASSUME NEW o \in Recorded
        PROVE  /\ theView[o] \in {"open", "pending"}
               /\ thePayout[o] = IF theView[o] = "open" THEN "none" ELSE "pending"
               /\ theCharge[o] \in Nat
               /\ theCharge[o] = 0 \/ (theView[o] = "pending" /\ theCharge[o] = Amount[o])
    BY <2>0, OrderAssumption
    DEF InitFrom, Recorded, View, Refundable, Final, theView, thePayout, theCharge
  <2>2. QED
    BY <2>1 DEF Promise!Init, theView, thePayout, theCharge
<1>2. RefundInv /\ RefundInv' /\ GatewayInv /\ DeductionInv' /\ [Next]_refundVars
        => [Promise!Next]_seen
  BY StepIsPromised DEF DeductionInv
<1>3. QED
  BY <1>1, <1>2, DeductionInductive, GatewayInductive, PTL
  DEF Spec, KeepsPromise, Promise!Spec, seen, theView, thePayout, theCharge
=============================================================================
