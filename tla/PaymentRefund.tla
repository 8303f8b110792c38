--------------------------- MODULE PaymentRefund ---------------------------
(***************************************************************************)
(* Refunds of completed payment orders: the user's request, the            *)
(* administrator's refund (prepare, lock, deduct, call the gateway, settle *)
(* or compensate) and the query that settles a refund the gateway left     *)
(* pending.                                                                *)
(*                                                                         *)
(* All orders belong to one user, whose balance other requests spend and   *)
(* other payments top up at any time.  A worker is one HTTP request; a     *)
(* step is one database statement or transaction, or one gateway call.     *)
(* What a refund takes back is the refunded amount for a balance order and *)
(* all the days for a subscription order, counted here as the full amount. *)
(*                                                                         *)
(* payment_audit_logs holds at most one row per order and action (unique   *)
(* index of migration 131): a second insert fails, silently in             *)
(* writeAuditLog and with the whole transaction elsewhere.                 *)
(*                                                                         *)
(* Failures draw on the budget "faults", as in PaymentFulfillment.         *)
(***************************************************************************)
EXTENDS Integers

CONSTANTS
    Orders,         \* completed orders of one user
    Workers,        \* concurrent requests
    OrderType,      \* "balance" or "subscription"
    Amount,         \* payment_orders.amount
    Origin,         \* how the order may start: see Origins
    MaxBalance,     \* bound on the user's balance in TopUp
    MaxFaults,      \* bound on injected failures
    LateFaults      \* may a call fail after its effect, or fail unseen?

\* A completed order, or one whose refund an older release left pending, with its
\* audit row or without.
Origins == {"completed", "pending", "unrecorded"}

ASSUME OrderAssumption ==
    /\ OrderType \in [Orders -> {"balance", "subscription"}]
    /\ Amount \in [Orders -> Nat \ {0}]
ASSUME OriginAssumption == Origin \in [Orders -> SUBSET Origins]
ASSUME RefundBoundAssumption == MaxBalance \in Nat /\ MaxFaults \in Nat
ASSUME RefundLateAssumption == LateFaults \in BOOLEAN

VARIABLES
    status,     \* payment_orders.status
    refundAmt,  \* payment_orders.refund_amount
    forced,     \* orders with force_refund
    flagged,    \* orders with an audit row REFUND_ROLLBACK_FAILED
    failLogged, \* orders with an audit row REFUND_FAILED
    detail,     \* the audit row REFUND_PENDING: what became of the deduction
    pendingAmt, \* ... and BalanceDeducted / SubDaysDeducted of that row
    balance,    \* users.balance
    deducted,   \* taken from the user for the order and not given back
    gw,         \* the gateway's state of the latest refund request
    accepted,   \* refund requests the gateway pays out or may still pay out
    pc, ord,    \* per worker: next step, order
    plan,       \* per worker: its RefundPlan
    faults      \* failures still allowed

rowVars == <<status, refundAmt, forced>>
logVars == <<flagged, failLogged, detail, pendingAmt>>
moneyVars == <<balance, deducted>>
gatewayVars == <<gw, accepted>>
refundVars == <<rowVars, logVars, moneyVars, gatewayVars, pc, ord, plan, faults>>

-----------------------------------------------------------------------------
\* Mutant: a refunded order may be refunded again.
Refundable_AlsoRefunded == {"COMPLETED", "REFUND_REQUESTED", "REFUND_FAILED", "REFUNDED"}

\* Statuses from which a refund may start: PrepareRefund and ExecuteRefund.
Refundable == {"COMPLETED", "REFUND_REQUESTED", "REFUND_FAILED"}
Final == {"REFUNDED", "PARTIALLY_REFUNDED"}
RefundOrderStatuses == Refundable \union Final \union {"REFUNDING", "REFUND_PENDING"}

YesNo == {"yes", "no"}

\* RefundPlan: RefundAmount, Force, DeductBalance, BalanceToDeduct or
\* SubDaysToDeduct, deductionHeld, and the status of Order when it was read.
Plans == [amt : Nat, force : YesNo, deduct : YesNo, take : Nat, held : YesNo,
          from : RefundOrderStatuses]
NoPlan == [amt |-> 0, force |-> "no", deduct |-> "no", take |-> 0, held |-> "no",
           from |-> "COMPLETED"]

\* Program points of ExecuteRefund while the order is REFUNDING.
Refunding == {"deduct", "gateway", "markOk", "markPending", "rollback", "flag",
              "failStatus", "restore"}
RefundPCs == {"idle", "request", "lock", "ask", "finalOk", "finalFail", "finalFail2"}
               \union Refunding

TypeOK ==
    /\ status \in [Orders -> RefundOrderStatuses]
    /\ refundAmt \in [Orders -> Nat]
    /\ forced \in SUBSET Orders
    /\ flagged \in SUBSET Orders
    /\ failLogged \in SUBSET Orders
    /\ detail \in [Orders -> {"none", "held", "returned", "notReturned"}]
    /\ pendingAmt \in [Orders -> Nat]
    /\ balance \in Int
    /\ deducted \in [Orders -> Nat]
    /\ gw \in [Orders -> {"none", "pending", "success", "failed"}]
    /\ accepted \in [Orders -> Nat]
    /\ pc \in [Workers -> RefundPCs]
    /\ ord \in [Workers -> Orders]
    /\ plan \in [Workers -> Plans]
    /\ faults \in Nat

\* An older release gave the deduction of a pending refund back on the spot, or
\* failed to ("kept") and flagged the order; its audit row may be missing.
InitFrom(from, kept) ==
    LET pending == {o \in Orders : from[o] # "completed"}
        detailOf(o) == IF o \in kept THEN "notReturned"
                       ELSE IF from[o] = "pending" THEN "returned" ELSE "none"
    IN  /\ status = [o \in Orders |-> IF o \in pending THEN "REFUND_PENDING" ELSE "COMPLETED"]
        /\ refundAmt = [o \in Orders |-> IF o \in pending THEN Amount[o] ELSE 0]
        /\ forced \in SUBSET pending
        /\ failLogged = {}
        /\ flagged = kept
        /\ detail = [o \in Orders |-> detailOf(o)]
        /\ deducted = [o \in Orders |-> IF o \in kept THEN Amount[o] ELSE 0]
        /\ pendingAmt = [o \in Orders |-> 0]
        /\ balance \in 0..MaxBalance
        /\ gw = [o \in Orders |-> IF o \in pending THEN "pending" ELSE "none"]
        /\ accepted = [o \in Orders |-> IF o \in pending THEN 1 ELSE 0]
        /\ pc = [w \in Workers |-> "idle"]
        /\ ord \in [Workers -> Orders]
        /\ plan = [w \in Workers |-> NoPlan]
        /\ faults = MaxFaults

Init ==
    \E from \in {f \in [Orders -> Origins] : \A o \in Orders : f[o] \in Origin[o]} :
        \E kept \in SUBSET {o \in Orders : from[o] = "pending"} : InitFrom(from, kept)

-----------------------------------------------------------------------------
Fault == faults > 0 /\ faults' = faults - 1
NoFault == faults' = faults
\* A failure after the effect, or one the caller does not notice.
LateFault == LateFaults /\ Fault

Go(w, next) == pc' = [pc EXCEPT ![w] = next] /\ UNCHANGED <<ord, plan>>
Done(w) ==
    /\ pc' = [pc EXCEPT ![w] = "idle"]
    /\ plan' = [plan EXCEPT ![w] = NoPlan]
    /\ UNCHANGED ord

SetStatus(o, s) == status' = [status EXCEPT ![o] = s] /\ UNCHANGED <<refundAmt, forced>>

Smaller(a, b) == IF a < b THEN a ELSE b

\* math.Max(0, math.Min(amount, balance)), also DeductAvailableBalance
Available(n) == IF balance < 0 THEN 0 ELSE Smaller(n, balance)

\* Take n from the user for order o, or give it back.
Take(o, n) ==
    /\ balance' = IF OrderType[o] = "balance" THEN balance - n ELSE balance
    /\ deducted' = [deducted EXCEPT ![o] = @ + n]

GiveBack(o, n) ==
    /\ balance' = IF OrderType[o] = "balance" THEN balance + n ELSE balance
    /\ deducted' = [deducted EXCEPT ![o] = @ - n]

-----------------------------------------------------------------------------
(* RequestRefund                                                           *)

\* validateRefundRequest and the balance check
RequestRefund(w, o) ==
    /\ pc[w] = "idle"
    /\ OrderType[o] = "balance" /\ status[o] = "COMPLETED" /\ balance >= Amount[o]
    /\ pc' = [pc EXCEPT ![w] = "request"] /\ ord' = [ord EXCEPT ![w] = o]
    /\ UNCHANGED <<rowVars, logVars, moneyVars, gatewayVars, plan, faults>>

\* RequestRefund: the conditional update
RecordRequest(w) ==
    LET o == ord[w]
    IN  /\ pc[w] = "request"
        /\ \/ /\ NoFault /\ status[o] = "COMPLETED"
              /\ status' = [status EXCEPT ![o] = "REFUND_REQUESTED"]
              /\ refundAmt' = [refundAmt EXCEPT ![o] = Amount[o]]
              /\ UNCHANGED forced
           \/ NoFault /\ status[o] # "COMPLETED" /\ UNCHANGED rowVars
           \/ Fault /\ UNCHANGED rowVars
        /\ Done(w)
        /\ UNCHANGED <<logVars, moneyVars, gatewayVars>>

-----------------------------------------------------------------------------
(* PrepareRefund and ExecuteRefund                                         *)

\* PrepareRefund, prepDeduct.  Without force the balance must cover the refund
\* and a subscription order must have an active subscription; with force what is
\* there is taken, nothing if the user cannot be read.
PrepareRefund(w, o) ==
    /\ pc[w] = "idle"
    /\ status[o] \in Refundable
    /\ \E amt \in 1..Amount[o], force \in YesNo, deduct \in YesNo, take \in 0..Amount[o] :
            /\ \/ NoFault /\ deduct = "no" /\ take = 0
               \/ /\ NoFault /\ deduct = "yes" /\ OrderType[o] = "balance"
                  /\ force = "yes" \/ balance >= amt
                  /\ take = Available(amt)
               \/ /\ NoFault /\ deduct = "yes" /\ OrderType[o] = "subscription"
                  /\ take = Amount[o] \/ (force = "yes" /\ take = 0)
               \/ Fault /\ deduct = "yes" /\ force = "yes" /\ take = 0
            /\ plan' = [plan EXCEPT ![w] =
                    [amt |-> amt, force |-> force, deduct |-> deduct, take |-> take,
                     held |-> "no", from |-> status[o]]]
    /\ pc' = [pc EXCEPT ![w] = "lock"] /\ ord' = [ord EXCEPT ![w] = o]
    /\ UNCHANGED <<rowVars, logVars, moneyVars, gatewayVars>>

\* Mutant: the update is not conditional on the status.
LockRefund_Unconditional(w) ==
    /\ pc[w] = "lock"
    /\ NoFault /\ SetStatus(ord[w], "REFUNDING")
    /\ Go(w, IF plan[w].take > 0 THEN "deduct" ELSE "gateway")
    /\ UNCHANGED <<logVars, moneyVars, gatewayVars>>

\* ExecuteRefund: the conditional update to REFUNDING
LockRefund(w) ==
    LET o == ord[w]
    IN  /\ pc[w] = "lock"
        /\ \/ /\ NoFault /\ status[o] \in Refundable
              /\ SetStatus(o, "REFUNDING")
              /\ Go(w, IF plan[w].take > 0 THEN "deduct" ELSE "gateway")
           \/ NoFault /\ status[o] \notin Refundable /\ UNCHANGED rowVars /\ Done(w)
           \/ Fault /\ UNCHANGED rowVars /\ Done(w)
        /\ UNCHANGED <<logVars, moneyVars, gatewayVars>>

\* The amount deductRefundBalance or ExtendSubscription/RevokeSubscription takes.
DeductedNow(w) ==
    IF OrderType[ord[w]] = "subscription" THEN plan[w].take
    ELSE IF plan[w].force = "yes" THEN Available(plan[w].take)
    ELSE IF balance >= plan[w].take THEN plan[w].take ELSE 0

\* Mutant: a smaller deduction does not stop the refund.
Covered_Always(w) == TRUE

\* Whether the refund goes on with what was deducted.
Covered(w) == DeductedNow(w) = plan[w].take \/ plan[w].force = "yes"

\* Mutant: a skipped deduction is not taken out of the plan.
Deduct_PlanUnchanged(w) ==
    /\ pc[w] = "deduct"
    /\ NoFault /\ Go(w, "gateway")
    /\ IF ord[w] \in flagged THEN UNCHANGED moneyVars
       ELSE DeductedNow(w) = plan[w].take /\ Take(ord[w], plan[w].take)
    /\ UNCHANGED <<rowVars, logVars, gatewayVars>>

\* ExecuteRefund: the deduction, skipped when an earlier one was never given back.
\* hasAuditLog hides its errors.  A subscription may be gone or expired by now.
Deduct(w) ==
    LET o == ord[w]
        n == DeductedNow(w)
        Unflagged == IF o \in flagged THEN LateFault ELSE NoFault
        Taken == Take(o, n) /\ UNCHANGED ord
    IN  /\ pc[w] = "deduct"
        /\ \/ /\ NoFault /\ o \in flagged
              /\ pc' = [pc EXCEPT ![w] = "gateway"]
              /\ plan' = [plan EXCEPT ![w].take = 0]
              /\ UNCHANGED <<moneyVars, ord>>
           \/ /\ Unflagged /\ Covered(w)
              /\ pc' = [pc EXCEPT ![w] = "gateway"]
              /\ plan' = [plan EXCEPT ![w].take = n]
              /\ Taken
           \/ /\ Unflagged
              /\ ~Covered(w) \/ OrderType[o] = "subscription"
              /\ Go(w, "restore") /\ UNCHANGED moneyVars
           \/ /\ Fault /\ o \notin flagged
              /\ Go(w, "restore") /\ UNCHANGED moneyVars
           \/ /\ LateFault /\ o \notin flagged
              /\ pc' = [pc EXCEPT ![w] = "restore"] /\ Taken /\ UNCHANGED plan
        /\ UNCHANGED <<rowVars, logVars, gatewayVars>>

\* Mutant: a pending answer is handled as a failure.
CallGateway_PendingFails(w) ==
    /\ pc[w] = "gateway"
    /\ NoFault
    /\ gw' = [gw EXCEPT ![ord[w]] = "pending"]
    /\ accepted' = [accepted EXCEPT ![ord[w]] = @ + 1]
    /\ Go(w, "rollback")
    /\ UNCHANGED <<rowVars, logVars, moneyVars>>

\* gwRefund.  A failure may leave the refund undone or, when the reply is lost,
\* done or pending at the gateway.
CallGateway(w) ==
    LET o == ord[w]
        Accept(s) == /\ gw' = [gw EXCEPT ![o] = s]
                     /\ accepted' = [accepted EXCEPT ![o] = @ + 1]
    IN  /\ pc[w] = "gateway"
        /\ \/ NoFault /\ Accept("success") /\ Go(w, "markOk")
           \/ NoFault /\ Accept("pending") /\ Go(w, "markPending")
           \/ /\ NoFault /\ gw' = [gw EXCEPT ![o] = "failed"]
              /\ UNCHANGED accepted /\ Go(w, "rollback")
           \/ Fault /\ UNCHANGED gatewayVars /\ Go(w, "rollback")
           \/ /\ LateFault
              /\ \E s \in {"success", "pending"} : Accept(s)
              /\ Go(w, "rollback")
        /\ UNCHANGED <<rowVars, logVars, moneyVars>>

FinalStatus(o, amt) == IF amt < Amount[o] THEN "PARTIALLY_REFUNDED" ELSE "REFUNDED"

\* The columns markRefundOk, markRefundOkTx and markRefundPending write.
WriteRefund(o, s, p) ==
    /\ status' = [status EXCEPT ![o] = s]
    /\ refundAmt' = [refundAmt EXCEPT ![o] = p.amt]
    /\ forced' = IF p.force = "yes" THEN forced \union {o} ELSE forced \ {o}

\* markRefundOk: whatever the status is now
MarkRefundOk(w) ==
    /\ pc[w] = "markOk"
    /\ \/ NoFault /\ WriteRefund(ord[w], FinalStatus(ord[w], plan[w].amt), plan[w])
       \/ Fault /\ UNCHANGED rowVars
    /\ Done(w)
    /\ UNCHANGED <<logVars, moneyVars, gatewayVars>>

\* Mutant: the row does not tell what was deducted.
MarkRefundPending_NoAmount(w) ==
    /\ pc[w] = "markPending"
    /\ NoFault /\ detail[ord[w]] = "none"
    /\ WriteRefund(ord[w], "REFUND_PENDING", plan[w])
    /\ detail' = [detail EXCEPT ![ord[w]] = "held"]
    /\ Done(w)
    /\ UNCHANGED <<pendingAmt, flagged, failLogged, moneyVars, gatewayVars>>

\* Mutant: what was deducted is given back although the gateway may still pay.
MarkRefundPending_GivesBack(w) ==
    /\ pc[w] = "markPending"
    /\ NoFault /\ detail[ord[w]] = "none"
    /\ WriteRefund(ord[w], "REFUND_PENDING", plan[w])
    /\ GiveBack(ord[w], plan[w].take)
    /\ detail' = [detail EXCEPT ![ord[w]] = "returned"]
    /\ Done(w)
    /\ UNCHANGED <<pendingAmt, flagged, failLogged, gatewayVars>>

\* markRefundPending: status and audit row in one transaction, which fails when the
\* order already has such a row.
MarkRefundPending(w) ==
    LET o == ord[w]
    IN  /\ pc[w] = "markPending"
        /\ \/ /\ NoFault /\ detail[o] = "none"
              /\ WriteRefund(o, "REFUND_PENDING", plan[w])
              /\ detail' = [detail EXCEPT ![o] = "held"]
              /\ pendingAmt' = [pendingAmt EXCEPT ![o] = plan[w].take]
           \/ NoFault /\ detail[o] # "none" /\ UNCHANGED <<rowVars, detail, pendingAmt>>
           \/ Fault /\ UNCHANGED <<rowVars, detail, pendingAmt>>
        /\ Done(w)
        /\ UNCHANGED <<flagged, failLogged, moneyVars, gatewayVars>>

\* handleGwFail, RollbackRefund.  Giving days back fails when the subscription
\* cannot be restored or extended any more.
RollbackRefund(w) ==
    LET o == ord[w]
        n == plan[w].take
    IN  /\ pc[w] = "rollback"
        /\ \/ NoFault /\ n = 0 /\ UNCHANGED moneyVars /\ Go(w, "restore")
           \/ NoFault /\ n > 0 /\ GiveBack(o, n) /\ Go(w, "restore")
           \/ /\ n > 0
              /\ Fault \/ (NoFault /\ OrderType[o] = "subscription")
              /\ UNCHANGED moneyVars /\ Go(w, "flag")
           \/ n > 0 /\ LateFault /\ GiveBack(o, n) /\ Go(w, "flag")
        /\ UNCHANGED <<rowVars, logVars, gatewayVars>>

\* Mutant: the failed rollback is not recorded.
FlagRollback_Dropped(w) ==
    /\ pc[w] = "flag"
    /\ NoFault /\ Go(w, "failStatus")
    /\ UNCHANGED <<rowVars, logVars, moneyVars, gatewayVars>>

\* RollbackRefund: writeAuditLog REFUND_ROLLBACK_FAILED
FlagRollback(w) ==
    /\ pc[w] = "flag"
    /\ \/ NoFault /\ flagged' = flagged \union {ord[w]}
       \/ LateFault /\ UNCHANGED flagged
    /\ Go(w, "failStatus")
    /\ UNCHANGED <<rowVars, failLogged, detail, pendingAmt, moneyVars, gatewayVars>>

\* handleGwFail: REFUND_FAILED and its audit row, the errors of both ignored
FailStatus(w) ==
    LET o == ord[w]
    IN  /\ pc[w] = "failStatus"
        /\ \/ NoFault /\ SetStatus(o, "REFUND_FAILED") /\ failLogged' = failLogged \union {o}
           \/ Fault /\ UNCHANGED rowVars /\ failLogged' = failLogged \union {o}
           \/ LateFault /\ SetStatus(o, "REFUND_FAILED") /\ UNCHANGED failLogged
        /\ Done(w)
        /\ UNCHANGED <<flagged, detail, pendingAmt, moneyVars, gatewayVars>>

\* Mutant: only a refund that the user requested is restored.
RestoreStatus_Requested(w) ==
    /\ pc[w] = "restore"
    /\ NoFault
    /\ IF plan[w].from = "REFUND_REQUESTED" THEN SetStatus(ord[w], plan[w].from)
                                            ELSE UNCHANGED rowVars
    /\ Done(w)
    /\ UNCHANGED <<logVars, moneyVars, gatewayVars>>

\* restoreStatus: back to the user's request or to COMPLETED, whatever it is now
RestoreStatus(w) ==
    /\ pc[w] = "restore"
    /\ \/ /\ NoFault
          /\ SetStatus(ord[w], IF plan[w].from = "REFUND_REQUESTED" THEN plan[w].from
                                                                    ELSE "COMPLETED")
       \/ Fault /\ UNCHANGED rowVars
    /\ Done(w)
    /\ UNCHANGED <<logVars, moneyVars, gatewayVars>>

-----------------------------------------------------------------------------
(* QueryAndFinalizeRefund                                                  *)

\* The order and its REFUND_PENDING row are read; refundFinalizePlan and applyTo.
QueryAndFinalizeRefund(w, o) ==
    LET held == detail[o] = "held"
        Redo == detail[o] \in {"none", "returned"}
    IN  /\ pc[w] = "idle"
        /\ status[o] = "REFUND_PENDING"
        /\ \E take \in IF held THEN {pendingAmt[o]}
                       ELSE IF ~Redo THEN {0}
                       ELSE IF OrderType[o] = "balance" THEN {refundAmt[o]} ELSE {0, Amount[o]} :
            plan' = [plan EXCEPT ![w] =
                [amt |-> refundAmt[o], force |-> IF o \in forced THEN "yes" ELSE "no",
                 deduct |-> "yes", take |-> take, held |-> IF held THEN "yes" ELSE "no",
                 from |-> "REFUND_PENDING"]]
        /\ pc' = [pc EXCEPT ![w] = "ask"] /\ ord' = [ord EXCEPT ![w] = o]
        /\ UNCHANGED <<rowVars, logVars, moneyVars, gatewayVars, faults>>

\* Mutant: a failed refund is left pending.
AskGateway_OnlySuccess(w) ==
    /\ pc[w] = "ask"
    /\ NoFault
    /\ IF gw[ord[w]] = "success" THEN Go(w, "finalOk") ELSE Done(w)
    /\ UNCHANGED <<rowVars, logVars, moneyVars, gatewayVars>>

\* Mutant: whatever is not a success is a failure.
AskGateway_PendingFails(w) ==
    /\ pc[w] = "ask"
    /\ NoFault
    /\ Go(w, IF gw[ord[w]] = "success" THEN "finalOk" ELSE "finalFail")
    /\ UNCHANGED <<rowVars, logVars, moneyVars, gatewayVars>>

\* QueryRefund of the provider: only an explicit failure leads to finalFail.
AskGateway(w) ==
    /\ pc[w] = "ask"
    /\ \/ NoFault /\ gw[ord[w]] = "success" /\ Go(w, "finalOk")
       \/ NoFault /\ gw[ord[w]] = "failed" /\ Go(w, "finalFail")
       \/ NoFault /\ gw[ord[w]] \in {"none", "pending"} /\ Done(w)
       \/ Fault /\ Done(w)
    /\ UNCHANGED <<rowVars, logVars, moneyVars, gatewayVars>>

\* finalizePendingRefundSuccess with applyRefundFinalDeduction, one transaction
FinalizeSuccess(w) ==
    LET o == ord[w]
        n == IF plan[w].held = "yes" THEN 0 ELSE DeductedNow(w)
        enough == plan[w].held = "yes" \/ plan[w].force = "yes" \/ n = plan[w].take
    IN  /\ pc[w] = "finalOk"
        /\ \/ /\ NoFault /\ status[o] = "REFUND_PENDING" /\ enough
              /\ Take(o, n)
              /\ WriteRefund(o, FinalStatus(o, plan[w].amt), plan[w])
           \/ /\ NoFault /\ ~(status[o] = "REFUND_PENDING" /\ enough)
              /\ UNCHANGED <<rowVars, moneyVars>>
           \/ Fault /\ UNCHANGED <<rowVars, moneyVars>>
        /\ Done(w)
        /\ UNCHANGED <<logVars, gatewayVars>>

\* finalizeRefundFailedTx: claim, give back, audit row, in one transaction, which
\* fails when the order already has a REFUND_FAILED row.
FinalizeFailed(w) ==
    LET o == ord[w]
        n == IF plan[w].held = "yes" THEN plan[w].take ELSE 0
    IN  /\ pc[w] = "finalFail"
        /\ \/ /\ NoFault /\ status[o] = "REFUND_PENDING" /\ o \notin failLogged
              /\ SetStatus(o, "REFUND_FAILED")
              /\ GiveBack(o, n)
              /\ failLogged' = failLogged \union {o}
              /\ Done(w)
           \/ /\ status[o] = "REFUND_PENDING" /\ n > 0
              /\ Fault \/ (NoFault /\ OrderType[o] = "subscription")
              /\ UNCHANGED <<rowVars, moneyVars, failLogged>> /\ Go(w, "finalFail2")
           \/ /\ \/ NoFault /\ ~(status[o] = "REFUND_PENDING" /\ o \notin failLogged)
                 \/ Fault
              /\ UNCHANGED <<rowVars, moneyVars, failLogged>> /\ Done(w)
        /\ UNCHANGED <<flagged, detail, pendingAmt, gatewayVars>>

\* finalizeRefundFailedTx again, when giving back failed: flag it instead.
FinalizeFlagged(w) ==
    LET o == ord[w]
        possible == status[o] = "REFUND_PENDING" /\ o \notin flagged /\ o \notin failLogged
    IN  /\ pc[w] = "finalFail2"
        /\ \/ /\ NoFault /\ possible
              /\ SetStatus(o, "REFUND_FAILED")
              /\ flagged' = flagged \union {o}
              /\ failLogged' = failLogged \union {o}
           \/ NoFault /\ ~possible /\ UNCHANGED <<rowVars, flagged, failLogged>>
           \/ Fault /\ UNCHANGED <<rowVars, flagged, failLogged>>
        /\ Done(w)
        /\ UNCHANGED <<detail, pendingAmt, moneyVars, gatewayVars>>

-----------------------------------------------------------------------------
(* Environment                                                             *)

\* The gateway settles a refund it left pending.
GatewaySettles(o) ==
    /\ gw[o] = "pending"
    /\ \/ gw' = [gw EXCEPT ![o] = "success"] /\ UNCHANGED accepted
       \/ gw' = [gw EXCEPT ![o] = "failed"] /\ accepted' = [accepted EXCEPT ![o] = @ - 1]
    /\ UNCHANGED <<rowVars, logVars, moneyVars, pc, ord, plan, faults>>

\* DeductBalance for a request: only users with a positive balance are served, and
\* the last request may overdraw.
Spend ==
    /\ balance > 0
    /\ \E n \in 1..2 : balance' = balance - n
    /\ UNCHANGED <<rowVars, logVars, deducted, gatewayVars, pc, ord, plan, faults>>

\* Another payment or a redeem code.
TopUp ==
    /\ balance < MaxBalance
    /\ balance' = balance + 1
    /\ UNCHANGED <<rowVars, logVars, deducted, gatewayVars, pc, ord, plan, faults>>

\* The worker's process dies, or its request context is cancelled.
Abandon(w) ==
    /\ pc[w] # "idle"
    /\ Fault
    /\ Done(w)
    /\ UNCHANGED <<rowVars, logVars, moneyVars, gatewayVars>>

-----------------------------------------------------------------------------
Continue(w) ==
    \/ RecordRequest(w)
    \/ LockRefund(w) \/ Deduct(w) \/ CallGateway(w) \/ MarkRefundOk(w)
    \/ MarkRefundPending(w) \/ RollbackRefund(w) \/ FlagRollback(w)
    \/ FailStatus(w) \/ RestoreStatus(w)
    \/ AskGateway(w) \/ FinalizeSuccess(w) \/ FinalizeFailed(w) \/ FinalizeFlagged(w)

Next ==
    \/ \E w \in Workers, o \in Orders :
        RequestRefund(w, o) \/ PrepareRefund(w, o) \/ QueryAndFinalizeRefund(w, o)
    \/ \E w \in Workers : Continue(w) \/ Abandon(w)
    \/ \E o \in Orders : GatewaySettles(o)
    \/ Spend \/ TopUp

Spec == Init /\ [][Next]_refundVars

-----------------------------------------------------------------------------
(* Safety                                                                  *)

Working(o) == \E w \in Workers : pc[w] \in Refunding /\ ord[w] = o

\* From the update to REFUNDING until the write that ends it, one request works on
\* the order, although those last writes do not look at the status.
RefundExclusive ==
    \A w \in Workers : pc[w] \in Refunding =>
        /\ status[ord[w]] = "REFUNDING"
        /\ \A v \in Workers \ {w} : pc[v] \in Refunding => ord[v] # ord[w]

\* Orders whose pending refund, if any, has its audit row.
Recorded == {o \in Orders : "unrecorded" \notin Origin[o]}

\* However often a refund is tried, compensated, left pending and settled, the user
\* is never charged more than the order once.  It needs errors that are noticed:
\* see LateFaults.
DeductedOnce == \A o \in Recorded : deducted[o] <= Amount[o]

\* When nobody works on an order, its audit rows tell what the user is still charged
\* with: nothing while a refund may start, the recorded amount while one is pending,
\* unless the order is flagged, so that a retry does not charge again.
DeductionIsKnown ==
    \A o \in Recorded : (~Working(o) /\ o \notin flagged) =>
        /\ status[o] \in Refundable => deducted[o] = 0
        /\ status[o] = "REFUND_PENDING" => deducted[o] = pendingAmt[o]

\* A refund can be started anew only if the gateway has nothing to pay out, and a
\* refund shown as done is one that it paid, once.
GatewayAgrees ==
    \A o \in Orders :
        /\ accepted[o] <= 1
        /\ status[o] \in Refundable => accepted[o] = 0
        /\ status[o] \in Final => gw[o] = "success" /\ accepted[o] = 1

\* Without force, the gateway is called only after the full amount was taken from
\* the balance, although the balance was read by another statement before; unless
\* the deduction is skipped for a flagged order.
FullDeductionFirst ==
    \A w \in Workers :
        (pc[w] = "gateway" /\ plan[w].deduct = "yes" /\ plan[w].force = "no"
            /\ OrderType[ord[w]] = "balance" /\ ord[w] \notin flagged)
        => plan[w].take = plan[w].amt /\ deducted[ord[w]] >= plan[w].amt

\* Even if replies of the gateway are lost, every payout of an order beyond the first
\* costs a failure: retries, stale queries and orders without an audit row alone do
\* not make the gateway pay twice.
PayoutPerFailure == \A o \in Orders : accepted[o] <= 1 + (MaxFaults - faults)

\* An order is left REFUNDING with no request at work, where no later call takes it up,
\* only after a failure, or if its refund is pending for the second time.
OrphanedByFailure ==
    \A o \in Orders : (status[o] = "REFUNDING" /\ ~Working(o)) =>
        faults < MaxFaults \/ detail[o] # "none"

\* A refunded order is not changed again: no late compensation, restored status or
\* second settlement overwrites it or moves money.
FinalIsFinal ==
    [][\A o \in Orders : status[o] \in Final =>
        status'[o] = status[o] /\ deducted'[o] = deducted[o]
            /\ refundAmt'[o] = refundAmt[o]]_refundVars

-----------------------------------------------------------------------------
(* Refinement                                                              *)

\* What the user and the merchant see of a status.
View(s) ==
    IF s \in Refundable THEN "open" ELSE IF s \in Final THEN "refunded"
    ELSE IF s = "REFUNDING" THEN "working" ELSE "pending"

Promise == INSTANCE RefundPromise WITH
    Orders <- Recorded,
    Amount <- Amount,
    view <- [o \in Recorded |-> View(status[o])],
    payout <- [o \in Recorded |-> gw[o]],
    charge <- [o \in Recorded |-> deducted[o]]

\* Retries, failed deductions and rollbacks, answers left pending, stale queries and
\* requests that die amount to what RefundPromise allows: no second payout, no
\* charge after the payout was requested, no money returned and no new attempt while
\* the gateway may still pay, no refund shown that was not paid.
KeepsPromise == Promise!Spec

-----------------------------------------------------------------------------
(* Liveness                                                                *)

\* Requests that started run on, the gateway settles what it left pending, and the
\* administrator queries an order that stays pending.
RefundFairness ==
    /\ \A w \in Workers : WF_refundVars(Continue(w))
    /\ \A o \in Orders : WF_refundVars(GatewaySettles(o))
    /\ \A o \in Orders : SF_refundVars(\E w \in Workers : QueryAndFinalizeRefund(w, o))

FairSpec == Spec /\ RefundFairness

\* A refund the gateway confirmed cannot be written: the deduction was given back
\* when it became pending, and the balance no longer covers it.
Uncovered(o) ==
    /\ gw[o] = "success" /\ detail[o] \in {"none", "returned"} /\ o \notin forced
    /\ OrderType[o] = "balance" /\ balance < refundAmt[o]

\* A pending refund is settled one way or the other: finalizePendingRefundSuccess
\* and finalizeRefundFailed find a way out of REFUND_PENDING, also after a failure,
\* unless the user has spent the money of a confirmed refund, or the refund fails and
\* the REFUND_FAILED row of an earlier attempt stands in the way.
PendingIsSettled ==
    \A o \in Orders :
        status[o] = "REFUND_PENDING" ~>
            (status[o] # "REFUND_PENDING" \/ Uncovered(o) \/ (gw[o] = "failed" /\ o \in failLogged))
=============================================================================
