------------------------- MODULE PaymentFulfillment -------------------------
(***************************************************************************)
(* The life of a payment order: creation, confirmation of the payment      *)
(* (webhook, upstream query by the expiry job, by a cancellation or by the *)
(* user), fulfilment (balance through a redeem code, or a subscription)    *)
(* and the administrator's retry.                                          *)
(*                                                                         *)
(* A worker is a goroutine that runs one handler on one order.  A step is  *)
(* one database statement or transaction, or one call of the payment       *)
(* provider: between two steps of a worker any other worker may run.  The  *)
(* amounts are abstracted to "the notified payment matches the order or    *)
(* not", the timestamps to "due" (expires_at has passed) and "fresh"       *)
(* (updated_at is within paymentGraceMinutes).                             *)
(*                                                                         *)
(* Failures draw on the budget "faults": a statement or a provider call    *)
(* returns an error, or a worker stops where it is because its process     *)
(* dies or its context is cancelled (every later statement of it fails).   *)
(***************************************************************************)
EXTENDS Integers, FiniteSets

CONSTANTS
    Orders,         \* ids of payment_orders rows, all of one user
    Workers,        \* concurrent handler invocations
    OrderType,      \* payment.OrderTypeBalance, ...Subscription or a legacy type
    Rebated,        \* orders with a positive affiliateRebateBaseAmount
    MaxPending,     \* PaymentConfig.MaxPendingOrders
    MaxFaults,      \* bound on injected failures
    LateFaults      \* may a call fail after its effect, or fail unseen?

ASSUME TypeAssumption == OrderType \in [Orders -> {"balance", "subscription", "legacy"}]
ASSUME RebatedAssumption == Rebated \subseteq Orders
ASSUME BoundAssumption == MaxPending \in Nat /\ MaxFaults \in Nat
ASSUME LateAssumption == LateFaults \in BOOLEAN

VARIABLES
    status,     \* payment_orders.status; "NONE" before the row exists
    paidAt,     \* orders whose paid_at is set
    due,        \* orders with expires_at <= now
    fresh,      \* orders with updated_at >= now - paymentGraceMinutes
    payable,    \* orders whose payment URL or QR code the user was given
    closed,     \* orders for which the provider accepted CancelPayment
    paid,       \* the provider's view: "no", "match" or "mismatch"
    acked,      \* orders of which a webhook delivery got a 2xx answer
    code,       \* the redeem_codes row of recharge_code
    credit,     \* how often the order's amount was added to the balance
    grants,     \* how often the order's subscription days were granted
    logged,     \* orders with an audit row SUBSCRIPTION_ASSIGNED or ..._SUCCESS
    rebates,    \* how often the inviter's rebate was settled for the order
    pc, ord, entry,     \* per worker: next step, order, entry point
    faults,     \* failures still allowed
    late        \* history, per order: calls that failed after their effect, or unseen

orderVars == <<status, paidAt, due, fresh>>
providerVars == <<payable, closed, paid, acked>>
effectVars == <<code, credit, grants, logged, rebates>>
vars == <<orderVars, providerVars, effectVars, pc, ord, entry, faults, late>>

-----------------------------------------------------------------------------
\* psIsRefundStatus
RefundStatuses == {"REFUND_REQUESTED", "REFUNDING", "REFUND_PENDING",
                   "PARTIALLY_REFUNDED", "REFUNDED", "REFUND_FAILED"}

Statuses == {"NONE", "PENDING", "PAID", "RECHARGING", "COMPLETED", "EXPIRED",
             "CANCELLED", "FAILED"} \union RefundStatuses

Entries == {"create", "webhook", "cancel", "expire", "reconcile", "retry"}

\* Program points between "order set to RECHARGING" and the write that ends it.
BalanceSteps == {"lookup", "createCode", "redeem"}
GrantSteps == {"group", "assign", "writeLog"}
Section == BalanceSteps \union GrantSteps \union {"rebate", "complete", "markFailed"}

\* Program points reached only after the payment was confirmed.
Confirmed == {"toPaid", "already", "reset", "fulfil", "lock"} \union Section

PCs == {"idle", "insert", "invoke", "invokeFailed", "query", "close", "confirm"}
         \union Confirmed

TypeOK ==
    /\ status \in [Orders -> Statuses]
    /\ paidAt \in SUBSET Orders
    /\ due \in SUBSET Orders
    /\ fresh \in SUBSET Orders
    /\ payable \in SUBSET Orders
    /\ closed \in SUBSET Orders
    /\ paid \in [Orders -> {"no", "match", "mismatch"}]
    /\ acked \in SUBSET Orders
    /\ code \in [Orders -> {"none", "unused", "used"}]
    /\ credit \in [Orders -> Nat]
    /\ grants \in [Orders -> Nat]
    /\ logged \in SUBSET Orders
    /\ rebates \in [Orders -> Nat]
    /\ pc \in [Workers -> PCs]
    /\ ord \in [Workers -> Orders]
    /\ entry \in [Workers -> Entries]
    /\ faults \in Nat
    /\ late \in [Orders -> Nat]

\* CreateOrder accepts two order types; an order of another type can only be a
\* row that an older release left pending.
Init ==
    /\ status = [o \in Orders |-> IF OrderType[o] = "legacy" THEN "PENDING" ELSE "NONE"]
    /\ paidAt = {}
    /\ due = {}
    /\ fresh = {}
    /\ payable = {o \in Orders : OrderType[o] = "legacy"}
    /\ closed = {}
    /\ paid = [o \in Orders |-> "no"]
    /\ acked = {}
    /\ code = [o \in Orders |-> "none"]
    /\ credit = [o \in Orders |-> 0]
    /\ grants = [o \in Orders |-> 0]
    /\ logged = {}
    /\ rebates = [o \in Orders |-> 0]
    /\ pc = [w \in Workers |-> "idle"]
    /\ ord \in [Workers -> Orders]
    /\ entry = [w \in Workers |-> "create"]
    /\ faults = MaxFaults
    /\ late = [o \in Orders |-> 0]

-----------------------------------------------------------------------------
(* Steps of a worker.                                                      *)

Fault == faults > 0 /\ faults' = faults - 1 /\ UNCHANGED late
NoFault == UNCHANGED <<faults, late>>
\* A failure after the effect, or one the caller does not notice.
LateFault(o) ==
    /\ LateFaults /\ faults > 0 /\ faults' = faults - 1
    /\ late' = [late EXCEPT ![o] = @ + 1]

\* A handler starts on order o.
Start(w, o, e, first) ==
    /\ pc[w] = "idle"
    /\ pc' = [pc EXCEPT ![w] = first]
    /\ ord' = [ord EXCEPT ![w] = o]
    /\ entry' = [entry EXCEPT ![w] = e]
    /\ NoFault

Go(w, next) == pc' = [pc EXCEPT ![w] = next] /\ UNCHANGED <<ord, entry>>

\* Mutant: the webhook is answered with 2xx whatever the handler returned.
Return_AlwaysAck(w, ok) ==
    /\ Go(w, "idle")
    /\ acked' = IF entry[w] = "webhook" THEN acked \union {ord[w]} ELSE acked
    /\ UNCHANGED <<payable, closed, paid>>

\* The handler returns; the webhook handler answers 2xx exactly on a nil error.
Return(w, ok) ==
    /\ Go(w, "idle")
    /\ acked' = IF ok /\ entry[w] = "webhook" THEN acked \union {ord[w]}
                                              ELSE acked
    /\ UNCHANGED <<payable, closed, paid>>

\* UPDATE payment_orders: every update stamps updated_at.
SetStatus(o, s) ==
    /\ status' = [status EXCEPT ![o] = s]
    /\ fresh' = fresh \union {o}
    /\ UNCHANGED <<paidAt, due>>

-----------------------------------------------------------------------------
(* CreateOrder                                                             *)

PendingOrders == {o \in Orders : status[o] = "PENDING"}

\* createOrderInTx up to the checks: the count of pending orders is read.  The
\* id of the new row is one that no other transaction is inserting.
CheckPendingLimit(w, o) ==
    /\ status[o] = "NONE"
    /\ \A v \in Workers : pc[v] = "insert" => ord[v] # o
    /\ Cardinality(PendingOrders) < MaxPending
    /\ Start(w, o, "create", "insert")
    /\ UNCHANGED <<orderVars, providerVars, effectVars>>

\* createOrderInTx: the row is inserted and committed, or the transaction fails.
InsertOrder(w) ==
    /\ pc[w] = "insert"
    /\ \/ NoFault /\ SetStatus(ord[w], "PENDING") /\ Go(w, "invoke")
       \/ Fault /\ UNCHANGED orderVars /\ Go(w, "idle")
    /\ UNCHANGED <<providerVars, effectVars>>

\* invokeProvider: CreatePayment, then the payment details are stored and answered
\* to the user.  When the call or the update fails (the update may have been made
\* all the same), nobody is given the payment URL.
InvokeProvider(w) ==
    /\ pc[w] = "invoke"
    /\ \/ /\ NoFault
          /\ payable' = payable \union {ord[w]}
          /\ fresh' = fresh \union {ord[w]}
          /\ Go(w, "idle")
       \/ Fault /\ UNCHANGED <<payable, fresh>> /\ Go(w, "invokeFailed")
       \/ /\ LateFault(ord[w]) /\ UNCHANGED payable
          /\ fresh' = fresh \union {ord[w]}
          /\ Go(w, "invokeFailed")
    /\ UNCHANGED <<status, paidAt, due, closed, paid, acked, effectVars>>

\* CreateOrder after a failed invokeProvider: FAILED whatever the status is now.
FailOrder(w) ==
    /\ pc[w] = "invokeFailed"
    /\ \/ NoFault /\ SetStatus(ord[w], "FAILED")
       \/ Fault /\ UNCHANGED orderVars
    /\ Go(w, "idle")
    /\ UNCHANGED <<providerVars, effectVars>>

-----------------------------------------------------------------------------
(* Entry points                                                            *)

\* handleNotify: a verified success notification; the provider may repeat it.
HandleNotify(w, o) ==
    /\ paid[o] # "no"
    /\ Start(w, o, "webhook", "confirm")
    /\ UNCHANGED <<orderVars, providerVars, effectVars>>

\* CancelOrder and AdminCancelOrder
CancelOrder(w, o) ==
    /\ status[o] = "PENDING"
    /\ Start(w, o, "cancel", "query")
    /\ UNCHANGED <<orderVars, providerVars, effectVars>>

\* ExpireTimedOutOrders, for one order of its list
ExpireTimedOutOrder(w, o) ==
    /\ status[o] = "PENDING" /\ o \in due
    /\ Start(w, o, "expire", "query")
    /\ UNCHANGED <<orderVars, providerVars, effectVars>>

\* ReconcilePendingPaymentOrders, for one order of its list
ReconcilePendingOrder(w, o) ==
    /\ status[o] = "PENDING" /\ o \notin due
    /\ Start(w, o, "reconcile", "query")
    /\ UNCHANGED <<orderVars, providerVars, effectVars>>

\* VerifyOrderByOutTradeNo
VerifyOrder(w, o) ==
    /\ status[o] \in {"PENDING", "EXPIRED"}
    /\ Start(w, o, "reconcile", "query")
    /\ UNCHANGED <<orderVars, providerVars, effectVars>>

\* Mutant: only FAILED orders can be retried.
RetryFulfillment_OnlyFailed(w, o) ==
    /\ OrderType[o] # "legacy"
    /\ o \in paidAt
    /\ status[o] = "FAILED"
    /\ Start(w, o, "retry", "reset")
    /\ UNCHANGED <<orderVars, providerVars, effectVars>>

\* RetryFulfillment: the checks
RetryFulfillment(w, o) ==
    /\ OrderType[o] # "legacy"
    /\ o \in paidAt
    /\ status[o] \in {"FAILED", "PAID"}
    /\ Start(w, o, "retry", "reset")
    /\ UNCHANGED <<orderVars, providerVars, effectVars>>

\* RetryFulfillment: the reset; the number of rows it changed is not looked at.
ResetForRetry(w) ==
    /\ pc[w] = "reset"
    /\ \/ /\ NoFault
          /\ IF status[ord[w]] \in {"FAILED", "PAID"}
             THEN SetStatus(ord[w], "PAID") ELSE UNCHANGED orderVars
          /\ Go(w, "fulfil")
       \/ Fault /\ UNCHANGED orderVars /\ Go(w, "idle")
    /\ UNCHANGED <<providerVars, effectVars>>

-----------------------------------------------------------------------------
(* checkPaid, reconcilePaid and cancelCore                                 *)

\* checkPaidWithOptions: query the provider.  A paid order may get its upstream
\* trade number stored, which stamps updated_at.  When the query fails, or says
\* unpaid, a cancelling caller goes on to close the order.
QueryUpstream(w) ==
    LET o == ord[w]
        afterwards == IF entry[w] = "reconcile" THEN "idle" ELSE "close"
    IN  /\ pc[w] = "query"
        /\ \/ /\ paid[o] # "no" /\ NoFault
              /\ UNCHANGED fresh \/ fresh' = fresh \union {o}
              /\ Go(w, "confirm")
              /\ UNCHANGED closed
           \/ /\ paid[o] = "no" /\ NoFault
              /\ \/ UNCHANGED closed
                 \/ entry[w] # "reconcile" /\ closed' = closed \union {o}
              /\ Go(w, afterwards)
              /\ UNCHANGED fresh
           \/ /\ Fault
              /\ Go(w, afterwards)
              /\ UNCHANGED <<fresh, closed>>
        /\ UNCHANGED <<status, paidAt, due, payable, paid, acked, effectVars>>

\* Mutant: the status is written without the condition on PENDING.
CloseOrder_Unconditional(w) ==
    /\ pc[w] = "close"
    /\ NoFault
    /\ SetStatus(ord[w], IF entry[w] = "expire" THEN "EXPIRED" ELSE "CANCELLED")
    /\ Go(w, "idle")
    /\ UNCHANGED <<providerVars, effectVars>>

\* cancelCore: close the order if it is still PENDING.
CloseOrder(w) ==
    LET o == ord[w]
    IN  /\ pc[w] = "close"
        /\ \/ /\ NoFault
              /\ IF status[o] = "PENDING"
                 THEN SetStatus(o, IF entry[w] = "expire" THEN "EXPIRED" ELSE "CANCELLED")
                 ELSE UNCHANGED orderVars
           \/ Fault /\ UNCHANGED orderVars
        /\ Go(w, "idle")
        /\ UNCHANGED <<providerVars, effectVars>>

-----------------------------------------------------------------------------
(* HandlePaymentNotification                                               *)

\* confirmPayment: provider, metadata and amount must match the order.
ConfirmPayment(w) ==
    /\ pc[w] = "confirm"
    /\ \/ /\ NoFault /\ paid[ord[w]] = "match"
          /\ Go(w, "toPaid") /\ UNCHANGED providerVars
       \/ NoFault /\ paid[ord[w]] # "match" /\ Return(w, FALSE)
       \/ Fault /\ Return(w, FALSE)
    /\ UNCHANGED <<orderVars, effectVars>>

\* The condition of toPaid's UPDATE.
AcceptsPayment(o) ==
    \/ status[o] \in {"PENDING", "CANCELLED"}
    \/ status[o] = "EXPIRED" /\ o \in fresh

ToPaid(w) ==
    LET o == ord[w]
    IN  /\ pc[w] = "toPaid"
        /\ \/ /\ NoFault /\ AcceptsPayment(o)
              /\ status' = [status EXCEPT ![o] = "PAID"]
              /\ paidAt' = paidAt \union {o}
              /\ fresh' = fresh \union {o}
              /\ Go(w, "fulfil") /\ UNCHANGED <<due, providerVars>>
           \/ /\ NoFault /\ ~AcceptsPayment(o)
              /\ Go(w, "already") /\ UNCHANGED <<orderVars, providerVars>>
           \/ Fault /\ Return(w, FALSE) /\ UNCHANGED orderVars
        /\ UNCHANGED effectVars

\* alreadyProcessed: a failing read counts as processed.
AlreadyProcessed(w) ==
    LET s == status[ord[w]]
    IN  /\ pc[w] = "already"
        /\ \/ /\ NoFault /\ s = "FAILED"
              /\ Go(w, "fulfil") /\ UNCHANGED providerVars
           \/ NoFault /\ s \in {"PAID", "RECHARGING"} /\ Return(w, FALSE)
           \/ NoFault /\ s \notin {"FAILED", "PAID", "RECHARGING"} /\ Return(w, TRUE)
           \/ Fault /\ Return(w, TRUE)
        /\ UNCHANGED <<orderVars, effectVars>>

-----------------------------------------------------------------------------
(* Fulfilment                                                              *)

\* rejectUnsupportedOrderType; its own failure is only logged.
RejectUnsupported(w) ==
    LET o == ord[w]
    IN  /\ pc[w] = "fulfil" /\ OrderType[o] = "legacy"
        /\ \/ /\ NoFault
              /\ IF status[o] \in {"PAID", "RECHARGING"}
                 THEN SetStatus(o, "FAILED") ELSE UNCHANGED orderVars
           \/ Fault /\ UNCHANGED orderVars
        /\ Return(w, TRUE)
        /\ UNCHANGED effectVars

\* executeFulfillment, then the status checks of ExecuteBalanceFulfillment and
\* ExecuteSubscriptionFulfillment.
ExecuteFulfillment(w) ==
    LET o == ord[w]
    IN  /\ pc[w] = "fulfil" /\ OrderType[o] # "legacy"
        /\ \/ /\ NoFault /\ status[o] \in {"PAID", "FAILED"}
              /\ Go(w, "lock") /\ UNCHANGED providerVars
           \/ NoFault /\ status[o] = "COMPLETED" /\ Return(w, TRUE)
           \/ NoFault /\ status[o] \notin {"PAID", "FAILED", "COMPLETED"} /\ Return(w, FALSE)
           \/ Fault /\ Return(w, FALSE)
        /\ UNCHANGED <<orderVars, effectVars>>

\* Mutant: the update is not conditional on the status.
LockOrder_Unconditional(w) ==
    /\ pc[w] = "lock"
    /\ NoFault /\ SetStatus(ord[w], "RECHARGING")
    /\ Go(w, IF OrderType[ord[w]] = "subscription" THEN "group" ELSE "lookup")
    /\ UNCHANGED <<providerVars, effectVars>>

\* The UPDATE that takes the order: PAID or FAILED to RECHARGING.
LockOrder(w) ==
    LET o == ord[w]
    IN  /\ pc[w] = "lock"
        /\ \/ /\ NoFault /\ status[o] \in {"PAID", "FAILED"}
              /\ SetStatus(o, "RECHARGING")
              /\ Go(w, IF OrderType[o] = "subscription" THEN "group" ELSE "lookup")
              /\ UNCHANGED providerVars
           \/ /\ NoFault /\ status[o] \notin {"PAID", "FAILED"}
              /\ Return(w, TRUE) /\ UNCHANGED orderVars
           \/ Fault /\ Return(w, FALSE) /\ UNCHANGED orderVars
        /\ UNCHANGED effectVars

\* Mutant: an existing code counts as redeemed.
LookupCode_ExistingIsUsed(w) ==
    /\ pc[w] = "lookup"
    /\ \/ NoFault /\ Go(w, IF code[ord[w]] = "none" THEN "createCode" ELSE "rebate")
       \/ Fault /\ Go(w, "createCode")
    /\ UNCHANGED <<orderVars, providerVars, effectVars>>

\* doBalance, resolveRedeemAction: a failing lookup counts as "no such code".
LookupCode(w) ==
    /\ pc[w] = "lookup"
    /\ \/ /\ NoFault
          /\ Go(w, CASE code[ord[w]] = "used"   -> "rebate"
                     [] code[ord[w]] = "unused" -> "redeem"
                     [] OTHER                   -> "createCode")
       \/ Fault /\ Go(w, "createCode")
    /\ UNCHANGED <<orderVars, providerVars, effectVars>>

\* CreateCode: the code column is unique, a second insert fails.
CreateCode(w) ==
    LET o == ord[w]
    IN  /\ pc[w] = "createCode"
        /\ \/ /\ code[o] = "none"
              /\ code' = [code EXCEPT ![o] = "unused"]
              /\ \/ NoFault /\ Go(w, "redeem")
                 \/ LateFault(ord[w]) /\ Go(w, "markFailed")
           \/ NoFault /\ code[o] # "none" /\ UNCHANGED code /\ Go(w, "markFailed")
           \/ Fault /\ UNCHANGED code /\ Go(w, "markFailed")
        /\ UNCHANGED <<orderVars, providerVars, credit, grants, logged, rebates>>

\* Mutant: the balance is added and the code stays unused.
Redeem_CodeStaysUnused(w) ==
    LET Use == code[ord[w]] = "unused" /\ credit' = [credit EXCEPT ![ord[w]] = @ + 1]
    IN  /\ pc[w] = "redeem"
        /\ \/ NoFault /\ Use /\ Go(w, "rebate")
           \/ LateFault(ord[w]) /\ Use /\ Go(w, "markFailed")
        /\ UNCHANGED <<orderVars, providerVars, code, grants, logged, rebates>>

\* Redeem: the transaction uses the code and adds the balance.  It may refuse
\* (rate limit, lock, error); the read after the commit may fail too.
Redeem(w) ==
    LET o == ord[w]
        Use == /\ code[o] = "unused"
               /\ code' = [code EXCEPT ![o] = "used"]
               /\ credit' = [credit EXCEPT ![o] = @ + 1]
    IN  /\ pc[w] = "redeem"
        /\ \/ NoFault /\ Use /\ Go(w, "rebate")
           \/ LateFault(ord[w]) /\ Use /\ Go(w, "markFailed")
           \/ NoFault /\ code[o] # "unused" /\ UNCHANGED <<code, credit>> /\ Go(w, "markFailed")
           \/ Fault /\ UNCHANGED <<code, credit>> /\ Go(w, "markFailed")
        /\ UNCHANGED <<orderVars, providerVars, grants, logged, rebates>>

\* Mutant: the days are taken as granted without looking.
CheckGroupAndLog_Skip(w) ==
    /\ pc[w] = "group"
    /\ NoFault /\ Go(w, "rebate")
    /\ UNCHANGED <<orderVars, providerVars, effectVars>>

\* doSub: the group must be active; then hasAuditLog, which hides its errors.
CheckGroupAndLog(w) ==
    /\ pc[w] = "group"
    /\ \/ NoFault /\ Go(w, IF ord[w] \in logged THEN "rebate" ELSE "assign")
       \/ LateFault(ord[w]) /\ Go(w, "assign")
       \/ Fault /\ Go(w, "markFailed")
    /\ UNCHANGED <<orderVars, providerVars, effectVars>>

\* AssignOrExtendSubscription: one transaction, for a renewal followed by a read.
AssignSubscription(w) ==
    LET Grant == grants' = [grants EXCEPT ![ord[w]] = @ + 1]
    IN  /\ pc[w] = "assign"
        /\ \/ NoFault /\ Grant /\ Go(w, "writeLog")
           \/ LateFault(ord[w]) /\ Grant /\ Go(w, "markFailed")
           \/ Fault /\ UNCHANGED grants /\ Go(w, "markFailed")
        /\ UNCHANGED <<orderVars, providerVars, code, credit, logged, rebates>>

\* Mutant: the grant is not recorded before the rebate.
WriteAssignedLog_Dropped(w) ==
    /\ pc[w] = "writeLog"
    /\ NoFault /\ Go(w, "rebate")
    /\ UNCHANGED <<orderVars, providerVars, effectVars>>

\* writeAuditLog SUBSCRIPTION_ASSIGNED: a failure is logged and forgotten.
WriteAssignedLog(w) ==
    /\ pc[w] = "writeLog"
    /\ \/ NoFault /\ logged' = logged \union {ord[w]}
       \/ LateFault(ord[w]) /\ UNCHANGED logged
    /\ Go(w, "rebate")
    /\ UNCHANGED <<orderVars, providerVars, code, credit, grants, rebates>>

\* applyAffiliateRebateForOrder: claim, accrue and audit in one transaction; the
\* claim inserts only if the order has no settled rebate.  An order without a base
\* amount is not looked up at all.
ApplyRebate(w) ==
    LET o == ord[w]
        Settle == rebates[o] = 0 /\ rebates' = [rebates EXCEPT ![o] = @ + 1]
    IN  /\ pc[w] = "rebate"
        /\ \/ NoFault /\ o \in Rebated /\ Settle /\ Go(w, "complete")
           \/ LateFault(ord[w]) /\ o \in Rebated /\ Settle /\ Go(w, "markFailed")
           \/ /\ NoFault /\ (o \in Rebated => rebates[o] # 0)
              /\ UNCHANGED rebates /\ Go(w, "complete")
           \/ Fault /\ o \in Rebated /\ UNCHANGED rebates /\ Go(w, "markFailed")
        /\ UNCHANGED <<orderVars, providerVars, code, credit, grants, logged>>

\* markCompleted: RECHARGING to COMPLETED, then the success audit row, whose
\* failure is not noticed.  When the update is made and its answer lost, there is
\* no audit row and the order, COMPLETED already, goes through markFailed.
MarkCompleted(w) ==
    LET o == ord[w]
        isSub == OrderType[o] = "subscription"
    IN  /\ pc[w] = "complete"
        /\ \/ /\ IF status[o] = "RECHARGING"
                 THEN SetStatus(o, "COMPLETED") ELSE UNCHANGED orderVars
              /\ \/ /\ \/ NoFault /\ logged' = IF isSub THEN logged \union {o} ELSE logged
                       \/ LateFault(ord[w]) /\ isSub /\ UNCHANGED logged
                    /\ Return(w, TRUE)
                 \/ LateFault(ord[w]) /\ UNCHANGED <<logged, providerVars>> /\ Go(w, "markFailed")
           \/ /\ Fault /\ Go(w, "markFailed")
              /\ UNCHANGED <<orderVars, providerVars, logged>>
        /\ UNCHANGED <<code, credit, grants, rebates>>

\* Mutant: FAILED is written whatever the status is.
MarkFailed_Unconditional(w) ==
    /\ pc[w] = "markFailed"
    /\ \/ NoFault /\ SetStatus(ord[w], "FAILED")
       \/ Fault /\ UNCHANGED orderVars
    /\ Return(w, FALSE)
    /\ UNCHANGED effectVars

\* markFailed: RECHARGING to FAILED; a failing update is only logged.
MarkFailed(w) ==
    LET o == ord[w]
    IN  /\ pc[w] = "markFailed"
        /\ \/ /\ NoFault
              /\ IF status[o] = "RECHARGING"
                 THEN SetStatus(o, "FAILED") ELSE UNCHANGED orderVars
           \/ Fault /\ UNCHANGED orderVars
        /\ Return(w, FALSE)
        /\ UNCHANGED effectVars

-----------------------------------------------------------------------------
(* Environment                                                             *)

\* The user pays what the provider shows; a wrong amount or merchant account is
\* the provider's to report and confirmPayment's to refuse.
UserPays(o) ==
    /\ o \in payable /\ o \notin closed /\ paid[o] = "no"
    /\ \E p \in {"match", "mismatch"} : paid' = [paid EXCEPT ![o] = p]
    /\ UNCHANGED <<orderVars, payable, closed, acked, effectVars, pc, ord, entry, faults, late>>

\* expires_at passes.
OrderComesDue(o) ==
    /\ status[o] = "PENDING" /\ o \notin due
    /\ due' = due \union {o}
    /\ UNCHANGED <<status, paidAt, fresh, providerVars, effectVars, pc, ord, entry, faults, late>>

\* paymentGraceMinutes pass without an update of an expired order.
GracePasses(o) ==
    /\ status[o] = "EXPIRED" /\ o \in fresh
    /\ fresh' = fresh \ {o}
    /\ UNCHANGED <<status, paidAt, due, providerVars, effectVars, pc, ord, entry, faults, late>>

\* The refund operations, seen from here: they take completed orders and keep
\* them among the refund statuses or put them back to COMPLETED.
RefundStep(o) ==
    /\ status[o] \in {"COMPLETED"} \union RefundStatuses
    /\ \E s \in ({"COMPLETED"} \union RefundStatuses) \ {status[o]} : SetStatus(o, s)
    /\ UNCHANGED <<providerVars, effectVars, pc, ord, entry, faults, late>>

\* The worker's process dies, or its request context is cancelled.
Abandon(w) ==
    /\ pc[w] # "idle"
    /\ Fault
    /\ Go(w, "idle")
    /\ UNCHANGED <<orderVars, providerVars, effectVars>>

-----------------------------------------------------------------------------
Enter(w, o) ==
    \/ HandleNotify(w, o) \/ CancelOrder(w, o) \/ ExpireTimedOutOrder(w, o)
    \/ ReconcilePendingOrder(w, o) \/ VerifyOrder(w, o) \/ RetryFulfillment(w, o)

\* A started handler runs on.
Continue(w) ==
    \/ InsertOrder(w) \/ InvokeProvider(w) \/ FailOrder(w)
    \/ ResetForRetry(w) \/ QueryUpstream(w) \/ CloseOrder(w)
    \/ ConfirmPayment(w) \/ ToPaid(w) \/ AlreadyProcessed(w)
    \/ RejectUnsupported(w) \/ ExecuteFulfillment(w) \/ LockOrder(w)
    \/ LookupCode(w) \/ CreateCode(w) \/ Redeem(w)
    \/ CheckGroupAndLog(w) \/ AssignSubscription(w) \/ WriteAssignedLog(w)
    \/ ApplyRebate(w) \/ MarkCompleted(w) \/ MarkFailed(w)

Environment(o) == UserPays(o) \/ OrderComesDue(o) \/ GracePasses(o) \/ RefundStep(o)

Next ==
    \/ \E w \in Workers, o \in Orders : CheckPendingLimit(w, o) \/ Enter(w, o)
    \/ \E w \in Workers : Continue(w) \/ Abandon(w)
    \/ \E o \in Orders : Environment(o)

Spec == Init /\ [][Next]_vars

-----------------------------------------------------------------------------
(* Safety                                                                  *)

Delivered(o) == status[o] \in {"COMPLETED"} \union RefundStatuses

\* Between LockOrder and the write that ends it, the order is RECHARGING and
\* belongs to one worker: webhook retries, the expiry job, a verification by the
\* user and the administrator's retry never fulfil the same order together.  The
\* one worker that can be found there when the order is no longer RECHARGING is at
\* markFailed after the answer to its own update to COMPLETED was lost: then the
\* order is completed (or being refunded), nobody else can fulfil it again, and
\* markFailed's condition leaves it alone.
FulfillmentExclusive ==
    \A w \in Workers : pc[w] \in Section =>
        /\ \/ status[ord[w]] = "RECHARGING"
           \/ pc[w] = "markFailed" /\ Delivered(ord[w])
        /\ \A v \in Workers \ {w} : pc[v] \in Section => ord[v] # ord[w]

\* However often a payment is notified, retried or re-run after a failure, the
\* balance gets the order's amount at most once, and only for a payment that
\* matches the order.
CreditedOnceForPayment ==
    \A o \in Orders : credit[o] > 0 => credit[o] = 1 /\ paid[o] = "match"

\* An order is shown as COMPLETED (and becomes refundable) only after its goods
\* were delivered and its inviter's rebate, if it has one, was settled, once.
CompletedIsDelivered ==
    \A o \in Orders : Delivered(o) =>
        /\ paid[o] = "match"
        /\ rebates[o] = IF o \in Rebated THEN 1 ELSE 0
        /\ CASE OrderType[o] = "balance" -> credit[o] = 1
             [] OrderType[o] = "subscription" -> grants[o] >= 1
             [] OTHER -> FALSE

\* Subscription days are granted once per order, and once more at most for each call
\* for it that failed after its effect or unseen.  The grant and the audit row that
\* tells a retry about it are written by two statements and looked up by a third: an
\* error that is reported before the effect, a retry, or a handler that stops between
\* them never costs a second grant.
GrantedOnce == \A o \in Orders : grants[o] <= 1 + late[o]

\* A webhook is answered with 2xx only when the order is no longer PENDING or
\* CANCELLED, where a later delivery would still turn it to PAID.  An EXPIRED order
\* is left out: it accepts the payment within the grace period only, and a delivery
\* after it is answered with 2xx.
AckedIsTaken ==
    \A o \in Orders : o \in acked => status[o] \notin {"NONE", "PENDING", "CANCELLED"}

\* An order that was paid never waits for payment again and never counts as
\* cancelled or expired, whatever a cancellation or the expiry job that read it
\* earlier still writes; a completed order is left only by a refund.
PaidStaysPaid ==
    [][\A o \in Orders :
        /\ o \in paidAt => o \in paidAt' /\ status'[o] \notin {"NONE", "PENDING", "CANCELLED", "EXPIRED"}
        /\ Delivered(o) => status'[o] \in {"COMPLETED"} \union RefundStatuses]_vars

\* A RECHARGING order that nobody works on: a worker stopped in the section, or
\* the write that should have ended it failed.
Orphaned(o) ==
    /\ status[o] = "RECHARGING"
    /\ \A w \in Workers : pc[w] \in Section => ord[w] # o

BalanceOrders == {o \in Orders : OrderType[o] = "balance"}

Promise == INSTANCE PaymentPromise WITH
    Orders <- BalanceOrders,
    paid <- [o \in BalanceOrders |-> paid[o]],
    delivered <- [o \in BalanceOrders |-> credit[o]],
    completed <- {o \in BalanceOrders : Delivered(o)}

\* For balance orders the whole machinery implements the promise to the buyer.
KeepsPromise == Promise!Spec

-----------------------------------------------------------------------------
(* Liveness                                                                *)

\* Handlers that started run on, time passes, and the provider repeats a
\* notification until it is acknowledged.
Fairness ==
    /\ \A w \in Workers : WF_vars(Continue(w))
    /\ \A o \in Orders : WF_vars(GracePasses(o))
    /\ \A o \in Orders : SF_vars(o \notin acked /\ \E w \in Workers : HandleNotify(w, o))

FairSpec == Spec /\ Fairness

\* The administrator retries an order that stays PAID or FAILED.
AdminFairness == \A o \in Orders : SF_vars(\E w \in Workers : RetryFulfillment(w, o))

AttendedSpec == FairSpec /\ AdminFairness

LateForGrace(o) == status[o] = "EXPIRED" /\ o \notin fresh

\* A matching payment is delivered, unless the order expired and no notification
\* arrived within the grace period, or the fulfilment was orphaned by a failure.
\* No other outcome (an order left PAID or FAILED, or closed behind the payer's
\* back) is final.
PaidIsDelivered ==
    \A o \in Orders :
        (paid[o] = "match" /\ OrderType[o] # "legacy")
            ~> (Delivered(o) \/ LateForGrace(o) \/ Orphaned(o))
=============================================================================
