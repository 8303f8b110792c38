---------------------- MODULE PaymentFulfillment_proofs ----------------------
(* Proofs about PaymentFulfillment, for any sets of orders and workers, any *)
(* limits and any number of failures.                                       *)
EXTENDS PaymentFulfillment, TLAPS

\* Every field keeps its type: statuses and program points stay within the ones
\* the handlers know.
THEOREM TypeCorrect == Spec => []TypeOK
<1>1. Init => TypeOK
  BY TypeAssumption, BoundAssumption
  DEF Init, TypeOK, Statuses, PCs, Entries
<1>2. TypeOK /\ [Next]_vars => TypeOK'
  <2> SUFFICES ASSUME TypeOK, [Next]_vars PROVE TypeOK'
    OBVIOUS
  <2> USE DEF TypeOK, Statuses, RefundStatuses, PCs, Confirmed, Section, BalanceSteps,
              GrantSteps, Entries, orderVars, providerVars, effectVars,
              Fault, NoFault, LateFault, Start, Go, Return, SetStatus
  <2>1. ASSUME NEW w \in Workers, NEW o \in Orders, CheckPendingLimit(w, o) \/ Enter(w, o)
        PROVE  TypeOK'
    <3>1. /\ UNCHANGED <<orderVars, providerVars, effectVars, faults, late>>
          /\ \E first \in PCs : pc' = [pc EXCEPT ![w] = first]
          /\ ord' = [ord EXCEPT ![w] = o]
          /\ \E e \in Entries : entry' = [entry EXCEPT ![w] = e]
      BY <2>1 DEF CheckPendingLimit, Enter, HandleNotify, CancelOrder, ExpireTimedOutOrder,
                  ReconcilePendingOrder, VerifyOrder, RetryFulfillment
    <3>2. QED
      BY <3>1
  <2>2. ASSUME NEW w \in Workers, InsertOrder(w) \/ InvokeProvider(w) \/ FailOrder(w)
        PROVE  TypeOK'
    BY <2>2 DEF InsertOrder, InvokeProvider, FailOrder
  <2>3. ASSUME NEW w \in Workers, ResetForRetry(w) \/ QueryUpstream(w) \/ CloseOrder(w)
        PROVE  TypeOK'
    BY <2>3 DEF ResetForRetry, QueryUpstream, CloseOrder
  <2>4. ASSUME NEW w \in Workers, ConfirmPayment(w) \/ ToPaid(w) \/ AlreadyProcessed(w)
        PROVE  TypeOK'
    BY <2>4 DEF ConfirmPayment, ToPaid, AlreadyProcessed
  <2>5. ASSUME NEW w \in Workers, RejectUnsupported(w) \/ ExecuteFulfillment(w) \/ LockOrder(w)
        PROVE  TypeOK'
    BY <2>5 DEF RejectUnsupported, ExecuteFulfillment, LockOrder
  <2>6. ASSUME NEW w \in Workers, LookupCode(w) \/ CreateCode(w) \/ Redeem(w)
        PROVE  TypeOK'
    BY <2>6 DEF LookupCode, CreateCode, Redeem
  <2>7. ASSUME NEW w \in Workers,
               CheckGroupAndLog(w) \/ AssignSubscription(w) \/ WriteAssignedLog(w)
        PROVE  TypeOK'
    BY <2>7 DEF CheckGroupAndLog, AssignSubscription, WriteAssignedLog
  <2>8. ASSUME NEW w \in Workers, ApplyRebate(w) \/ MarkCompleted(w) \/ MarkFailed(w)
        PROVE  TypeOK'
    BY <2>8 DEF ApplyRebate, MarkCompleted, MarkFailed
  <2>9. ASSUME NEW w \in Workers, Abandon(w) PROVE TypeOK'
    BY <2>9 DEF Abandon
  <2>10. ASSUME NEW o \in Orders, Environment(o) PROVE TypeOK'
    BY <2>10 DEF Environment, UserPays, OrderComesDue, GracePasses, RefundStep
  <2>11. CASE UNCHANGED vars
    BY <2>11 DEF vars
  <2>12. QED
    BY <2>1, <2>2, <2>3, <2>4, <2>5, <2>6, <2>7, <2>8, <2>9, <2>10, <2>11 DEF Next, Continue
<1>3. QED
  BY <1>1, <1>2, PTL DEF Spec

-----------------------------------------------------------------------------
(* The inductive invariant.                                                 *)

Creating == {"insert", "invoke", "invokeFailed"}

\* A CreateOrder call that may still write FAILED over the order is the only one
\* for it, and nobody can have paid the order yet.
CreatorInv ==
    \A w \in Workers : pc[w] \in Creating =>
        /\ ord[w] \notin payable
        /\ pc[w] = "insert" <=> status[ord[w]] = "NONE"
        /\ \A v \in Workers \ {w} : pc[v] \in Creating => ord[v] # ord[w]

\* What the statuses say about the payment.
PaymentInv ==
    /\ \A o \in Orders :
        /\ o \in payable => status[o] # "NONE"
        /\ paid[o] # "no" => o \in payable
        /\ paid[o] # "match" =>
              o \notin paidAt /\ status[o] \in {"NONE", "PENDING", "CANCELLED", "EXPIRED", "FAILED"}
        /\ o \in paidAt => status[o] \notin {"NONE", "PENDING", "CANCELLED", "EXPIRED"}
    /\ \A w \in Workers :
        /\ pc[w] \in Confirmed => paid[ord[w]] = "match"
        /\ pc[w] \in Confirmed \ {"toPaid"} =>
              status[ord[w]] \notin {"NONE", "PENDING", "CANCELLED"}
        /\ pc[w] \in Section \union {"lock"} => OrderType[ord[w]] # "legacy"

\* The goods of an order were handed over.
HasGoods(o) ==
    \/ OrderType[o] = "balance" /\ code[o] = "used"
    \/ OrderType[o] = "subscription" /\ grants[o] >= 1

\* How often the inviter's rebate is due for the order.
Due(o) == IF o \in Rebated THEN 1 ELSE 0

\* The redeem code and the audit row tell the truth about what was delivered.
EffectInv ==
    /\ \A o \in Orders :
        /\ credit[o] = IF code[o] = "used" THEN 1 ELSE 0
        /\ code[o] = "used" => paid[o] = "match"
        /\ o \in logged => grants[o] >= 1
        /\ grants[o] > 0 => OrderType[o] = "subscription"
        /\ Delivered(o) => HasGoods(o) /\ rebates[o] = Due(o)
        /\ rebates[o] \in {0, Due(o)}
    /\ \A w \in Workers :
        /\ pc[w] \in BalanceSteps => OrderType[ord[w]] = "balance"
        /\ pc[w] \in GrantSteps => OrderType[ord[w]] = "subscription"
        /\ pc[w] = "writeLog" => grants[ord[w]] >= 1
        /\ pc[w] \in {"rebate", "complete"} => HasGoods(ord[w])
        /\ pc[w] = "complete" => rebates[ord[w]] = Due(ord[w])

IndInv ==
    /\ TypeOK
    /\ CreatorInv
    /\ PaymentInv
    /\ FulfillmentExclusive
    /\ EffectInv
    /\ AckedIsTaken

\* The latest grant of an order has its audit row, or the order is held by the worker
\* about to write the row, or is held for ever: nobody will look for the missing row.
Recorded(o) ==
    \/ o \in logged
    \/ /\ status[o] = "RECHARGING"
       /\ \A w \in Workers : (pc[w] \in Section /\ ord[w] = o) => pc[w] = "writeLog"

\* Grants that are not recorded have a late failure each, and so has whoever is about
\* to grant for every grant before.
GrantInv ==
    /\ \A o \in Orders :
        /\ grants[o] <= 1 + late[o]
        /\ ~Recorded(o) => grants[o] <= late[o]
    /\ \A w \in Workers : pc[w] = "assign" => grants[ord[w]] <= late[ord[w]]
-----------------------------------------------------------------------------
(* One lemma per conjunct: every step keeps it.                             *)

\* Creations stay apart: a row is inserted by one call, and payable only after it.
LEMMA CreatorStep ==
    ASSUME IndInv, [Next]_vars
    PROVE  CreatorInv'
<1> USE DEF IndInv, TypeOK, CreatorInv, PaymentInv, Creating
<1> USE DEF RefundStatuses, Confirmed, Section, BalanceSteps, GrantSteps, orderVars,
            providerVars, effectVars, Fault, NoFault, LateFault, Start, Go, Return, SetStatus
<1>1. ASSUME NEW w \in Workers, NEW o \in Orders, CheckPendingLimit(w, o) \/ Enter(w, o)
      PROVE CreatorInv'
  BY <1>1 DEF CheckPendingLimit, Enter, HandleNotify, CancelOrder, ExpireTimedOutOrder,
               ReconcilePendingOrder, VerifyOrder, RetryFulfillment
<1>2. ASSUME NEW w \in Workers, InsertOrder(w) \/ InvokeProvider(w) \/ FailOrder(w)
      PROVE CreatorInv'
  BY <1>2 DEF InsertOrder, InvokeProvider, FailOrder
<1>3. ASSUME NEW w \in Workers, ResetForRetry(w) \/ QueryUpstream(w) \/ CloseOrder(w)
      PROVE CreatorInv'
  BY <1>3 DEF ResetForRetry, QueryUpstream, CloseOrder
<1>4. ASSUME NEW w \in Workers, ConfirmPayment(w) \/ ToPaid(w) \/ AlreadyProcessed(w)
      PROVE CreatorInv'
  BY <1>4 DEF ConfirmPayment, ToPaid, AlreadyProcessed, AcceptsPayment
<1>5. ASSUME NEW w \in Workers, RejectUnsupported(w) \/ ExecuteFulfillment(w)
      PROVE CreatorInv'
  BY <1>5 DEF RejectUnsupported, ExecuteFulfillment
<1>6. ASSUME NEW w \in Workers, LockOrder(w) PROVE CreatorInv'
  BY <1>6 DEF LockOrder
<1>7. ASSUME NEW w \in Workers, LookupCode(w) \/ CreateCode(w) \/ Redeem(w)
      PROVE CreatorInv'
  BY <1>7 DEF LookupCode, CreateCode, Redeem
<1>8. ASSUME NEW w \in Workers, CheckGroupAndLog(w) \/ AssignSubscription(w) \/ WriteAssignedLog(w)
      PROVE CreatorInv'
  BY <1>8 DEF CheckGroupAndLog, AssignSubscription, WriteAssignedLog
<1>9. ASSUME NEW w \in Workers, ApplyRebate(w) \/ MarkCompleted(w) \/ MarkFailed(w)
      PROVE CreatorInv'
  BY <1>9 DEF ApplyRebate, MarkCompleted, MarkFailed
<1>10. ASSUME NEW w \in Workers, Abandon(w) PROVE CreatorInv'
  BY <1>10 DEF Abandon
<1>11. ASSUME NEW o \in Orders, Environment(o) PROVE CreatorInv'
  BY <1>11 DEF Environment, UserPays, OrderComesDue, GracePasses, RefundStep
<1>12. CASE UNCHANGED vars
  BY <1>12 DEF vars
<1>13. QED
  BY <1>1, <1>2, <1>3, <1>4, <1>5, <1>6, <1>7, <1>8, <1>9, <1>10, <1>11, <1>12
  DEF Next, Continue

\* Statuses keep agreeing with what the provider knows of the payment.
LEMMA PaymentStep ==
    ASSUME IndInv, [Next]_vars
    PROVE  PaymentInv'
<1> USE DEF IndInv, TypeOK, CreatorInv, PaymentInv, FulfillmentExclusive, Creating, Delivered
<1> USE DEF RefundStatuses, Confirmed, Section, BalanceSteps, GrantSteps, orderVars,
            providerVars, effectVars, Fault, NoFault, LateFault, Start, Go, Return, SetStatus
<1>1. ASSUME NEW w \in Workers, NEW o \in Orders, CheckPendingLimit(w, o) \/ Enter(w, o)
      PROVE PaymentInv'
  BY <1>1 DEF CheckPendingLimit, Enter, HandleNotify, CancelOrder, ExpireTimedOutOrder,
               ReconcilePendingOrder, VerifyOrder, RetryFulfillment
<1>2. ASSUME NEW w \in Workers, InsertOrder(w) \/ InvokeProvider(w) \/ FailOrder(w)
      PROVE PaymentInv'
  BY <1>2 DEF InsertOrder, InvokeProvider, FailOrder
<1>3. ASSUME NEW w \in Workers, ResetForRetry(w) \/ QueryUpstream(w) \/ CloseOrder(w)
      PROVE PaymentInv'
  BY <1>3 DEF ResetForRetry, QueryUpstream, CloseOrder
<1>4. ASSUME NEW w \in Workers, ConfirmPayment(w) \/ ToPaid(w) \/ AlreadyProcessed(w)
      PROVE PaymentInv'
  BY <1>4 DEF ConfirmPayment, ToPaid, AlreadyProcessed, AcceptsPayment
<1>5. ASSUME NEW w \in Workers, RejectUnsupported(w) \/ ExecuteFulfillment(w)
      PROVE PaymentInv'
  BY <1>5 DEF RejectUnsupported, ExecuteFulfillment
<1>6. ASSUME NEW w \in Workers, LockOrder(w) PROVE PaymentInv'
  BY <1>6 DEF LockOrder
<1>7. ASSUME NEW w \in Workers, LookupCode(w) \/ CreateCode(w) \/ Redeem(w)
      PROVE PaymentInv'
  BY <1>7 DEF LookupCode, CreateCode, Redeem
<1>8. ASSUME NEW w \in Workers, CheckGroupAndLog(w) \/ AssignSubscription(w) \/ WriteAssignedLog(w)
      PROVE PaymentInv'
  BY <1>8 DEF CheckGroupAndLog, AssignSubscription, WriteAssignedLog
<1>9. ASSUME NEW w \in Workers, ApplyRebate(w) \/ MarkCompleted(w) \/ MarkFailed(w)
      PROVE PaymentInv'
  BY <1>9 DEF ApplyRebate, MarkCompleted, MarkFailed
<1>10. ASSUME NEW w \in Workers, Abandon(w) PROVE PaymentInv'
  BY <1>10 DEF Abandon
<1>11. ASSUME NEW o \in Orders, Environment(o) PROVE PaymentInv'
  BY <1>11 DEF Environment, UserPays, OrderComesDue, GracePasses, RefundStep
<1>12. CASE UNCHANGED vars
  BY <1>12 DEF vars
<1>13. QED
  BY <1>1, <1>2, <1>3, <1>4, <1>5, <1>6, <1>7, <1>8, <1>9, <1>10, <1>11, <1>12
  DEF Next, Continue

\* The UPDATE of LockOrder keeps two workers out of the same order's fulfilment.
LEMMA ExclusiveStep ==
    ASSUME IndInv, [Next]_vars
    PROVE  FulfillmentExclusive'
<1> USE DEF IndInv, TypeOK, CreatorInv, PaymentInv, FulfillmentExclusive, Creating, Delivered
<1> USE DEF RefundStatuses, Confirmed, Section, BalanceSteps, GrantSteps, orderVars,
            providerVars, effectVars, Fault, NoFault, LateFault, Start, Go, Return, SetStatus
<1>1. ASSUME NEW w \in Workers, NEW o \in Orders, CheckPendingLimit(w, o) \/ Enter(w, o)
      PROVE FulfillmentExclusive'
  <2>1. /\ pc' = [pc EXCEPT ![w] = pc'[w]] /\ pc'[w] \notin Section
        /\ ord' = [ord EXCEPT ![w] = o] /\ UNCHANGED status
    BY <1>1 DEF CheckPendingLimit, Enter, HandleNotify, CancelOrder, ExpireTimedOutOrder,
                ReconcilePendingOrder, VerifyOrder, RetryFulfillment
  <2>2. QED
    BY <2>1
<1>2. ASSUME NEW w \in Workers, InsertOrder(w) \/ InvokeProvider(w) \/ FailOrder(w)
      PROVE FulfillmentExclusive'
  BY <1>2 DEF InsertOrder, InvokeProvider, FailOrder
<1>3. ASSUME NEW w \in Workers, ResetForRetry(w) \/ QueryUpstream(w) \/ CloseOrder(w)
      PROVE FulfillmentExclusive'
  BY <1>3 DEF ResetForRetry, QueryUpstream, CloseOrder
<1>4. ASSUME NEW w \in Workers, ConfirmPayment(w) \/ ToPaid(w) \/ AlreadyProcessed(w)
      PROVE FulfillmentExclusive'
  BY <1>4 DEF ConfirmPayment, ToPaid, AlreadyProcessed, AcceptsPayment
<1>5. ASSUME NEW w \in Workers, RejectUnsupported(w) \/ ExecuteFulfillment(w)
      PROVE FulfillmentExclusive'
  BY <1>5 DEF RejectUnsupported, ExecuteFulfillment
<1>6. ASSUME NEW w \in Workers, LockOrder(w) PROVE FulfillmentExclusive'
  BY <1>6 DEF LockOrder
<1>7. ASSUME NEW w \in Workers, LookupCode(w) \/ CreateCode(w) \/ Redeem(w)
      PROVE FulfillmentExclusive'
  BY <1>7 DEF LookupCode, CreateCode, Redeem
<1>8. ASSUME NEW w \in Workers, CheckGroupAndLog(w) \/ AssignSubscription(w) \/ WriteAssignedLog(w)
      PROVE FulfillmentExclusive'
  BY <1>8 DEF CheckGroupAndLog, AssignSubscription, WriteAssignedLog
<1>9. ASSUME NEW w \in Workers, ApplyRebate(w) \/ MarkCompleted(w) \/ MarkFailed(w)
      PROVE FulfillmentExclusive'
  BY <1>9 DEF ApplyRebate, MarkCompleted, MarkFailed
<1>10. ASSUME NEW w \in Workers, Abandon(w) PROVE FulfillmentExclusive'
  BY <1>10 DEF Abandon
<1>11. ASSUME NEW o \in Orders, Environment(o) PROVE FulfillmentExclusive'
  BY <1>11 DEF Environment, UserPays, OrderComesDue, GracePasses, RefundStep
<1>12. CASE UNCHANGED vars
  BY <1>12 DEF vars
<1>13. QED
  BY <1>1, <1>2, <1>3, <1>4, <1>5, <1>6, <1>7, <1>8, <1>9, <1>10, <1>11, <1>12
  DEF Next, Continue

\* Deliveries stay in step with the redeem code, the audit row and the status.
LEMMA EffectStep ==
    ASSUME IndInv, [Next]_vars
    PROVE  EffectInv'
<1> USE DEF IndInv, TypeOK, CreatorInv, PaymentInv, FulfillmentExclusive, EffectInv, Creating,
            HasGoods, Due, Delivered
<1> USE DEF RefundStatuses, Confirmed, Section, BalanceSteps, GrantSteps, orderVars,
            providerVars, effectVars, Fault, NoFault, LateFault, Start, Go, Return, SetStatus
<1>1. ASSUME NEW w \in Workers, NEW o \in Orders, CheckPendingLimit(w, o) \/ Enter(w, o)
      PROVE EffectInv'
  BY <1>1, TypeAssumption DEF CheckPendingLimit, Enter, HandleNotify, CancelOrder, ExpireTimedOutOrder,
               ReconcilePendingOrder, VerifyOrder, RetryFulfillment
<1>2. ASSUME NEW w \in Workers, InsertOrder(w) \/ InvokeProvider(w) \/ FailOrder(w)
      PROVE EffectInv'
  BY <1>2, TypeAssumption DEF InsertOrder, InvokeProvider, FailOrder
<1>3. ASSUME NEW w \in Workers, ResetForRetry(w) \/ QueryUpstream(w) \/ CloseOrder(w)
      PROVE EffectInv'
  BY <1>3, TypeAssumption DEF ResetForRetry, QueryUpstream, CloseOrder
<1>4. ASSUME NEW w \in Workers, ConfirmPayment(w) \/ ToPaid(w) \/ AlreadyProcessed(w)
      PROVE EffectInv'
  BY <1>4, TypeAssumption DEF ConfirmPayment, ToPaid, AlreadyProcessed, AcceptsPayment
<1>5. ASSUME NEW w \in Workers, RejectUnsupported(w) \/ ExecuteFulfillment(w)
      PROVE EffectInv'
  BY <1>5, TypeAssumption DEF RejectUnsupported, ExecuteFulfillment
<1>6. ASSUME NEW w \in Workers, LockOrder(w) PROVE EffectInv'
  BY <1>6, TypeAssumption DEF LockOrder
<1>7. ASSUME NEW w \in Workers, LookupCode(w) \/ CreateCode(w) \/ Redeem(w)
      PROVE EffectInv'
  BY <1>7, TypeAssumption DEF LookupCode, CreateCode, Redeem
<1>8. ASSUME NEW w \in Workers, CheckGroupAndLog(w) \/ AssignSubscription(w) \/ WriteAssignedLog(w)
      PROVE EffectInv'
  BY <1>8, TypeAssumption DEF CheckGroupAndLog, AssignSubscription, WriteAssignedLog
<1>9. ASSUME NEW w \in Workers, ApplyRebate(w) \/ MarkCompleted(w) \/ MarkFailed(w)
      PROVE EffectInv'
  BY <1>9, TypeAssumption DEF ApplyRebate, MarkCompleted, MarkFailed
<1>10. ASSUME NEW w \in Workers, Abandon(w) PROVE EffectInv'
  BY <1>10, TypeAssumption DEF Abandon
<1>11. ASSUME NEW o \in Orders, Environment(o) PROVE EffectInv'
  BY <1>11, TypeAssumption DEF Environment, UserPays, OrderComesDue, GracePasses, RefundStep
<1>12. CASE UNCHANGED vars
  BY <1>12 DEF vars
<1>13. QED
  BY <1>1, <1>2, <1>3, <1>4, <1>5, <1>6, <1>7, <1>8, <1>9, <1>10, <1>11, <1>12
  DEF Next, Continue

\* An acknowledged order never goes back to waiting for its payment.
LEMMA AckedStep ==
    ASSUME IndInv, [Next]_vars
    PROVE  AckedIsTaken'
<1> USE DEF IndInv, TypeOK, CreatorInv, PaymentInv, AckedIsTaken, Creating
<1> USE DEF RefundStatuses, Confirmed, Section, BalanceSteps, GrantSteps, orderVars,
            providerVars, effectVars, Fault, NoFault, LateFault, Start, Go, Return, SetStatus
<1>1. ASSUME NEW w \in Workers, NEW o \in Orders, CheckPendingLimit(w, o) \/ Enter(w, o)
      PROVE AckedIsTaken'
  BY <1>1 DEF CheckPendingLimit, Enter, HandleNotify, CancelOrder, ExpireTimedOutOrder,
               ReconcilePendingOrder, VerifyOrder, RetryFulfillment
<1>2. ASSUME NEW w \in Workers, InsertOrder(w) \/ InvokeProvider(w) \/ FailOrder(w)
      PROVE AckedIsTaken'
  BY <1>2 DEF InsertOrder, InvokeProvider, FailOrder
<1>3. ASSUME NEW w \in Workers, ResetForRetry(w) \/ QueryUpstream(w) \/ CloseOrder(w)
      PROVE AckedIsTaken'
  BY <1>3 DEF ResetForRetry, QueryUpstream, CloseOrder
<1>4. ASSUME NEW w \in Workers, ConfirmPayment(w) \/ ToPaid(w) \/ AlreadyProcessed(w)
      PROVE AckedIsTaken'
  BY <1>4 DEF ConfirmPayment, ToPaid, AlreadyProcessed, AcceptsPayment
<1>5. ASSUME NEW w \in Workers, RejectUnsupported(w) \/ ExecuteFulfillment(w)
      PROVE AckedIsTaken'
  BY <1>5 DEF RejectUnsupported, ExecuteFulfillment
<1>6. ASSUME NEW w \in Workers, LockOrder(w) PROVE AckedIsTaken'
  BY <1>6 DEF LockOrder
<1>7. ASSUME NEW w \in Workers, LookupCode(w) \/ CreateCode(w) \/ Redeem(w)
      PROVE AckedIsTaken'
  BY <1>7 DEF LookupCode, CreateCode, Redeem
<1>8. ASSUME NEW w \in Workers, CheckGroupAndLog(w) \/ AssignSubscription(w) \/ WriteAssignedLog(w)
      PROVE AckedIsTaken'
  BY <1>8 DEF CheckGroupAndLog, AssignSubscription, WriteAssignedLog
<1>9. ASSUME NEW w \in Workers, ApplyRebate(w) \/ MarkCompleted(w) \/ MarkFailed(w)
      PROVE AckedIsTaken'
  BY <1>9 DEF ApplyRebate, MarkCompleted, MarkFailed
<1>10. ASSUME NEW w \in Workers, Abandon(w) PROVE AckedIsTaken'
  BY <1>10 DEF Abandon
<1>11. ASSUME NEW o \in Orders, Environment(o) PROVE AckedIsTaken'
  BY <1>11 DEF Environment, UserPays, OrderComesDue, GracePasses, RefundStep
<1>12. CASE UNCHANGED vars
  BY <1>12 DEF vars
<1>13. QED
  BY <1>1, <1>2, <1>3, <1>4, <1>5, <1>6, <1>7, <1>8, <1>9, <1>10, <1>11, <1>12
  DEF Next, Continue

\* A grant is recorded before it can be looked for again, or a call failed late.
LEMMA GrantStep ==
    ASSUME IndInv, GrantInv, [Next]_vars
    PROVE  GrantInv'
<1> USE DEF IndInv, TypeOK, CreatorInv, PaymentInv, FulfillmentExclusive, EffectInv, GrantInv, Recorded,
            Creating, Delivered
<1> USE DEF RefundStatuses, Confirmed, Section, BalanceSteps, GrantSteps, orderVars,
            providerVars, effectVars, Fault, NoFault, LateFault, Start, Go, Return, SetStatus
<1>1. ASSUME NEW w \in Workers, NEW o \in Orders, CheckPendingLimit(w, o) \/ Enter(w, o)
      PROVE GrantInv'
  BY <1>1 DEF CheckPendingLimit, Enter, HandleNotify, CancelOrder, ExpireTimedOutOrder,
               ReconcilePendingOrder, VerifyOrder, RetryFulfillment
<1>2. ASSUME NEW w \in Workers, InsertOrder(w) \/ InvokeProvider(w) \/ FailOrder(w)
      PROVE GrantInv'
  BY <1>2 DEF InsertOrder, InvokeProvider, FailOrder
<1>3. ASSUME NEW w \in Workers, ResetForRetry(w) \/ QueryUpstream(w) \/ CloseOrder(w)
      PROVE GrantInv'
  BY <1>3 DEF ResetForRetry, QueryUpstream, CloseOrder
<1>4. ASSUME NEW w \in Workers, ConfirmPayment(w) \/ ToPaid(w) \/ AlreadyProcessed(w)
      PROVE GrantInv'
  BY <1>4 DEF ConfirmPayment, ToPaid, AlreadyProcessed, AcceptsPayment
<1>5. ASSUME NEW w \in Workers, RejectUnsupported(w) \/ ExecuteFulfillment(w)
      PROVE GrantInv'
  BY <1>5 DEF RejectUnsupported, ExecuteFulfillment
<1>6. ASSUME NEW w \in Workers, LockOrder(w) PROVE GrantInv'
  BY <1>6 DEF LockOrder
<1>7. ASSUME NEW w \in Workers, LookupCode(w) \/ CreateCode(w) \/ Redeem(w)
      PROVE GrantInv'
  BY <1>7 DEF LookupCode, CreateCode, Redeem
<1>8. ASSUME NEW w \in Workers, CheckGroupAndLog(w) \/ AssignSubscription(w) \/ WriteAssignedLog(w)
      PROVE GrantInv'
  BY <1>8 DEF CheckGroupAndLog, AssignSubscription, WriteAssignedLog
<1>9. ASSUME NEW w \in Workers, ApplyRebate(w) \/ MarkCompleted(w) \/ MarkFailed(w)
      PROVE GrantInv'
  BY <1>9 DEF ApplyRebate, MarkCompleted, MarkFailed
<1>10. ASSUME NEW w \in Workers, Abandon(w) PROVE GrantInv'
  BY <1>10 DEF Abandon
<1>11. ASSUME NEW o \in Orders, Environment(o) PROVE GrantInv'
  BY <1>11 DEF Environment, UserPays, OrderComesDue, GracePasses, RefundStep
<1>12. CASE UNCHANGED vars
  BY <1>12 DEF vars
<1>13. QED
  BY <1>1, <1>2, <1>3, <1>4, <1>5, <1>6, <1>7, <1>8, <1>9, <1>10, <1>11, <1>12
  DEF Next, Continue

\* PaidStaysPaid, for one step.
PaidStepOK ==
    \A o \in Orders :
        /\ o \in paidAt => o \in paidAt' /\ status'[o] \notin {"NONE", "PENDING", "CANCELLED", "EXPIRED"}
        /\ Delivered(o) => status'[o] \in {"COMPLETED"} \union RefundStatuses

\* A paid order is never closed again and a completed one is left only to a refund.
LEMMA PaidStep ==
    ASSUME IndInv, [Next]_vars
    PROVE  PaidStepOK
<1> USE DEF IndInv, TypeOK, CreatorInv, PaymentInv, FulfillmentExclusive, Creating, Delivered, PaidStepOK
<1> USE DEF RefundStatuses, Confirmed, Section, BalanceSteps, GrantSteps, orderVars,
            providerVars, effectVars, Fault, NoFault, LateFault, Start, Go, Return, SetStatus
<1>1. ASSUME NEW w \in Workers, NEW o \in Orders, CheckPendingLimit(w, o) \/ Enter(w, o)
      PROVE PaidStepOK
  BY <1>1 DEF CheckPendingLimit, Enter, HandleNotify, CancelOrder, ExpireTimedOutOrder,
               ReconcilePendingOrder, VerifyOrder, RetryFulfillment
<1>2. ASSUME NEW w \in Workers, InsertOrder(w) \/ InvokeProvider(w) \/ FailOrder(w)
      PROVE PaidStepOK
  BY <1>2 DEF InsertOrder, InvokeProvider, FailOrder
<1>3. ASSUME NEW w \in Workers, ResetForRetry(w) \/ QueryUpstream(w) \/ CloseOrder(w)
      PROVE PaidStepOK
  BY <1>3 DEF ResetForRetry, QueryUpstream, CloseOrder
<1>4. ASSUME NEW w \in Workers, ConfirmPayment(w) \/ ToPaid(w) \/ AlreadyProcessed(w)
      PROVE PaidStepOK
  BY <1>4 DEF ConfirmPayment, ToPaid, AlreadyProcessed, AcceptsPayment
<1>5. ASSUME NEW w \in Workers, RejectUnsupported(w) \/ ExecuteFulfillment(w)
      PROVE PaidStepOK
  BY <1>5 DEF RejectUnsupported, ExecuteFulfillment
<1>6. ASSUME NEW w \in Workers, LockOrder(w)
      PROVE PaidStepOK
  BY <1>6 DEF LockOrder
<1>7. ASSUME NEW w \in Workers, LookupCode(w) \/ CreateCode(w) \/ Redeem(w)
      PROVE PaidStepOK
  BY <1>7 DEF LookupCode, CreateCode, Redeem
<1>8. ASSUME NEW w \in Workers, CheckGroupAndLog(w) \/ AssignSubscription(w) \/ WriteAssignedLog(w)
      PROVE PaidStepOK
  BY <1>8 DEF CheckGroupAndLog, AssignSubscription, WriteAssignedLog
<1>9. ASSUME NEW w \in Workers, ApplyRebate(w) \/ MarkCompleted(w) \/ MarkFailed(w)
      PROVE PaidStepOK
  BY <1>9 DEF ApplyRebate, MarkCompleted, MarkFailed
<1>10. ASSUME NEW w \in Workers, Abandon(w)
      PROVE PaidStepOK
  BY <1>10 DEF Abandon
<1>11. ASSUME NEW o \in Orders, Environment(o)
      PROVE PaidStepOK
  BY <1>11 DEF Environment, UserPays, OrderComesDue, GracePasses, RefundStep
<1>12. CASE UNCHANGED vars
  BY <1>12 DEF vars
<1>13. QED
  BY <1>1, <1>2, <1>3, <1>4, <1>5, <1>6, <1>7, <1>8, <1>9, <1>10, <1>11, <1>12
  DEF Next, Continue

-----------------------------------------------------------------------------
(* The theorems.                                                            *)

\* The conjuncts together are preserved by every step of every handler.
LEMMA Inductive == Spec => []IndInv
<1>1. Init => IndInv
  BY TypeAssumption, BoundAssumption
  DEF Init, IndInv, TypeOK, Statuses, PCs, Entries, CreatorInv, PaymentInv, EffectInv,
      FulfillmentExclusive, AckedIsTaken, Creating, Confirmed, Section, BalanceSteps,
      GrantSteps, Delivered, Due, RefundStatuses
<1>2. IndInv /\ TypeOK' /\ [Next]_vars => IndInv'
  BY CreatorStep, PaymentStep, ExclusiveStep, EffectStep, AckedStep DEF IndInv
<1>3. QED
  BY <1>1, <1>2, TypeCorrect, PTL DEF Spec

\* At any time at most one worker is between the lock of an order and the end of its
\* fulfilment; it holds the order as RECHARGING, or is about to find that its own
\* update to COMPLETED went through although the answer was lost.
THEOREM Exclusive == Spec => []FulfillmentExclusive
BY Inductive, PTL DEF IndInv

\* The balance is credited at most once per order and only for a matching payment,
\* whatever fails and wherever a worker stops.
THEOREM CreditedOnce == Spec => []CreditedOnceForPayment
<1>1. IndInv => CreditedOnceForPayment
  BY DEF IndInv, EffectInv, CreditedOnceForPayment
<1>2. QED
  BY <1>1, Inductive, PTL

\* COMPLETED means delivered, paid for, and the rebate settled once.
THEOREM Completed == Spec => []CompletedIsDelivered
<1>1. IndInv => CompletedIsDelivered
  BY TypeAssumption
  DEF IndInv, TypeOK, EffectInv, PaymentInv, CompletedIsDelivered, Delivered, HasGoods, Due, RefundStatuses
<1>2. QED
  BY <1>1, Inductive, PTL

\* A 2xx answer to a webhook never drops a payment that the order still accepts.
THEOREM Acked == Spec => []AckedIsTaken
BY Inductive, PTL DEF IndInv

\* Paid orders are never cancelled or expired, completed ones never fulfilled anew.
THEOREM PaidForGood == Spec => PaidStaysPaid
<1>1. IndInv /\ [Next]_vars => PaidStepOK
  BY PaidStep
<1>2. QED
  BY <1>1, Inductive, PTL DEF Spec, PaidStaysPaid, PaidStepOK

\* An order's subscription days are granted at most once, and once more for each call
\* that failed late for it, even though the audit row that guards them is a separate
\* write whose failure is dropped.
THEOREM Granted == Spec => []GrantedOnce
<1>1. Init => GrantInv
  BY DEF Init, GrantInv, Recorded, Section, BalanceSteps, GrantSteps
<1>2. IndInv /\ GrantInv /\ [Next]_vars => GrantInv'
  BY GrantStep
<1>3. GrantInv => GrantedOnce
  BY DEF GrantInv, GrantedOnce
<1>4. QED
  BY <1>1, <1>2, <1>3, Inductive, PTL DEF Spec

-----------------------------------------------------------------------------
(* Refinement.                                                              *)

mappedPaid == [o \in BalanceOrders |-> paid[o]]
mappedCredit == [o \in BalanceOrders |-> credit[o]]
mappedDone == {o \in BalanceOrders : Delivered(o)}
mapped == <<mappedPaid, mappedCredit, mappedDone>>

\* For balance orders the handlers implement PaymentPromise: the user's payment,
\* the commit of Redeem and markCompleted's update are its three steps, and every
\* other step of any worker is invisible to the buyer.
THEOREM Refinement == Spec => KeepsPromise
<1>1. Init => Promise!Init
  BY TypeAssumption
  DEF Init, Promise!Init, BalanceOrders, Delivered, RefundStatuses
<1>2. IndInv /\ IndInv' /\ [Next]_vars => [Promise!Next]_mapped
  <2> SUFFICES ASSUME IndInv, IndInv', [Next]_vars PROVE Promise!Next \/ UNCHANGED mapped
    OBVIOUS
  <2> USE DEF IndInv, TypeOK, BalanceOrders, orderVars, providerVars, effectVars,
              Fault, NoFault, LateFault, Start, Go, Return, SetStatus
  <2>1. ASSUME NEW o \in Orders, UserPays(o) PROVE Promise!Next \/ UNCHANGED mapped
    <3>1. CASE o \in BalanceOrders
      <4>1. Promise!Pay(o)
        <5>1. PICK p \in {"match", "mismatch"} : paid' = [paid EXCEPT ![o] = p]
          BY <2>1 DEF UserPays
        <5>2. paid[o] = "no" /\ UNCHANGED <<credit, status>>
          BY <2>1 DEF UserPays
        <5>3. mappedPaid' = [mappedPaid EXCEPT ![o] = p]
          BY <3>1, <5>1 DEF mappedPaid
        <5>4. UNCHANGED <<mappedCredit, mappedDone>>
          BY <5>2 DEF mappedCredit, mappedDone, Delivered
        <5>5. mappedPaid[o] = "no"
          BY <3>1, <5>2 DEF mappedPaid
        <5>6. QED
          BY ONLY <5>1, <5>3, <5>4, <5>5
          DEF Promise!Pay, mappedPaid, mappedCredit, mappedDone
      <4>2. QED
        BY <4>1, <3>1 DEF Promise!Next
    <3>2. CASE o \notin BalanceOrders
      BY <2>1, <3>2 DEF UserPays, mapped, mappedPaid, mappedCredit, mappedDone, Delivered
    <3>3. QED
      BY <3>1, <3>2
  <2>2. ASSUME NEW w \in Workers, Redeem(w) PROVE Promise!Next \/ UNCHANGED mapped
    <3>1. CASE code[ord[w]] = "unused" /\ code'[ord[w]] = "used"
      <4>1. ord[w] \in BalanceOrders /\ paid[ord[w]] = "match" /\ credit[ord[w]] = 0
        BY <2>2, <3>1 DEF Redeem, EffectInv, PaymentInv, BalanceSteps, Confirmed, Section
      <4>2. credit' = [credit EXCEPT ![ord[w]] = 1] /\ UNCHANGED <<paid, status>>
        BY <2>2, <3>1, <4>1 DEF Redeem
      <4>3. Promise!Deliver(ord[w])
        BY <4>1, <4>2 DEF Promise!Deliver, Delivered
      <4>4. QED
        BY <4>1, <4>3 DEF Promise!Next, Promise!Deliver
    <3>2. CASE ~(code[ord[w]] = "unused" /\ code'[ord[w]] = "used")
      BY <2>2, <3>2 DEF Redeem, mapped, mappedPaid, mappedCredit, mappedDone, Delivered
    <3>3. QED
      BY <3>1, <3>2
  <2>3. ASSUME NEW w \in Workers, MarkCompleted(w) PROVE Promise!Next \/ UNCHANGED mapped
    <3>1. CASE ord[w] \in BalanceOrders /\ status'[ord[w]] = "COMPLETED"
      <4>1. credit[ord[w]] = 1 /\ ~Delivered(ord[w])
        BY <2>3, <3>1
        DEF MarkCompleted, EffectInv, HasGoods, FulfillmentExclusive, Section, Delivered,
            RefundStatuses
      <4>2. status' = [status EXCEPT ![ord[w]] = "COMPLETED"] /\ UNCHANGED <<paid, credit>>
        BY <2>3, <3>1, <4>1 DEF MarkCompleted, Delivered
      <4>3. Promise!Complete(ord[w])
        BY <3>1, <4>1, <4>2 DEF Promise!Complete, Delivered
      <4>4. QED
        BY <3>1, <4>3 DEF Promise!Next, Promise!Complete
    <3>2. CASE ~(ord[w] \in BalanceOrders /\ status'[ord[w]] = "COMPLETED")
      BY <2>3, <3>2
      DEF MarkCompleted, mapped, mappedPaid, mappedCredit, mappedDone, Delivered,
          FulfillmentExclusive, Section
    <3>3. QED
      BY <3>1, <3>2
  <2>4. ASSUME UNCHANGED <<paid, credit>>,
               \A o \in Orders : Delivered(o)' <=> Delivered(o)
        PROVE  UNCHANGED mapped
    BY <2>4 DEF mapped, mappedPaid, mappedCredit, mappedDone
  <2>5. ASSUME NEW w \in Workers, NEW o \in Orders, CheckPendingLimit(w, o) \/ Enter(w, o)
        PROVE  UNCHANGED mapped
    BY <2>5, <2>4
    DEF CheckPendingLimit, Enter, HandleNotify, CancelOrder, ExpireTimedOutOrder,
        ReconcilePendingOrder, VerifyOrder, RetryFulfillment, Delivered
  <2> USE DEF Delivered, RefundStatuses
  <2>6. ASSUME NEW w \in Workers, InsertOrder(w) \/ InvokeProvider(w) \/ FailOrder(w)
        PROVE  UNCHANGED mapped
    BY <2>6, <2>4 DEF InsertOrder, InvokeProvider, FailOrder, CreatorInv, PaymentInv, Creating
  <2>7. ASSUME NEW w \in Workers, ResetForRetry(w) \/ QueryUpstream(w) \/ CloseOrder(w)
        PROVE  UNCHANGED mapped
    BY <2>7, <2>4 DEF ResetForRetry, QueryUpstream, CloseOrder
  <2>8. ASSUME NEW w \in Workers, ConfirmPayment(w) \/ ToPaid(w) \/ AlreadyProcessed(w)
        PROVE  UNCHANGED mapped
    BY <2>8, <2>4 DEF ConfirmPayment, ToPaid, AlreadyProcessed, AcceptsPayment
  <2>9. ASSUME NEW w \in Workers,
               RejectUnsupported(w) \/ ExecuteFulfillment(w) \/ LockOrder(w)
        PROVE  UNCHANGED mapped
    BY <2>9, <2>4 DEF RejectUnsupported, ExecuteFulfillment, LockOrder
  <2>10. ASSUME NEW w \in Workers, LookupCode(w) \/ CreateCode(w) \/ MarkFailed(w)
         PROVE  UNCHANGED mapped
    BY <2>10, <2>4 DEF LookupCode, CreateCode, MarkFailed
  <2>11. ASSUME NEW w \in Workers,
                CheckGroupAndLog(w) \/ AssignSubscription(w) \/ WriteAssignedLog(w)
                \/ ApplyRebate(w) \/ Abandon(w)
         PROVE  UNCHANGED mapped
    BY <2>11, <2>4
    DEF CheckGroupAndLog, AssignSubscription, WriteAssignedLog, ApplyRebate, Abandon
  <2>12. ASSUME NEW o \in Orders, OrderComesDue(o) \/ GracePasses(o) \/ RefundStep(o)
         PROVE  UNCHANGED mapped
    BY <2>12, <2>4 DEF OrderComesDue, GracePasses, RefundStep
  <2>13. CASE UNCHANGED vars
    BY <2>13, <2>4 DEF vars
  <2>14. QED
    BY <2>1, <2>2, <2>3, <2>5, <2>6, <2>7, <2>8, <2>9, <2>10, <2>11, <2>12, <2>13
    DEF Next, Continue, Environment
<1>3. QED
  BY <1>1, <1>2, Inductive, PTL
  DEF Spec, KeepsPromise, Promise!Spec, mapped, mappedPaid, mappedCredit, mappedDone
=============================================================================
