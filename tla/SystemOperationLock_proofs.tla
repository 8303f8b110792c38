--------------------- MODULE SystemOperationLock_proofs ---------------------
(***************************************************************************)
(* Proofs about SystemOperationLock, for any number of workers and         *)
(* operations and any lease that is not longer than the record's life.     *)
(***************************************************************************)
EXTENDS SystemOperationLock, IdempotencyStore_proofs, TLAPS

\* Clocks only grow, and nothing of an earlier request is left when the next begins.
ClockInv ==
    /\ \A w \in Workers : start[w] <= now /\ round[w] <= now
    /\ \A w \in Workers : pc[w] \in {"create", "get", "reclaim"}
        => w \notin renewing /\ round[w] = 0

\* While nobody has outlived a lease: every worker is within its own, which before the
\* claim is the one it will write; a renewal under way prolongs it; and the record
\* outlives the lock of the holder.
LeaseInv ==
    ~overran => \A w \in Workers :
        /\ pc[w] # "idle" => now < leaseEnd[w]
        /\ pc[w] \in {"create", "get", "reclaim"} => leaseEnd[w] = start[w] + Lease
        /\ pc[w] \in Holding => leaseEnd[w] <= now + Lease
        /\ pc[w] \in Holding /\ round[w] # 0 => leaseEnd[w] <= round[w] + Lease
        /\ pc[w] \in Holding => row.expires >= leaseEnd[w]

LockInv == TypeOK /\ ClockInv /\ LeaseInv /\ LeaseIsRecorded /\ OneOperation

-----------------------------------------------------------------------------
(* One lemma per part of the invariant, with a step per action.            *)

LEMMA LockTypeStep == TypeOK /\ [Next]_vars => TypeOK'
<1> SUFFICES ASSUME TypeOK, [Next]_vars PROVE TypeOK'
  OBVIOUS
<1> USE StoreAssumption DEF TypeOK, PCs, Holding
<1>1. ASSUME NEW w \in Workers, Arrive(w) PROVE TypeOK'
  BY <1>1 DEF Arrive, Go
<1>2. ASSUME NEW w \in Workers, Create(w) PROVE TypeOK'
  <2>1. CASE ~Present(row)
    <3>1. row' = CreateProcessing(row, nextId, op[w], start[w] + Lease, start[w] + TTL)
      BY <1>2, <2>1 DEF Create
    <3>2. row' \in Rows
      BY <3>1, CreatedRow
    <3>3. QED
      BY <1>2, <2>1, <3>2 DEF Create, Go, Hold
  <2>2. CASE Present(row)
    BY <1>2, <2>2 DEF Create, Go
  <2>3. QED
    BY <2>1, <2>2
<1>3. ASSUME NEW w \in Workers, GetExisting(w) PROVE TypeOK'
  BY <1>3, RowFields DEF GetExisting, Go, Return, RecordStatuses, Present
<1>4. ASSUME NEW w \in Workers, Reclaim(w) PROVE TypeOK'
  <2>1. Reclaimed(row, start[w] + Lease, start[w] + TTL) \in Rows
    BY ReclaimedRow
  <2>2. QED
    BY <1>4, <2>1 DEF Reclaim, Go, Return, Hold, RecordStatuses
<1>5. ASSUME NEW w \in Workers, Renew(w) PROVE TypeOK'
  <2>1. Extended(row, round[w] + Lease, round[w] + TTL) \in Rows
    BY ExtendedRow
  <2>2. row' \in Rows /\ renewing' \in SUBSET Workers /\ leaseEnd' \in [Workers -> Nat]
    BY <1>5, <2>1 DEF Renew
  <2>3. overran' \in BOOLEAN
    BY <1>5 DEF Renew
  <2>4. recId' \in [Workers -> Nat] /\ round' \in [Workers -> Nat]
    BY <1>5 DEF Renew, EndRound
  <2>5. QED
    BY <1>5, <2>2, <2>3, <2>4 DEF Renew
<1>5a. ASSUME NEW w \in Workers, BeginRenew(w) \/ StopRenewing(w) PROVE TypeOK'
  BY <1>5a DEF BeginRenew, StopRenewing
<1>6. ASSUME NEW w \in Workers, EndOperation(w) PROVE TypeOK'
  BY <1>6 DEF EndOperation, Go
<1>7. ASSUME NEW w \in Workers, Release(w) PROVE TypeOK'
  <2>1. [of |-> op[w], text |-> "whole"] \in Bodies
    BY DEF Bodies
  <2>2. ASSUME NEW t \in start[w] .. now
        PROVE  /\ MarkSucceeded(row, recId[w], [of |-> op[w], text |-> "whole"], t + TTL) \in Rows
               /\ MarkFailedRetryable(row, recId[w], t, t + TTL) \in Rows
    <3>1. t \in Nat /\ t + TTL \in Nat
      OBVIOUS
    <3>2. QED
      BY <2>1, <3>1, SucceededRow, FailedRow
  <2>3. row' \in Rows
    BY <1>7, <2>2 DEF Release
  <2>4. QED
    BY <1>7, <2>3 DEF Release, Go, Return, RecordStatuses
<1>8. ASSUME NEW w \in Workers, Abandon(w) PROVE TypeOK'
  BY <1>8 DEF Abandon, Go, Return, RecordStatuses
<1>9. CASE DeleteExpired
  <2>1. row' \in Rows
    BY <1>9, DeletedRow DEF DeleteExpired
  <2>2. QED
    BY <1>9, <2>1 DEF DeleteExpired
<1>10. CASE Tick
  BY <1>10 DEF Tick
<1>11. CASE UNCHANGED vars
  BY <1>11 DEF vars
<1>12. QED
  BY <1>1, <1>2, <1>3, <1>4, <1>5, <1>5a, <1>6, <1>7, <1>8, <1>9, <1>10, <1>11 DEF Next, Work

LEMMA LockClockStep == TypeOK /\ ClockInv /\ [Next]_vars => ClockInv'
<1> SUFFICES ASSUME TypeOK, ClockInv, [Next]_vars PROVE ClockInv'
  OBVIOUS
<1> USE DEF TypeOK, ClockInv, Go, Return, Hold
<1>1. ASSUME NEW w \in Workers, Work(w) PROVE ClockInv'
  BY <1>1 DEF Work, Arrive, Create, GetExisting, Reclaim, BeginRenew, Renew, EndRound, StopRenewing,
     EndOperation, Release, Abandon, PCs, Holding
<1>2. CASE DeleteExpired \/ Tick \/ UNCHANGED vars
  BY <1>2 DEF DeleteExpired, Tick, vars
<1>3. QED
  BY <1>1, <1>2 DEF Next

LEMMA LockStep == LockInv /\ [Next]_vars => LeaseInv' /\ LeaseIsRecorded' /\ OneOperation'
<1> SUFFICES ASSUME LockInv, [Next]_vars, ~overran'
             PROVE  LeaseInv' /\ LeaseIsRecorded' /\ OneOperation'
  BY DEF LeaseInv, LeaseIsRecorded, OneOperation
<1>0. ~overran
  BY DEF Next, Work, Arrive, Create, GetExisting, Reclaim, BeginRenew, Renew,
         StopRenewing, EndOperation, Release, Abandon, DeleteExpired, Tick, vars, LockInv, TypeOK
<1> USE <1>0, StoreAssumption DEF LockInv, TypeOK, ClockInv, LeaseInv, LeaseIsRecorded,
        OneOperation, PCs, Holding, Go
\* While a worker holds the lock nobody can take it.
<1>A. ASSUME NEW w \in Workers, NEW v \in Workers, pc[w] \in Holding, pc[v] # "idle"
      PROVE  Present(row) /\ ~Reclaimable(row, recId[v], seen[v], start[v])
             /\ ~Expired(row, now)
  BY <1>A, RowFields DEF Matches, Reclaimable, Expired
<1>1. ASSUME NEW w \in Workers, Arrive(w)
      PROVE  LeaseInv' /\ LeaseIsRecorded' /\ OneOperation'
  BY <1>1, RowFields DEF Arrive
<1>2. ASSUME NEW w \in Workers, Create(w)
      PROVE  LeaseInv' /\ LeaseIsRecorded' /\ OneOperation'
  <2>1. CASE ~Present(row)
    <3>1. \A v \in Workers : pc[v] \notin Holding
      BY <2>1 DEF Matches
    <3>2. row' = CreateProcessing(row, nextId, op[w], start[w] + Lease, start[w] + TTL)
      BY <1>2, <2>1 DEF Create
    <3>3. /\ row'.id = nextId /\ row'.status = "processing"
          /\ row'.locked = start[w] + Lease /\ row'.expires = start[w] + TTL
      BY <3>2 DEF CreateProcessing, Rows
    <3>4. QED
      BY <1>2, <2>1, <3>1, <3>3 DEF Create, Hold, Matches, Present
  <2>2. CASE Present(row)
    BY <1>2, <2>2 DEF Create
  <2>3. QED
    BY <2>1, <2>2
<1>3. ASSUME NEW w \in Workers, GetExisting(w)
      PROVE  LeaseInv' /\ LeaseIsRecorded' /\ OneOperation'
  BY <1>3 DEF GetExisting, Return
<1>4. ASSUME NEW w \in Workers, Reclaim(w)
      PROVE  LeaseInv' /\ LeaseIsRecorded' /\ OneOperation'
  <2>1. CASE Reclaimable(row, recId[w], seen[w], start[w])
    <3>1. \A v \in Workers : pc[v] \notin Holding
      BY <1>4, <2>1, <1>A DEF Reclaim
    <3>2. row' = Reclaimed(row, start[w] + Lease, start[w] + TTL) /\ Matches(row, recId[w])
      BY <1>4, <2>1 DEF Reclaim, Reclaimable
    <3>3. /\ row'.id = row.id /\ row'.status = "processing"
          /\ row'.locked = start[w] + Lease /\ row'.expires = start[w] + TTL
      BY <3>2 DEF Reclaimed, Rows
    <3>4. QED
      BY <1>4, <2>1, <3>1, <3>2, <3>3 DEF Reclaim, Hold, Matches, Present
  <2>2. CASE ~Reclaimable(row, recId[w], seen[w], start[w])
    BY <1>4, <2>2 DEF Reclaim, Return
  <2>3. QED
    BY <2>1, <2>2
<1>5. ASSUME NEW w \in Workers, Renew(w)
      PROVE  LeaseInv' /\ LeaseIsRecorded' /\ OneOperation'
  <2>0. /\ round' = [round EXCEPT ![w] = 0] /\ UNCHANGED <<now, pc, start>>
        /\ \A v \in Workers : pc[v] # "idle" => recId'[v] = recId[v]
    BY <1>5 DEF Renew, EndRound
  <2>1. CASE row' # row
    <3>1. /\ row' = Extended(row, round[w] + Lease, round[w] + TTL)
          /\ leaseEnd' = [leaseEnd EXCEPT ![w] = IF pc[w] = "idle" THEN 0 ELSE round[w] + Lease]
          /\ overran' = (overran \/ (pc[w] = "idle" /\ round[w] + Lease < row.locked))
          /\ round[w] # 0
      BY <1>5, <2>1 DEF Renew
    <3>2. /\ row'.id = row.id /\ row'.status = row.status
          /\ row'.locked = round[w] + Lease /\ row'.expires = round[w] + TTL
      BY <3>1 DEF Extended, Rows
    <3>3. ~(pc[w] = "idle" /\ round[w] + Lease < row.locked)
      BY <3>1, Zenon
    <3>4. CASE pc[w] = "idle"
      <4>1. row.locked <= round[w] + Lease
        BY <3>3, <3>4, RowFields
      <4>2. QED
        BY <2>0, <3>1, <3>2, <3>4, <4>1, RowFields DEF Matches, Present
    <3>5. CASE pc[w] # "idle"
      <4>1. pc[w] \in Holding
        BY <3>1, <3>5
      <4>2. leaseEnd[w] <= round[w] + Lease /\ round[w] <= now
        BY <3>1, <4>1
      <4>3. QED
        BY <2>0, <3>1, <3>2, <3>5, <4>1, <4>2 DEF Matches, Present
    <3>6. QED
      BY <3>4, <3>5
  <2>2. CASE row' = row /\ leaseEnd' = leaseEnd
    BY <2>0, <2>2
  <2>3. CASE row' = row /\ leaseEnd' # leaseEnd
    <3>1. /\ row' = Extended(row, round[w] + Lease, round[w] + TTL)
          /\ leaseEnd' = [leaseEnd EXCEPT ![w] = IF pc[w] = "idle" THEN 0 ELSE round[w] + Lease]
          /\ round[w] # 0
      BY <1>5, <2>3 DEF Renew
    <3>2. row.locked = round[w] + Lease /\ row.expires = round[w] + TTL
      BY <2>3, <3>1 DEF Extended, Rows
    <3>3. pc[w] \in Holding => leaseEnd[w] <= round[w] + Lease /\ round[w] <= now
      BY <3>1
    <3>4. QED
      BY <2>0, <2>3, <3>1, <3>2, <3>3
  <2>4. QED
    BY <2>1, <2>2, <2>3
<1>5a. ASSUME NEW w \in Workers, BeginRenew(w) \/ StopRenewing(w)
      PROVE  LeaseInv' /\ LeaseIsRecorded' /\ OneOperation'
  BY <1>5a DEF BeginRenew, StopRenewing
<1>6. ASSUME NEW w \in Workers, EndOperation(w)
      PROVE  LeaseInv' /\ LeaseIsRecorded' /\ OneOperation'
  BY <1>6 DEF EndOperation
<1>7. ASSUME NEW w \in Workers, Release(w)
      PROVE  LeaseInv' /\ LeaseIsRecorded' /\ OneOperation'
  <2>1. \A v \in Workers : pc'[v] \notin Holding
    BY <1>7 DEF Release, Return
  <2>2. QED
    BY <1>7, <2>1 DEF Release, Return
<1>8. ASSUME NEW w \in Workers, Abandon(w)
      PROVE  LeaseInv' /\ LeaseIsRecorded' /\ OneOperation'
  BY <1>8 DEF Abandon, Return
<1>9. CASE DeleteExpired
  <2>1. \A v \in Workers : pc[v] \notin Holding
    BY <1>9, <1>A DEF DeleteExpired
  <2>2. QED
    BY <1>9, <2>1 DEF DeleteExpired
<1>10. CASE Tick
  <2>1. ~\E w \in Workers : pc[w] # "idle" /\ now' >= leaseEnd[w]
    <3> HIDE DEF TypeOK, LeaseInv, LeaseIsRecorded, OneOperation
    <3>1. QED
      BY <1>10, Zenon DEF Tick
  <2>2. \A w \in Workers : pc[w] # "idle" => now' < leaseEnd[w]
    BY <1>10, <2>1 DEF Tick
  <2>3. QED
    BY <1>10, <2>2 DEF Tick, Matches, Present
<1>11. CASE UNCHANGED vars
  BY <1>11 DEF vars
<1>12. QED
  BY <1>1, <1>2, <1>3, <1>4, <1>5, <1>5a, <1>6, <1>7, <1>8, <1>9, <1>10, <1>11 DEF Next, Work

LEMMA LockInductive == Spec => []LockInv
<1>1. Init => LockInv
  <2> SUFFICES ASSUME Init PROVE LockInv
    OBVIOUS
  <2>1. row \in Rows /\ op \in [Workers -> Fingerprints]
    BY DEF Init, Rows, Bodies
  <2>2. TypeOK
    BY <2>1 DEF Init, TypeOK, RecordStatuses, PCs
  <2>3. QED
    BY <2>2 DEF Init, LockInv, ClockInv, LeaseInv, LeaseIsRecorded, OneOperation, Holding
<1>2. LockInv /\ [Next]_vars => LockInv'
  BY LockTypeStep, LockClockStep, LockStep DEF LockInv
<1>3. QED
  BY <1>1, <1>2, PTL DEF Spec

\* The types of the lock's state.
THEOREM LockTypeCorrect == Spec => []TypeOK
<1>1. LockInv => TypeOK
  BY DEF LockInv
<1>2. QED
  BY <1>1, LockInductive, PTL

\* Acquire, TryReclaim, renewal, release and clean-up never let two system operations
\* run at once, provided that each ends within its lease.
THEOREM OperationsExclude == Spec => []OneOperation
<1>1. LockInv => OneOperation
  BY DEF LockInv
<1>2. QED
  BY <1>1, LockInductive, PTL

\* Under the same proviso the record shows the holder's lock to the end of its lease.
THEOREM LeaseRecorded == Spec => []LeaseIsRecorded
<1>1. LockInv => LeaseIsRecorded
  BY DEF LockInv
<1>2. QED
  BY <1>1, LockInductive, PTL
=============================================================================
