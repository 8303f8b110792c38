------------------------ MODULE SystemOperationLock ------------------------
(***************************************************************************)
(* SystemOperationLockService: update, rollback and restart of the system  *)
(* exclude each other through a lease on one idempotency record, which is  *)
(* acquired, renewed in the background and released.  The fingerprint of   *)
(* the record is the id of the operation that inserted it.  A worker is    *)
(* one request and the goroutine that renews its lock; a step is one       *)
(* statement on the record, or a read of the clock before it.              *)
(*                                                                         *)
(* Any statement may fail and a process may stop at any step; the lock of  *)
(* a stopped process is freed by the end of its lease.  The clock starts   *)
(* at 1, so that 0 is no time.                                             *)
(***************************************************************************)
EXTENDS IdempotencyStore

CONSTANTS
    Workers,        \* concurrent requests for a system operation
    Horizon         \* bound on the clock

ASSUME HorizonAssumption == Horizon \in Nat

VARIABLES
    now,            \* time.Now()
    row,            \* the record of the global lock
    nextId,         \* next value of the id sequence
    pc,             \* per worker: next step
    op,             \* per worker: operationID (a retry with the same key has the same)
    start,          \* per worker: "now" read by Acquire
    recId,          \* per worker: existing.ID, then lock.recordID
    seen,           \* per worker: existing.Status
    renewing,       \* workers whose renewLoop runs
    round,          \* per worker: "now" read by the round of renewLoop under way, or 0
    leaseEnd,       \* per worker: the end of the lease it has been granted
    overran         \* history: has a worker outlived its lease, or a renewal that came
                    \* after its release shortened somebody's lock?

vars == <<now, row, nextId, pc, op, start, recId, seen, renewing, round, leaseEnd,
          overran>>

\* Program points of a worker that holds the lock.
Holding == {"held", "release"}
PCs == {"idle", "create", "get", "reclaim"} \union Holding

TypeOK ==
    /\ now \in Nat
    /\ row \in Rows
    /\ nextId \in Nat
    /\ pc \in [Workers -> PCs]
    /\ op \in [Workers -> Fingerprints]
    /\ start \in [Workers -> Nat]
    /\ recId \in [Workers -> Nat]
    /\ seen \in [Workers -> RecordStatuses]
    /\ renewing \in SUBSET Workers
    /\ round \in [Workers -> Nat]
    /\ leaseEnd \in [Workers -> Nat]
    /\ overran \in BOOLEAN

Init ==
    /\ now = 1
    /\ \E f \in Fingerprints :
        /\ row = [id |-> 0, fp |-> f, status |-> "absent", locked |-> 0, expires |-> 0,
                  body |-> [of |-> f, text |-> "whole"]]
        /\ op = [w \in Workers |-> f]
    /\ nextId = 1
    /\ pc = [w \in Workers |-> "idle"]
    /\ start = [w \in Workers |-> 0]
    /\ recId = [w \in Workers |-> 0]
    /\ seen = [w \in Workers |-> "processing"]
    /\ renewing = {}
    /\ round = [w \in Workers |-> 0]
    /\ leaseEnd = [w \in Workers |-> 0]
    /\ overran = FALSE

-----------------------------------------------------------------------------
Go(w, next) == pc' = [pc EXCEPT ![w] = next]

\* Acquire fails, Release is done or the process stops.  A renewal under way keeps the
\* id of the record.
Return(w) ==
    /\ Go(w, "idle")
    /\ start' = [start EXCEPT ![w] = 0]
    /\ recId' = [recId EXCEPT ![w] = IF w \in renewing' \/ round[w] # 0 THEN @ ELSE 0]
    /\ seen' = [seen EXCEPT ![w] = "processing"]
    /\ leaseEnd' = [leaseEnd EXCEPT ![w] = 0]

\* Acquire succeeds and starts renewLoop.
Hold(w) == Go(w, "held") /\ renewing' = renewing \union {w}

\* The beginning of Acquire.
Arrive(w) ==
    /\ pc[w] = "idle" /\ w \notin renewing /\ round[w] = 0
    /\ \E f \in Fingerprints : op' = [op EXCEPT ![w] = f]
    /\ start' = [start EXCEPT ![w] = now]
    /\ leaseEnd' = [leaseEnd EXCEPT ![w] = now + Lease]
    /\ Go(w, "create")
    /\ UNCHANGED <<now, row, nextId, recId, seen, renewing, round, overran>>

\* repo.CreateProcessing
Create(w) ==
    /\ pc[w] = "create"
    /\ \/ /\ ~Present(row)
          /\ row' = CreateProcessing(row, nextId, op[w], start[w] + Lease, start[w] + TTL)
          /\ nextId' = nextId + 1
          /\ recId' = [recId EXCEPT ![w] = nextId]
          /\ Hold(w)
       \/ Present(row) /\ Go(w, "get") /\ UNCHANGED <<row, nextId, recId, renewing>>
    /\ UNCHANGED <<now, op, start, seen, round, leaseEnd, overran>>

\* repo.GetByScopeAndKeyHash and the check of the lock.
GetExisting(w) ==
    /\ pc[w] = "get"
    /\ \/ /\ ~Present(row) \/ (row.status = "processing" /\ row.locked > start[w])
          /\ UNCHANGED renewing /\ Return(w)
       \/ /\ Present(row) /\ ~(row.status = "processing" /\ row.locked > start[w])
          /\ recId' = [recId EXCEPT ![w] = row.id]
          /\ seen' = [seen EXCEPT ![w] = row.status]
          /\ Go(w, "reclaim") /\ UNCHANGED <<start, renewing, leaseEnd>>
    /\ UNCHANGED <<now, row, nextId, op, round, overran>>

\* repo.TryReclaim; when it fails the record is read only for the error message.
Reclaim(w) ==
    /\ pc[w] = "reclaim"
    /\ \/ /\ Reclaimable(row, recId[w], seen[w], start[w])
          /\ row' = Reclaimed(row, start[w] + Lease, start[w] + TTL)
          /\ Hold(w) /\ UNCHANGED <<start, recId, seen, leaseEnd>>
       \/ /\ ~Reclaimable(row, recId[w], seen[w], start[w])
          /\ UNCHANGED <<row, renewing>> /\ Return(w)
    /\ UNCHANGED <<now, nextId, op, round, overran>>

\* The ticker of renewLoop fires and the clock is read.  The loop may take this branch
\* of its select once more after stopCh was closed.
BeginRenew(w) ==
    /\ w \in renewing /\ round[w] = 0
    /\ round' = [round EXCEPT ![w] = now]
    /\ UNCHANGED <<now, row, nextId, pc, op, start, recId, seen, renewing, leaseEnd, overran>>

\* The round is over and its worker, if it has returned, is forgotten.
EndRound(w) ==
    /\ round' = [round EXCEPT ![w] = 0]
    /\ recId' = [recId EXCEPT ![w] = IF pc[w] = "idle" /\ w \notin renewing' THEN 0 ELSE @]

\* repo.ExtendProcessingLock, which may come after Release: the loop goes on after an
\* error and ends when the record is not found as its own.
Renew(w) ==
    /\ round[w] # 0
    /\ \/ /\ Extendable(row, recId[w], op[w])
          /\ row' = Extended(row, round[w] + Lease, round[w] + TTL)
          /\ leaseEnd' = [leaseEnd EXCEPT ![w] = IF pc[w] = "idle" THEN 0 ELSE round[w] + Lease]
          /\ overran' = (overran \/ (pc[w] = "idle" /\ round[w] + Lease < row.locked))
          /\ UNCHANGED renewing
       \/ /\ ~Extendable(row, recId[w], op[w])
          /\ renewing' = renewing \ {w}
          /\ UNCHANGED <<row, leaseEnd, overran>>
       \/ UNCHANGED <<row, renewing, leaseEnd, overran>>
    /\ EndRound(w)
    /\ UNCHANGED <<now, nextId, pc, op, start, seen>>

\* renewLoop finds stopCh closed, between two rounds.
StopRenewing(w) ==
    /\ w \in renewing /\ pc[w] # "held" /\ round[w] = 0
    /\ renewing' = renewing \ {w}
    /\ recId' = [recId EXCEPT ![w] = IF pc[w] = "idle" THEN 0 ELSE @]
    /\ UNCHANGED <<now, row, nextId, pc, op, start, seen, round, leaseEnd, overran>>

\* The operation ends; Release closes stopCh.
EndOperation(w) ==
    /\ pc[w] = "held"
    /\ Go(w, "release")
    /\ UNCHANGED <<now, row, nextId, op, start, recId, seen, renewing, round, leaseEnd, overran>>

\* The rest of Release: the record is marked by its id, unless that fails.  The clock
\* is read some time before.
Release(w) ==
    /\ pc[w] = "release"
    /\ \/ \E t \in start[w] .. now :
            \/ row' = MarkSucceeded(row, recId[w], [of |-> op[w], text |-> "whole"], t + TTL)
            \/ row' = MarkFailedRetryable(row, recId[w], t, t + TTL)
       \/ UNCHANGED row
    /\ UNCHANGED <<now, nextId, op, renewing, round, overran>> /\ Return(w)

\* A statement of Acquire fails, before its effect or (as the next step) after it, or
\* the process stops; a renewal under way may still reach the database.
Abandon(w) ==
    /\ pc[w] # "idle"
    /\ renewing' = renewing \ {w}
    /\ Return(w) /\ UNCHANGED <<now, row, nextId, op, round, overran>>

\* IdempotencyCleanupService.cleanupOnce
DeleteExpired ==
    /\ Expired(row, now)
    /\ row' = [row EXCEPT !.status = "absent"]
    /\ UNCHANGED <<now, nextId, pc, op, start, recId, seen, renewing, round, leaseEnd, overran>>

\* Time passes; an operation may outlive its lease.
Tick ==
    /\ now < Horizon
    /\ now' = now + 1
    /\ overran' = (overran \/ \E w \in Workers : pc[w] # "idle" /\ now' >= leaseEnd[w])
    /\ UNCHANGED <<row, nextId, pc, op, start, recId, seen, renewing, round, leaseEnd>>

Work(w) ==
    \/ Arrive(w) \/ Create(w) \/ GetExisting(w) \/ Reclaim(w) \/ BeginRenew(w)
    \/ Renew(w) \/ StopRenewing(w) \/ EndOperation(w) \/ Release(w) \/ Abandon(w)

Next == (\E w \in Workers : Work(w)) \/ DeleteExpired \/ Tick

Spec == Init /\ [][Next]_vars

-----------------------------------------------------------------------------
(* Safety                                                                  *)

\* As long as every operation ends within the lease it was granted and renewed, and no
\* renewal that comes after its release shortens the lock of the next, no two system
\* operations run at once, although Release and TryReclaim do not know the owner of the
\* record.
OneOperation ==
    ~overran => \A w, v \in Workers : pc[w] \in Holding /\ pc[v] \in Holding => w = v

\* Under the same condition, the record shows the lock of whoever holds it, at least
\* to the end of its lease: no clean-up, late release or renewal of another operation
\* changes it.
LeaseIsRecorded ==
    ~overran => \A w \in Workers : pc[w] \in Holding =>
        Matches(row, recId[w]) /\ row.status = "processing" /\ row.locked >= leaseEnd[w]
=============================================================================
