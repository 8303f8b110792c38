--------------------------- MODULE IdempotencyStore ---------------------------
(***************************************************************************)
(* The row of idempotency_records for one (scope, key), and the SQL        *)
(* statements of idempotencyRepository as functions of the row: each is a  *)
(* single statement, so a step that uses one is atomic.  Idempotency and   *)
(* SystemOperationLock are built on it.                                    *)
(*                                                                         *)
(* Times are natural numbers.  NULL in locked_until is the time 0, which   *)
(* every comparison treats alike.  A deleted row keeps its id here; ids    *)
(* are never used again.                                                   *)
(***************************************************************************)
EXTENDS Naturals

CONSTANTS
    Fingerprints,   \* values of request_fingerprint
    TTL,            \* lifetime of a record
    Lease           \* ProcessingTimeout: locked_until after a claim

ASSUME StoreAssumption == TTL \in Nat \ {0} /\ Lease \in Nat \ {0} /\ Lease <= TTL

RecordStatuses == {"processing", "succeeded", "failed_retryable"}

\* response_body: the request whose execution produced it, whole or truncated.
Bodies == [of : Fingerprints, text : {"whole", "cut"}]

Rows == [id : Nat, fp : Fingerprints, status : RecordStatuses \union {"absent"},
         locked : Nat, expires : Nat, body : Bodies]

Present(r) == r.status # "absent"

\* Mutant: the row is matched by scope and key.
Matches_ByKey(r, id) == Present(r)

\* WHERE id = $1
Matches(r, id) == Present(r) /\ r.id = id

\* INSERT ... ON CONFLICT DO NOTHING, when there is no conflict.
CreateProcessing(r, id, fp, locked, expires) ==
    [r EXCEPT !.id = id, !.fp = fp, !.status = "processing", !.locked = locked,
              !.expires = expires]

\* Mutant: the row that was read is taken whatever happened to it since.
Reclaimable_ById(r, id, from, t) == Matches(r, id)

\* The condition of TryReclaim, and its effect; the fingerprint is left alone.
Reclaimable(r, id, from, t) == Matches(r, id) /\ r.status = from /\ r.locked <= t
Reclaimed(r, locked, expires) ==
    [r EXCEPT !.status = "processing", !.locked = locked, !.expires = expires]

\* Mutant: renewing keeps the record but not the lock.
Extended_OnlyExpiry(r, locked, expires) == [r EXCEPT !.expires = expires]

\* The condition of ExtendProcessingLock, and its effect.
Extendable(r, id, fp) == Matches(r, id) /\ r.status = "processing" /\ r.fp = fp
Extended(r, locked, expires) == [r EXCEPT !.locked = locked, !.expires = expires]

MarkSucceeded(r, id, body, expires) ==
    IF Matches(r, id)
    THEN [r EXCEPT !.status = "succeeded", !.body = body, !.locked = 0, !.expires = expires]
    ELSE r

MarkFailedRetryable(r, id, locked, expires) ==
    IF Matches(r, id)
    THEN [r EXCEPT !.status = "failed_retryable", !.locked = locked, !.expires = expires]
    ELSE r

\* Mutant: the clean-up looks at locked_until.
Expired_ByLock(r, t) == Present(r) /\ r.locked <= t

\* Rows that DeleteExpired removes.
Expired(r, t) == Present(r) /\ r.expires <= t
=============================================================================
