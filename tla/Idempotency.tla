---------------------------- MODULE Idempotency ----------------------------
(***************************************************************************)
(* IdempotencyCoordinator.Execute: requests that carry the same key in the *)
(* same scope share one record; one of them executes, the others are       *)
(* refused or get the stored response.  A worker is one HTTP request; a    *)
(* step is one statement on the record, or the execution of the request.   *)
(* The record expires, is reclaimed, and is deleted by the clean-up job.   *)
(*                                                                         *)
(* A request reads the clock once, when it arrives, and uses that time in  *)
(* all later steps.  Any call may fail and any request may stop at any     *)
(* step.  Requests without a key bypass the record and are left out.       *)
(***************************************************************************)
EXTENDS IdempotencyStore

CONSTANTS
    Workers,        \* concurrent requests with the same key
    Backoff,        \* FailedRetryBackoff
    Horizon         \* bound on the clock

ASSUME ClockAssumption == Backoff \in Nat /\ Horizon \in Nat

VARIABLES
    now,            \* time.Now()
    row,            \* the record of the key
    nextId,         \* next value of the id sequence
    pc,             \* per worker: next step
    req,            \* per worker: fingerprint of its request
    start,          \* per worker: "now" read by Execute
    recId,          \* per worker: existing.ID, then record.ID
    seen,           \* per worker: existing.Status
    reply,          \* per worker: whose response it returned
    covered,        \* history: when the record of the latest success expires
    overran,        \* history: has a request missed a deadline?
    retaken         \* history: was a record reclaimed as expired that was not?

vars == <<now, row, nextId, pc, req, start, recId, seen, reply, covered, overran, retaken>>

\* Program points of a request that owns the record.
Claiming == {"execute", "markOk", "markFailed"}
PCs == {"idle", "create", "get", "reclaimExpired", "getLatest", "reclaim"} \union Claiming

TypeOK ==
    /\ now \in Nat
    /\ row \in Rows
    /\ nextId \in Nat
    /\ pc \in [Workers -> PCs]
    /\ req \in [Workers -> Fingerprints]
    /\ start \in [Workers -> Nat]
    /\ recId \in [Workers -> Nat]
    /\ seen \in [Workers -> RecordStatuses]
    /\ reply \in [Workers -> Fingerprints \union {"none"}]
    /\ covered \in Nat
    /\ overran \in BOOLEAN
    /\ retaken \in BOOLEAN

Init ==
    /\ now = 0
    /\ \E f \in Fingerprints :
        /\ row = [id |-> 0, fp |-> f, status |-> "absent", locked |-> 0, expires |-> 0,
                  body |-> [of |-> f, text |-> "whole"]]
        /\ req = [w \in Workers |-> f]
    /\ nextId = 1
    /\ pc = [w \in Workers |-> "idle"]
    /\ start = [w \in Workers |-> 0]
    /\ recId = [w \in Workers |-> 0]
    /\ seen = [w \in Workers |-> "processing"]
    /\ reply = [w \in Workers |-> "none"]
    /\ covered = 0
    /\ overran = FALSE
    /\ retaken = FALSE

-----------------------------------------------------------------------------
Go(w, next) == pc' = [pc EXCEPT ![w] = next]

\* Return with an error, or stop: start, recId and seen are forgotten.
Return(w) ==
    /\ Go(w, "idle")
    /\ start' = [start EXCEPT ![w] = 0]
    /\ recId' = [recId EXCEPT ![w] = 0]
    /\ seen' = [seen EXCEPT ![w] = "processing"]

SameRequest == UNCHANGED <<req, start, recId, seen>>
SameHistory == UNCHANGED <<now, covered, overran, retaken>>

\* The beginning of Execute: the fingerprint and the time.
Arrive(w) ==
    /\ pc[w] = "idle"
    /\ \E f \in Fingerprints : req' = [req EXCEPT ![w] = f]
    /\ start' = [start EXCEPT ![w] = now]
    /\ reply' = [reply EXCEPT ![w] = "none"]
    /\ Go(w, "create")
    /\ UNCHANGED <<row, nextId, recId, seen>> /\ SameHistory

\* repo.CreateProcessing
Create(w) ==
    /\ pc[w] = "create"
    /\ \/ /\ ~Present(row)
          /\ row' = CreateProcessing(row, nextId, req[w], start[w] + Lease, start[w] + TTL)
          /\ nextId' = nextId + 1
          /\ recId' = [recId EXCEPT ![w] = nextId]
          /\ Go(w, "execute") /\ UNCHANGED <<req, start, seen>>
       \/ Present(row) /\ Go(w, "get") /\ SameRequest /\ UNCHANGED <<row, nextId>>
    /\ UNCHANGED reply /\ SameHistory

\* Mutant: a record in progress is taken over once its lock has expired.
DecideOn_LockTimeout(w) ==
    \/ /\ row.status = "succeeded"
       /\ reply' = [reply EXCEPT ![w] = row.body.of]
       /\ Return(w)
    \/ row.status # "succeeded" /\ row.locked > start[w] /\ Return(w) /\ UNCHANGED reply
    \/ /\ row.status # "succeeded" /\ row.locked <= start[w]
       /\ recId' = [recId EXCEPT ![w] = row.id]
       /\ seen' = [seen EXCEPT ![w] = row.status]
       /\ Go(w, "reclaim") /\ UNCHANGED <<start, reply>>

\* The switch on existing.Status.  A stored response that was truncated cannot be
\* decoded, and an error is returned.
DecideOn(w) ==
    \/ /\ row.status = "succeeded"
       /\ reply' = [reply EXCEPT ![w] = IF row.body.text = "whole" THEN row.body.of ELSE "none"]
       /\ Return(w)
    \/ row.status = "processing" /\ Return(w) /\ UNCHANGED reply
    \/ /\ row.status = "failed_retryable" /\ row.locked > start[w]
       /\ Return(w) /\ UNCHANGED reply
    \/ /\ row.status = "failed_retryable" /\ row.locked <= start[w]
       /\ recId' = [recId EXCEPT ![w] = row.id]
       /\ seen' = [seen EXCEPT ![w] = row.status]
       /\ Go(w, "reclaim") /\ UNCHANGED <<start, reply>>

\* repo.GetByScopeAndKeyHash, the check of the fingerprint and of the expiry.
GetExisting(w) ==
    /\ pc[w] = "get"
    /\ \/ ~Present(row) /\ Return(w) /\ UNCHANGED reply
       \/ Present(row) /\ row.fp # req[w] /\ Return(w) /\ UNCHANGED reply
       \/ /\ Present(row) /\ row.fp = req[w] /\ row.expires <= start[w]
          /\ recId' = [recId EXCEPT ![w] = row.id]
          /\ seen' = [seen EXCEPT ![w] = row.status]
          /\ Go(w, "reclaimExpired") /\ UNCHANGED <<start, reply>>
       \/ Present(row) /\ row.fp = req[w] /\ row.expires > start[w] /\ DecideOn(w)
    /\ UNCHANGED <<row, nextId, req>> /\ SameHistory

\* repo.TryReclaim of an expired record, whatever its status.  It does not look at
\* expires_at again: the record may have been reclaimed, used and renewed since.
ReclaimExpired(w) ==
    /\ pc[w] = "reclaimExpired"
    /\ \/ /\ Reclaimable(row, recId[w], seen[w], start[w])
          /\ row' = Reclaimed(row, start[w] + Lease, start[w] + TTL)
          /\ retaken' = (retaken \/ row.expires > start[w])
          /\ Go(w, "execute")
       \/ /\ ~Reclaimable(row, recId[w], seen[w], start[w])
          /\ Go(w, "getLatest") /\ UNCHANGED <<row, retaken>>
    /\ SameRequest /\ UNCHANGED <<nextId, reply, now, covered, overran>>

\* The record is read again after somebody else changed it.
GetLatest(w) ==
    /\ pc[w] = "getLatest"
    /\ \/ (~Present(row) \/ row.fp # req[w]) /\ Return(w) /\ UNCHANGED reply
       \/ Present(row) /\ row.fp = req[w] /\ DecideOn(w)
    /\ UNCHANGED <<row, nextId, req>> /\ SameHistory

\* repo.TryReclaim after a failure whose backoff has passed.
Reclaim(w) ==
    /\ pc[w] = "reclaim"
    /\ \/ /\ Reclaimable(row, recId[w], seen[w], start[w])
          /\ row' = Reclaimed(row, start[w] + Lease, start[w] + TTL)
          /\ Go(w, "execute") /\ SameRequest
       \/ /\ ~Reclaimable(row, recId[w], seen[w], start[w])
          /\ Return(w) /\ UNCHANGED <<row, req>>
    /\ UNCHANGED <<nextId, reply>> /\ SameHistory

\* execute(ctx): a success, or an error, which the coordinator takes for no effect
\* (what the operation did before its error is the operation's business).
Execute(w) ==
    /\ pc[w] = "execute"
    /\ \/ Go(w, "markOk") /\ covered' = start[w] + TTL
       \/ Go(w, "markFailed") /\ UNCHANGED covered
    /\ SameRequest /\ UNCHANGED <<row, nextId, reply, now, overran, retaken>>

\* marshalStoredResponse and repo.MarkSucceeded, which may fail before or after it
\* takes effect; the result is returned only if it reports success.
MarkOk(w) ==
    /\ pc[w] = "markOk"
    /\ \/ /\ \E t \in {"whole", "cut"} :
              row' = MarkSucceeded(row, recId[w], [of |-> req[w], text |-> t], start[w] + TTL)
          /\ reply' = [reply EXCEPT ![w] = req[w]] \/ UNCHANGED reply
       \/ UNCHANGED <<row, reply>>
    /\ Return(w) /\ UNCHANGED <<nextId, req>> /\ SameHistory

\* repo.MarkFailedRetryable, whose failure is ignored; the clock is read some time
\* before, after the execution.
MarkFailed(w) ==
    /\ pc[w] = "markFailed"
    /\ \/ \E t \in start[w] .. now :
            row' = MarkFailedRetryable(row, recId[w], t + Backoff, start[w] + TTL)
       \/ UNCHANGED row
    /\ Return(w) /\ UNCHANGED <<nextId, req, reply>> /\ SameHistory

\* A statement fails (ErrIdempotencyStoreUnavail; this step before the statement's is a
\* failure before its effect, after it one that only lost the answer), the response
\* cannot be marshalled, or the process stops.
Abandon(w) ==
    /\ pc[w] # "idle"
    /\ Return(w) /\ UNCHANGED <<row, nextId, req, reply>> /\ SameHistory

\* IdempotencyCleanupService.cleanupOnce
DeleteExpired ==
    /\ Expired(row, now)
    /\ row' = [row EXCEPT !.status = "absent"]
    /\ SameRequest /\ UNCHANGED <<nextId, pc, reply>> /\ SameHistory

\* Times by which a request is expected to claim the record, and to be done with it.
Deadline(w) == start[w] + (IF pc[w] \in Claiming THEN TTL ELSE Lease)

\* Time passes; a request may miss its deadline.
Tick ==
    /\ now < Horizon
    /\ now' = now + 1
    /\ overran' = (overran \/ \E w \in Workers : pc[w] # "idle" /\ now' >= Deadline(w))
    /\ SameRequest /\ UNCHANGED <<row, nextId, pc, reply, covered, retaken>>

Work(w) ==
    \/ Arrive(w) \/ Create(w) \/ GetExisting(w) \/ ReclaimExpired(w) \/ GetLatest(w)
    \/ Reclaim(w) \/ Execute(w) \/ MarkOk(w) \/ MarkFailed(w) \/ Abandon(w)

Next == (\E w \in Workers : Work(w)) \/ DeleteExpired \/ Tick

Spec == Init /\ [][Next]_vars

-----------------------------------------------------------------------------
(* Safety.  The first two properties need requests that meet their         *)
(* deadlines: 30 s to claim a record, and a day (an hour for a system      *)
(* operation) to be done with it.                                          *)

\* As long as no request missed its deadline, at most one request with the key
\* executes at a time, through retries, backoff, expiry and clean-up.
SingleFlight ==
    ~overran => \A w, v \in Workers : pc[w] \in Claiming /\ pc[v] \in Claiming => w = v

\* Under the same condition, no request repeats a success whose record has not
\* expired, even if that success was never written to the record or its process
\* stopped before; unless an unexpired record was taken for an expired one.
OncePerWindow ==
    [][\A w \in Workers : (pc[w] \notin Claiming /\ pc'[w] \in Claiming /\ ~overran /\ ~retaken')
            => covered <= now]_vars

\* A request returns only a response of an execution of the same payload, whatever
\* became of the record between its steps and however late other requests write.
ReplyIsOwn == \A w \in Workers : reply[w] \in {"none", req[w]}
=============================================================================
