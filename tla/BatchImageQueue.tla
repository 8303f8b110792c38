-------------------------- MODULE BatchImageQueue --------------------------
(***************************************************************************)
(* batch_image_queue.go: the Redis structures that hand jobs to workers.   *)
(* A job waits in the list "ready" or the sorted set "delayed"; a worker   *)
(* that reserves it moves it to the sorted set "active" in one script.     *)
(* The inflight key keeps a job from being enqueued twice, the lock key    *)
(* from being processed by two workers.  Every operator is one script or   *)
(* one MULTI.  The order of "ready" is not modelled, its multiplicity is.  *)
(***************************************************************************)
EXTENDS BatchImageJob

CONSTANTS
    Workers,
    NoWorker        \* no lock key

ASSUME QueueAssumption == NoWorker \notin Workers

VARIABLES
    ready,          \* per job: occurrences in the list
    delayed,        \* members of the sorted set of delayed jobs
    active,         \* members of the sorted set of reserved jobs
    inflight,       \* jobs with an inflight key
    lock            \* per job: the holder of the lock key

queue == <<ready, delayed, active, inflight, lock>>

QueueTypeOK ==
    /\ ready \in [Jobs -> Nat]
    /\ delayed \subseteq Jobs
    /\ active \subseteq Jobs
    /\ inflight \subseteq Jobs
    /\ lock \in [Jobs -> Workers \union {NoWorker}]

Push(j) == ready' = [ready EXCEPT ![j] = @ + 1]

\* batchImageEnqueueScript; "already queued" is not an error to any caller.
Enqueue(j) ==
    \/ j \in inflight /\ UNCHANGED queue
    \/ /\ j \notin inflight
       /\ inflight' = inflight \union {j}
       /\ Push(j) /\ UNCHANGED <<delayed, active, lock>>

\* batchImageReserveScript
ReserveOnce(j) ==
    /\ ready[j] > 0
    /\ ready' = [ready EXCEPT ![j] = @ - 1]
    /\ active' = active \union {j}
    /\ UNCHANGED <<delayed, inflight, lock>>

\* RequeueAfter; every caller passes a positive delay.
RequeueAfter(j) ==
    /\ active' = active \ {j}
    /\ delayed' = delayed \union {j}
    /\ UNCHANGED <<ready, inflight, lock>>

\* Ack
Ack(j) ==
    /\ active' = active \ {j}
    /\ delayed' = delayed \ {j}
    /\ inflight' = inflight \ {j}
    /\ UNCHANGED <<ready, lock>>

\* batchImageMoveDueDelayedScript, for one job
MoveDueDelayed(j) ==
    /\ j \in delayed
    /\ delayed' = delayed \ {j}
    /\ Push(j) /\ UNCHANGED <<active, inflight, lock>>

\* Mutant: the stale job is removed and not pushed.
RecoverStaleActive_Drops(j) ==
    /\ j \in active
    /\ active' = active \ {j}
    /\ UNCHANGED <<ready, delayed, inflight, lock>>

\* batchImageRecoverStaleActiveScript, for one job
RecoverStaleActive(j) ==
    /\ j \in active
    /\ active' = active \ {j}
    /\ Push(j) /\ UNCHANGED <<delayed, inflight, lock>>

\* TryAcquireJobLock
TryAcquireJobLock(j, w, ok) ==
    \/ /\ ok /\ lock[j] = NoWorker
       /\ lock' = [lock EXCEPT ![j] = w]
       /\ UNCHANGED <<ready, delayed, active, inflight>>
    \/ ~ok /\ lock[j] # NoWorker /\ UNCHANGED queue

\* batchImageReleaseLockScript: only the holder's token deletes the key.
ReleaseJobLock(j, w) ==
    /\ lock' = [lock EXCEPT ![j] = IF @ = w THEN NoWorker ELSE @]
    /\ UNCHANGED <<ready, delayed, active, inflight>>
=============================================================================
