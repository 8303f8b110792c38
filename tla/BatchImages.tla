---------------------------- MODULE BatchImages ----------------------------
(***************************************************************************)
(* The life of batch image jobs: Submit holds the expected cost and hands  *)
(* the job to the provider, workers follow it and settle it, clients       *)
(* cancel and repeat requests, the recovery fails what was never handed    *)
(* over.  Composes the ledger and the queue with the table of jobs.  A     *)
(* step is one statement or transaction, one script, or one call of the    *)
(* provider.                                                               *)
(*                                                                         *)
(* Any call may fail without effect ("error") or after it ("late"), and    *)
(* any process may stop ("crash").  There is no clock: what a timeout      *)
(* allows happens when the process it waits for is gone, or, as a "lapse", *)
(* while that process is still at work but too slow or without heartbeat.  *)
(* All of these count against MaxFaults.                                   *)
(*                                                                         *)
(* Left out: items and pictures, prices, the accounts, the invalidation of *)
(* the authentication cache, audit events, the deletion of inputs.         *)
(***************************************************************************)
EXTENDS BatchImageLedger, BatchImageQueue

CONSTANTS
    Clients,        \* requests to cancel or to submit again
    FaultKinds,     \* which of "error", "late", "crash" and "lapse" happen
    MaxFaults,      \* bound on their number
    MaxBalance,     \* bound on the initial balance
    OtherHolds      \* amounts that other batches may have frozen

ASSUME BatchAssumption ==
    /\ MaxFaults \in Nat
    /\ MaxBalance \in Nat
    /\ OtherHolds \subseteq Nat

VARIABLES
    upstream,       \* per job: state of the provider's batch
    output,         \* per job: {cost of the provider's results}, {} if they are garbled
    sub,            \* per job: next step of Submit
    rec,            \* per job: next step of the recovery
    wpc, wjob,      \* per worker: next step, job
    wcost,          \* per worker: actualCost
    cpc, cjob,      \* per client: next step, job
    total,          \* history: all the money at the start
    faults,         \* failures so far
    lapsed          \* history: has a timeout overtaken a process at work?

provider == <<upstream, output>>
worker == <<wpc, wjob, wcost>>
client == <<cpc, cjob>>
vars == <<ledger, queue, row, provider, sub, rec, worker, client, total, faults, lapsed>>

Outputs == {{}} \union {{amount} : amount \in Costs}

\* Steps of Submit: forward, after a failure, and ended.
SubSteps == {"new", "reserve", "items", "upload", "submit", "update", "abort", "enqueue", "queueFailed",
             "undo", "undoKeep", "record", "hide", "giveUp", "retry", "ended"}
\* Steps of a worker that has taken the lock.
Processing == {"route", "process", "poll", "pollRunning", "toRunning", "toIndexing", "toFailed",
               "toCancelled", "index", "toSettling", "release", "settle", "capture", "recordFailure",
               "mark", "exhausted", "recordRelease", "fail", "reread", "ack", "requeue", "unlock"}

ControlTypeOK ==
    /\ upstream \in [Jobs -> {"none", "live", "succeeded", "failed", "cancelled"}]
    /\ output \in [Jobs -> Outputs]
    /\ sub \in [Jobs -> SubSteps]
    /\ rec \in [Jobs -> {"idle", "release", "retry"}]
    /\ wpc \in [Workers -> {"idle", "lock", "conflict"} \union Processing]
    /\ wjob \in [Workers -> Jobs]
    /\ wcost \in [Workers -> Nat]
    /\ cpc \in [Clients -> {"idle", "transition", "release", "retry", "cancel", "enqueue",
                            "resubmit", "queueFailed"}]
    /\ cjob \in [Clients -> Jobs]
    /\ total \in Nat
    /\ faults \in 0..MaxFaults
    /\ lapsed \in BOOLEAN

\* Type invariant.
TypeOK == RowTypeOK /\ LedgerTypeOK /\ QueueTypeOK /\ ControlTypeOK

Init ==
    /\ balance \in 0..MaxBalance
    /\ frozen \in OtherHolds
    /\ claims = [j \in Jobs |-> {}]
    /\ charged = [j \in Jobs |-> 0]
    /\ returned = [j \in Jobs |-> FALSE]
    /\ spent = 0
    /\ ready = [j \in Jobs |-> 0]
    /\ delayed = {} /\ active = {} /\ inflight = {}
    /\ lock = [j \in Jobs |-> NoWorker]
    /\ status = [j \in Jobs |-> "absent"]
    /\ named = [j \in Jobs |-> FALSE]
    /\ retry = [j \in Jobs |-> 0]
    /\ coded = [j \in Jobs |-> FALSE]
    /\ cost = [j \in Jobs |-> 0]
    /\ hidden = [j \in Jobs |-> FALSE]
    /\ upstream = [j \in Jobs |-> "none"]
    /\ output = [j \in Jobs |-> {}]
    /\ sub = [j \in Jobs |-> "new"]
    /\ rec = [j \in Jobs |-> "idle"]
    /\ wpc = [w \in Workers |-> "idle"]
    /\ wjob \in [Workers -> Jobs]
    /\ wcost = [w \in Workers |-> 0]
    /\ cpc = [c \in Clients |-> "idle"]
    /\ cjob \in [Clients -> Jobs]
    /\ total = balance + frozen
    /\ faults = 0
    /\ lapsed = FALSE

-----------------------------------------------------------------------------
(* Calls and their failures.                                               *)

Smooth == UNCHANGED <<total, faults, lapsed>>
Fault(kind) ==
    /\ kind \in FaultKinds /\ faults < MaxFaults
    /\ faults' = faults + 1 /\ UNCHANGED <<total, lapsed>>

\* A timeout fires: the process it watches is gone, or lapses.
Overdue(gone) ==
    \/ gone /\ Smooth
    \/ /\ ~gone /\ "lapse" \in FaultKinds /\ faults < MaxFaults
       /\ faults' = faults + 1 /\ lapsed' = TRUE /\ UNCHANGED total

\* What the caller learns: done, refused by a guard, or no proper answer.
Results == {"ok", "refused", "error"}
Call(Op(_), state, r) ==
    \/ r = "ok" /\ Op(TRUE) /\ Smooth
    \/ r = "refused" /\ Op(FALSE) /\ Smooth
    \/ r = "error" /\ Fault("error") /\ UNCHANGED state
    \/ r = "error" /\ Fault("late") /\ Op(TRUE)

\* reserveBatchImageBalanceHold, captureBatchImageBalanceHold and
\* releaseBatchImageBalanceHold
ReserveHold(j, r) == Call(LAMBDA ok : ReserveBatchImageBalance(j, ok), ledger, r)
CaptureHold(j, amount, r) == Call(LAMBDA ok : CaptureBatchImageBalance(j, amount, ok), ledger, r)
ReleaseHold(j, r) == Call(LAMBDA ok : ReleaseBatchImageBalance(j, ok), ledger, r)

Transition(j, to, r) == Call(LAMBDA ok : TransitionBatchImageJobStatus(j, to, ok), row, r)

\* An update without a guard, or its error, which callers ignore or log.
Try(update, state) == (update /\ Smooth) \/ (Fault("error") /\ UNCHANGED state)

\* An enqueue and its error.
TryEnqueue(j, r) ==
    \/ r = "ok" /\ Enqueue(j) /\ Smooth
    \/ r = "error" /\ Fault("error") /\ UNCHANGED queue

\* provider.Cancel asks a live batch to stop; it may end otherwise first.
CancelUpstream(j) ==
    /\ \/ upstream[j] = "live" /\ upstream' = [upstream EXCEPT ![j] = "cancelled"]
       \/ UNCHANGED upstream
    /\ UNCHANGED output

-----------------------------------------------------------------------------
(* BatchImagePublicService.Submit, for a request with a new key.           *)

SubAt(j, s) == sub[j] = s /\ UNCHANGED <<rec, worker, client>>
SubGo(j, s) == sub' = [sub EXCEPT ![j] = s]

Submit(j) ==
    /\ SubAt(j, "new") /\ CreateBatchImageJob(j) /\ Smooth
    /\ SubGo(j, "reserve") /\ UNCHANGED <<ledger, queue, provider>>

\* Mutant: only a refused hold stops the job, not an error.
SubmitReserve_IgnoresError(j) ==
    /\ SubAt(j, "reserve")
    /\ \E r \in Results :
          /\ ReserveHold(j, r)
          /\ SubGo(j, IF r = "refused" THEN "record" ELSE "items")
    /\ UNCHANGED <<queue, row, provider>>

SubmitReserve(j) ==
    /\ SubAt(j, "reserve")
    /\ \E r \in Results :
          /\ ReserveHold(j, r)
          /\ SubGo(j, IF r = "ok" THEN "items" ELSE "record")
    /\ UNCHANGED <<queue, row, provider>>

\* createPendingItems
SubmitItems(j) ==
    /\ SubAt(j, "items")
    /\ \/ Smooth /\ SubGo(j, "upload")
       \/ Fault("error") /\ SubGo(j, "undo")
    /\ UNCHANGED <<ledger, queue, row, provider>>

\* A refused transition means that the job has been ended by somebody else.
SubmitUpload(j) ==
    /\ SubAt(j, "upload")
    /\ \E r \in Results :
          /\ Transition(j, "uploading", r)
          /\ SubGo(j, IF r = "ok" THEN "submit" ELSE IF r = "refused" THEN "undoKeep" ELSE "undo")
    /\ UNCHANGED <<ledger, queue, provider>>

\* provider.Submit: accepted, rejected, or accepted without an answer
SubmitProvider(j) ==
    /\ SubAt(j, "submit")
    /\ \/ upstream' = [upstream EXCEPT ![j] = "live"] /\ Smooth /\ SubGo(j, "update")
       \/ UNCHANGED upstream /\ Smooth /\ SubGo(j, "undo")
       \/ upstream' = [upstream EXCEPT ![j] = "live"] /\ Fault("late") /\ SubGo(j, "undo")
    /\ UNCHANGED <<ledger, queue, row, output>>

SubmitUpdate(j) ==
    /\ SubAt(j, "update")
    /\ \E r \in Results :
          /\ Call(LAMBDA ok : UpdateBatchImageJobProviderSubmit(j, ok), row, r)
          /\ SubGo(j, IF r = "ok" THEN "enqueue" ELSE "abort")
    /\ UNCHANGED <<ledger, queue, provider>>

\* abortOrphanProviderJob
SubmitAbort(j) ==
    /\ SubAt(j, "abort") /\ CancelUpstream(j) /\ Smooth
    /\ SubGo(j, "ended") /\ UNCHANGED <<ledger, queue, row>>

SubmitEnqueue(j) ==
    /\ SubAt(j, "enqueue")
    /\ \E r \in Results :
          /\ TryEnqueue(j, r)
          /\ SubGo(j, IF r = "ok" THEN "ended" ELSE "queueFailed")
    /\ UNCHANGED <<ledger, row, provider>>

SubmitQueueFailed(j) ==
    /\ SubAt(j, "queueFailed") /\ Try(RecordBatchImageJobSubmitFailure(j, FALSE), row)
    /\ SubGo(j, "ended") /\ UNCHANGED <<ledger, queue, provider>>

\* releaseFailedSubmitHold, up to the release
SubmitUndo(j) ==
    /\ \E r \in Results :
          /\ ReleaseHold(j, r)
          /\ \/ SubAt(j, "undo") /\ SubGo(j, IF r = "ok" THEN "record" ELSE "giveUp")
             \/ SubAt(j, "undoKeep") /\ SubGo(j, IF r = "ok" THEN "ended" ELSE "giveUp")
    /\ UNCHANGED <<queue, row, provider>>

\* The failure is recorded: then the job is hidden, or its release is retried.
SubmitRecord(j) ==
    /\ \/ SubAt(j, "record") /\ SubGo(j, "hide")
       \/ SubAt(j, "giveUp") /\ SubGo(j, "retry")
    /\ Try(RecordBatchImageJobSubmitFailure(j, TRUE), row)
    /\ UNCHANGED <<ledger, queue, provider>>

\* hidePreUpstreamSubmitFailure
SubmitHide(j) ==
    /\ SubAt(j, "hide") /\ Try(MarkBatchImageJobUserDeleted(j), row)
    /\ SubGo(j, "ended") /\ UNCHANGED <<ledger, queue, provider>>

\* enqueueBillingRetry
SubmitRetry(j) ==
    /\ SubAt(j, "retry") /\ (\E r \in Results : TryEnqueue(j, r))
    /\ SubGo(j, "ended") /\ UNCHANGED <<ledger, row, provider>>

SubmitCrash(j) ==
    /\ sub[j] \notin {"new", "ended"} /\ SubAt(j, sub[j]) /\ Fault("crash")
    /\ SubGo(j, "ended") /\ UNCHANGED <<ledger, queue, row, provider>>

SubmitNext(j) ==
    \/ Submit(j) \/ SubmitReserve(j) \/ SubmitItems(j) \/ SubmitUpload(j)
    \/ SubmitProvider(j) \/ SubmitUpdate(j) \/ SubmitAbort(j) \/ SubmitEnqueue(j)
    \/ SubmitQueueFailed(j) \/ SubmitUndo(j) \/ SubmitRecord(j) \/ SubmitHide(j)
    \/ SubmitRetry(j) \/ SubmitCrash(j)

-----------------------------------------------------------------------------
(* BatchImageBillingRecoveryService.ReleaseStaleUnsubmittedOnce            *)

RecAt(j, s) == rec[j] = s /\ UNCHANGED <<sub, worker, client>>
RecGo(j, s) == rec' = [rec EXCEPT ![j] = s]

\* Submit refreshes updated_at while the provider takes its time.
RecoverFail(j) ==
    /\ RecAt(j, "idle") /\ FailStaleUnsubmittedBatchImageJob(j)
    /\ Overdue(sub[j] = "ended")
    /\ RecGo(j, "release") /\ UNCHANGED <<ledger, queue, provider>>

RecoverRelease(j) ==
    /\ RecAt(j, "release")
    /\ \E r \in Results :
          /\ ReleaseHold(j, r)
          /\ RecGo(j, IF r = "ok" THEN "idle" ELSE "retry")
    /\ UNCHANGED <<queue, row, provider>>

\* enqueueReleaseRetry
RecoverRetry(j) ==
    /\ RecAt(j, "retry") /\ (\E r \in Results : TryEnqueue(j, r))
    /\ RecGo(j, "idle") /\ UNCHANGED <<ledger, row, provider>>

RecoverCrash(j) ==
    /\ rec[j] # "idle" /\ RecAt(j, rec[j]) /\ Fault("crash")
    /\ RecGo(j, "idle") /\ UNCHANGED <<ledger, queue, row, provider>>

RecoverNext(j) == RecoverFail(j) \/ RecoverRelease(j) \/ RecoverRetry(j) \/ RecoverCrash(j)

-----------------------------------------------------------------------------
(* Cancel, DeleteRecord, the repeated Submit and the deletion of outputs.  *)

ClientAt(c, s) == cpc[c] = s /\ UNCHANGED <<sub, rec, worker>>
ClientGo(c, s) == cpc' = [cpc EXCEPT ![c] = s] /\ UNCHANGED cjob

\* Cancel reads the row of a job its owner has not deleted, and decides.
Cancel(c, j) ==
    /\ ClientAt(c, "idle") /\ status[j] # "absent" /\ ~hidden[j]
    /\ cjob' = [cjob EXCEPT ![c] = j]
    /\ \/ status[j] \in {"failed", "cancelled"} /\ cpc' = [cpc EXCEPT ![c] = "release"]
       \/ /\ status[j] \notin Terminal \union {"settling"}
          /\ cpc' = [cpc EXCEPT ![c] = IF named[j] THEN "cancel" ELSE "transition"]
    /\ Smooth /\ UNCHANGED <<ledger, queue, row, provider>>

\* Mutant: Submit is left to return the hold of the cancelled job.
CancelTransition_NoRelease(c) ==
    /\ ClientAt(c, "transition")
    /\ \E r \in Results : Transition(cjob[c], "cancelled", r)
    /\ ClientGo(c, "idle")
    /\ UNCHANGED <<ledger, queue, provider>>

CancelTransition(c) ==
    /\ ClientAt(c, "transition")
    /\ \E r \in Results :
          /\ Transition(cjob[c], "cancelled", r)
          /\ ClientGo(c, IF r = "ok" THEN "release" ELSE "idle")
    /\ UNCHANGED <<ledger, queue, provider>>

CancelRelease(c) ==
    /\ ClientAt(c, "release")
    /\ \E r \in Results :
          /\ ReleaseHold(cjob[c], r)
          /\ ClientGo(c, IF r = "ok" THEN "idle" ELSE "retry")
    /\ UNCHANGED <<queue, row, provider>>

CancelProvider(c) ==
    /\ ClientAt(c, "cancel")
    /\ \/ CancelUpstream(cjob[c]) /\ Smooth /\ ClientGo(c, "enqueue")
       \/ UNCHANGED provider /\ Fault("error") /\ ClientGo(c, "idle")
    /\ UNCHANGED <<ledger, queue, row>>

\* A job that was already submitted under the same key is enqueued again.
Resubmit(c, j) ==
    /\ ClientAt(c, "idle") /\ status[j] = "submitted"
    /\ cjob' = [cjob EXCEPT ![c] = j] /\ cpc' = [cpc EXCEPT ![c] = "resubmit"]
    /\ Smooth /\ UNCHANGED <<ledger, queue, row, provider>>

\* The Enqueue of Cancel, of enqueueBillingRetry and of the repeated Submit
ClientEnqueue(c) ==
    /\ \E r \in Results :
          /\ TryEnqueue(cjob[c], r)
          /\ \/ (ClientAt(c, "retry") \/ ClientAt(c, "enqueue")) /\ ClientGo(c, "idle")
             \/ ClientAt(c, "resubmit") /\ ClientGo(c, IF r = "ok" THEN "idle" ELSE "queueFailed")
    /\ UNCHANGED <<ledger, row, provider>>

ResubmitQueueFailed(c) ==
    /\ ClientAt(c, "queueFailed") /\ Try(RecordBatchImageJobSubmitFailure(cjob[c], FALSE), row)
    /\ ClientGo(c, "idle") /\ UNCHANGED <<ledger, queue, provider>>

ClientCrash(c) ==
    /\ cpc[c] # "idle" /\ ClientAt(c, cpc[c]) /\ Fault("crash")
    /\ ClientGo(c, "idle") /\ UNCHANGED <<ledger, queue, row, provider>>

DeleteRecord(j) ==
    /\ status[j] \in Terminal /\ ~hidden[j] /\ MarkBatchImageJobUserDeleted(j) /\ Smooth
    /\ UNCHANGED <<ledger, queue, provider, sub, rec, worker, client>>

\* cleanupJob, for the output
DeleteOutput(j) ==
    /\ MarkBatchImageOutputDeleted(j) /\ Smooth
    /\ UNCHANGED <<ledger, queue, provider, sub, rec, worker, client>>

ClientNext(c) ==
    \/ \E j \in Jobs : Cancel(c, j) \/ Resubmit(c, j)
    \/ CancelTransition(c) \/ CancelRelease(c) \/ CancelProvider(c) \/ ClientEnqueue(c)
    \/ ResubmitQueueFailed(c) \/ ClientCrash(c)

-----------------------------------------------------------------------------
(* BatchImageWorker.RunOnce and the processors it calls.  A worker that    *)
(* holds the lock of its job reads the row, follows the provider, settles, *)
(* and at the end acknowledges the job or puts it back.                    *)

WorkerAt(w, s) == wpc[w] = s /\ UNCHANGED <<sub, rec, client>>
WorkerTo(w, s) == wpc' = [wpc EXCEPT ![w] = s] /\ UNCHANGED wjob
WorkerGo(w, s) == WorkerTo(w, s) /\ UNCHANGED wcost
\* A worker forgets its job.
WorkerIdle(w) == WorkerTo(w, "idle") /\ wcost' = [wcost EXCEPT ![w] = 0]

WorkerReserve(w, j) ==
    /\ WorkerAt(w, "idle") /\ ReserveOnce(j) /\ Smooth
    /\ wpc' = [wpc EXCEPT ![w] = "lock"]
    /\ wjob' = [wjob EXCEPT ![w] = j]
    /\ UNCHANGED <<wcost, ledger, row, provider>>

\* Mutant: the lock is taken whoever holds it.
WorkerLock_Steals(w) ==
    /\ WorkerAt(w, "lock") /\ Smooth
    /\ lock' = [lock EXCEPT ![wjob[w]] = w]
    /\ WorkerGo(w, "route")
    /\ UNCHANGED <<ready, delayed, active, inflight, ledger, row, provider>>

WorkerLock(w) ==
    /\ WorkerAt(w, "lock")
    /\ \E r \in Results :
          /\ Call(LAMBDA ok : TryAcquireJobLock(wjob[w], w, ok), queue, r)
          /\ WorkerGo(w, IF r = "ok" THEN "route" ELSE "conflict")
    /\ UNCHANGED <<ledger, row, provider>>

WorkerConflict(w) ==
    /\ WorkerAt(w, "conflict") /\ Try(RequeueAfter(wjob[w]), queue)
    /\ WorkerIdle(w) /\ UNCHANGED <<ledger, row, provider>>

\* The steps that only read and then decide.  Process of the pipeline reads the
\* row, and each of the two processors reads it again.
WorkerRead(w) ==
    LET j == wjob[w] IN
    /\ \/ /\ WorkerAt(w, "route")
          /\ WorkerGo(w, IF status[j] = "settling" THEN "settle" ELSE "process")
       \/ /\ WorkerAt(w, "process")
          /\ WorkerGo(w, IF status[j] \in {"failed", "cancelled"} THEN "release"
                         ELSE IF status[j] \in {"settling", "completed", "output_deleted"} THEN "ack"
                         ELSE IF ~named[j] THEN "requeue"
                         ELSE IF status[j] = "indexing" THEN "index"
                         ELSE IF status[j] = "running" THEN "pollRunning" ELSE "poll")
       \/ /\ WorkerAt(w, "reread")
          /\ WorkerGo(w, IF status[j] \in Terminal THEN "ack" ELSE "requeue")
    /\ Smooth /\ UNCHANGED <<ledger, queue, row, provider>>

\* provider.Get; a live batch may be queued or running.
WorkerPoll(w) ==
    LET j == wjob[w] IN
    /\ WorkerAt(w, "poll") \/ WorkerAt(w, "pollRunning")
    /\ \/ upstream[j] = "live" /\ WorkerGo(w, "requeue")
       \/ /\ upstream[j] = "live" /\ wpc[w] = "poll"
          /\ WorkerGo(w, "toRunning")
       \/ upstream[j] = "succeeded" /\ WorkerGo(w, "toIndexing")
       \/ upstream[j] = "failed" /\ WorkerGo(w, "toFailed")
       \/ upstream[j] = "cancelled" /\ WorkerGo(w, "toCancelled")
    /\ Smooth /\ UNCHANGED <<ledger, queue, row, provider>>

\* A row or a provider that cannot be read: the job is put back.
WorkerReadFails(w) ==
    /\ wpc[w] \in {"route", "process", "poll", "pollRunning", "index", "settle", "reread"}
    /\ WorkerAt(w, wpc[w]) /\ Fault("error")
    /\ WorkerGo(w, "requeue") /\ UNCHANGED <<ledger, queue, row, provider>>

\* The transitions of Process and indexAndSettle: step, new status, next step
Transitions == {<<"toRunning", "running", "requeue">>, <<"toIndexing", "indexing", "index">>,
                <<"toFailed", "failed", "release">>, <<"toCancelled", "cancelled", "release">>,
                <<"toSettling", "settling", "requeue">>, <<"fail", "failed", "reread">>}
WorkerTransition(w) ==
    /\ \E t \in Transitions, r \in Results :
          /\ WorkerAt(w, t[1])
          /\ Transition(wjob[w], t[2], r)
          /\ WorkerGo(w, IF r = "ok" THEN t[3] ELSE "requeue")
    /\ UNCHANGED <<ledger, queue, provider>>

\* Index: results that cannot be parsed fail the job, and so does an error of
\* the database; a job that is no longer indexing is put back.
WorkerIndex(w) ==
    LET j == wjob[w] IN
    /\ WorkerAt(w, "index")
    /\ \/ output[j] = {} /\ WorkerGo(w, "toFailed") /\ Smooth /\ UNCHANGED row
       \/ \E amount \in output[j], r \in Results :
             /\ Call(LAMBDA ok : ReplaceBatchImageItemsForJob(j, amount, ok), row, r)
             /\ WorkerGo(w, IF r = "ok" THEN "toSettling"
                            ELSE IF r = "refused" THEN "requeue" ELSE "toFailed")
    /\ UNCHANGED <<ledger, queue, provider>>

\* releaseTerminalHold
WorkerRelease(w) ==
    /\ WorkerAt(w, "release")
    /\ \E r \in Results :
          /\ ReleaseHold(wjob[w], r)
          /\ WorkerGo(w, IF r = "ok" THEN "ack" ELSE "requeue")
    /\ UNCHANGED <<queue, row, provider>>

\* Mutant: one recorded failure is enough to give up.
Exhausted_AtOnce(j) == coded[j]

\* isBatchImageSettlementRetryExhausted
Exhausted(j) == retry[j] >= MaxRetries /\ coded[j]

\* Settle, up to the capture
WorkerSettle(w) ==
    LET j == wjob[w] IN
    /\ WorkerAt(w, "settle")
    /\ wcost' = [wcost EXCEPT ![w] = cost[j]]
    /\ WorkerTo(w, IF status[j] = "completed" THEN "ack"
                   ELSE IF status[j] # "settling" THEN "requeue"
                   ELSE IF Exhausted(j) THEN "exhausted"
                   ELSE IF cost[j] > Hold THEN "recordFailure" ELSE "capture")
    /\ Smooth /\ UNCHANGED <<ledger, queue, row, provider>>

\* Mutant: the job is marked although the capture failed.
WorkerCapture_Unchecked(w) ==
    /\ WorkerAt(w, "capture")
    /\ \E r \in Results : CaptureHold(wjob[w], wcost[w], r) /\ WorkerGo(w, "mark")
    /\ UNCHANGED <<queue, row, provider>>

WorkerCapture(w) ==
    /\ WorkerAt(w, "capture")
    /\ \E r \in Results :
          /\ CaptureHold(wjob[w], wcost[w], r)
          /\ WorkerGo(w, IF r = "ok" THEN "mark" ELSE "recordFailure")
    /\ UNCHANGED <<queue, row, provider>>

WorkerMark(w) ==
    /\ WorkerAt(w, "mark")
    /\ \E r \in Results :
          /\ Call(LAMBDA ok : MarkBatchImageJobSettled(wjob[w], ok), row, r)
          /\ WorkerGo(w, IF r = "ok" THEN "ack" ELSE "requeue")
    /\ UNCHANGED <<ledger, queue, provider>>

\* After a failure that is not about billing the row is not read again.
AfterFailure(w) == IF wcost[w] > Hold THEN "requeue" ELSE "reread"

\* recordSettlementFailure
WorkerRecordFailure(w) ==
    LET j == wjob[w] IN
    /\ WorkerAt(w, "recordFailure")
    /\ \/ /\ SetBatchImageJobSettlementFailed(j) /\ Smooth
          /\ WorkerGo(w, IF retry'[j] >= MaxRetries THEN "exhausted" ELSE AfterFailure(w))
       \/ Fault("error") /\ UNCHANGED row /\ WorkerGo(w, AfterFailure(w))
       \/ Fault("late") /\ SetBatchImageJobSettlementFailed(j) /\ WorkerGo(w, AfterFailure(w))
    /\ UNCHANGED <<ledger, queue, provider>>

\* failExhaustedSettlement, up to the release
WorkerExhausted(w) ==
    /\ WorkerAt(w, "exhausted")
    /\ \E r \in Results :
          /\ ReleaseHold(wjob[w], r)
          /\ WorkerGo(w, IF r = "ok" THEN "fail" ELSE "recordRelease")
    /\ UNCHANGED <<queue, row, provider>>

WorkerRecordRelease(w) ==
    /\ WorkerAt(w, "recordRelease") /\ Try(SetBatchImageJobSettlementFailed(wjob[w]), row)
    /\ WorkerGo(w, "reread") /\ UNCHANGED <<ledger, queue, provider>>

\* The end of RunOnce: Redis may fail, then the job stays in "active".
WorkerEnd(w) ==
    /\ \/ WorkerAt(w, "ack") /\ Try(Ack(wjob[w]), queue)
       \/ WorkerAt(w, "requeue") /\ Try(RequeueAfter(wjob[w]), queue)
    /\ WorkerGo(w, "unlock") /\ UNCHANGED <<ledger, row, provider>>

WorkerUnlock(w) ==
    /\ WorkerAt(w, "unlock") /\ Try(ReleaseJobLock(wjob[w], w), queue)
    /\ WorkerIdle(w) /\ UNCHANGED <<ledger, row, provider>>

WorkerCrash(w) ==
    /\ wpc[w] # "idle" /\ WorkerAt(w, wpc[w]) /\ Fault("crash")
    /\ WorkerIdle(w) /\ UNCHANGED <<ledger, queue, row, provider>>

WorkerNext(w) ==
    \/ \E j \in Jobs : WorkerReserve(w, j)
    \/ WorkerLock(w) \/ WorkerConflict(w) \/ WorkerRead(w) \/ WorkerPoll(w) \/ WorkerReadFails(w)
    \/ WorkerTransition(w) \/ WorkerIndex(w) \/ WorkerRelease(w) \/ WorkerSettle(w)
    \/ WorkerCapture(w) \/ WorkerMark(w) \/ WorkerRecordFailure(w) \/ WorkerExhausted(w)
    \/ WorkerRecordRelease(w) \/ WorkerEnd(w) \/ WorkerUnlock(w) \/ WorkerCrash(w)

-----------------------------------------------------------------------------
(* Timers of the queue, and the provider.                                  *)

\* Some worker has reserved j and has not put it back.
Attended(j) == \E w \in Workers : wpc[w] # "idle" /\ wjob[w] = j

DelayedMover(j) ==
    /\ MoveDueDelayed(j) /\ Smooth
    /\ UNCHANGED <<ledger, row, provider, sub, rec, worker, client>>

\* The worker's heartbeat keeps its job from being recovered.
StaleActiveRecovery(j) ==
    /\ RecoverStaleActive(j) /\ Overdue(~Attended(j))
    /\ UNCHANGED <<ledger, row, provider, sub, rec, worker, client>>

\* The TTL of the lock key, which the heartbeat refreshes
LockExpires(j) ==
    /\ lock[j] # NoWorker
    /\ Overdue(\A w \in Workers : lock[j] = w => ~(wpc[w] \in Processing /\ wjob[w] = j))
    /\ lock' = [lock EXCEPT ![j] = NoWorker]
    /\ UNCHANGED <<ready, delayed, active, inflight>>
    /\ UNCHANGED <<ledger, row, provider, sub, rec, worker, client>>

\* The TTL of the inflight key, which nothing refreshes
InflightExpires(j) ==
    /\ j \in inflight /\ Overdue(FALSE)
    /\ inflight' = inflight \ {j}
    /\ UNCHANGED <<ready, delayed, active, lock>>
    /\ UNCHANGED <<ledger, row, provider, sub, rec, worker, client>>

\* The provider's batch ends.
ProviderEnds(j) ==
    /\ upstream[j] = "live" /\ Smooth
    /\ \/ /\ upstream' = [upstream EXCEPT ![j] = "succeeded"]
          /\ \E o \in Outputs : output' = [output EXCEPT ![j] = o]
       \/ /\ \E s \in {"failed", "cancelled"} : upstream' = [upstream EXCEPT ![j] = s]
          /\ UNCHANGED output
    /\ UNCHANGED <<ledger, queue, row, sub, rec, worker, client>>

TimerNext(j) ==
    \/ DelayedMover(j) \/ StaleActiveRecovery(j) \/ LockExpires(j) \/ InflightExpires(j)
    \/ ProviderEnds(j)

Next ==
    \/ \E j \in Jobs : \/ SubmitNext(j) \/ RecoverNext(j) \/ TimerNext(j)
                       \/ DeleteRecord(j) \/ DeleteOutput(j)
    \/ \E c \in Clients : ClientNext(c)
    \/ \E w \in Workers : WorkerNext(w)

Spec == Init /\ [][Next]_vars

\* Workers and movers loop for ever, a batch ends within the provider's limits,
\* and a lock without a heartbeat expires.
FairSpec ==
    /\ Spec
    /\ \A w \in Workers : WF_vars(WorkerNext(w))
    /\ \A j \in Jobs :
          /\ WF_vars(DelayedMover(j))
          /\ WF_vars(Smooth /\ StaleActiveRecovery(j))
          /\ WF_vars(Smooth /\ LockExpires(j))
          /\ WF_vars(ProviderEnds(j))

-----------------------------------------------------------------------------
(* What the service promises.                                              *)

\* No step of any order, and no failure, makes or loses money: what is held
\* from the balance is frozen, and leaves there as a charge or back to the
\* balance (reserve, capture and release in usage_billing_repo.go).
\* The total is the one at the start, which total remembers.
Conserved == balance + frozen + spent = total

\* A job whose row says that it is with the provider (submitted to indexing) has its
\* hold: taken, and neither captured nor returned, however Cancel, the recovery and
\* the failure paths of Submit interleave.  A job that is being settled had a hold,
\* and no batch is started at the provider for a job whose hold was never taken.
\* It is the row that is funded, not the batch: a job that Cancel or the recovery
\* ends before Submit has named the batch gets its hold back although the batch may
\* run on (the orphan that abortOrphanProviderJob tries to stop).
HandedFunded ==
    \A j \in Jobs :
        /\ status[j] \in Handed => Outstanding(j)
        /\ status[j] = "settling" \/ upstream[j] # "none" => "hold" \in claims[j]

\* A completed job was charged, and exactly its cost, although a settlement is
\* repeated after errors, by a second worker, or after the lock was lost.
CompletedPaid ==
    \A j \in Jobs :
        status[j] \in {"completed", "output_deleted"} =>
            "capture" \in claims[j] /\ charged[j] = cost[j]

\* The hold of a job is not both captured and returned, unless its settlement
\* was given up after all its retries; needs the locks not to be lost.
EndedOnce ==
    \A j \in Jobs :
        ~lapsed /\ "capture" \in claims[j] /\ returned[j] => retry[j] = MaxRetries

\* As long as no lock is lost, one worker at a time processes a job.
OneWorker ==
    ~lapsed => \A w1, w2 \in Workers :
        wpc[w1] \in Processing /\ wpc[w2] \in Processing /\ wjob[w1] = wjob[w2] => w1 = w2

\* What a user can tell from a status, whoever works on the job
Stage(s) ==
    CASE s = "absent" -> "none"
      [] s \in {"created", "uploading"} -> "unsent"
      [] s \in Handed -> "sent"
      [] s = "settling" -> "settling"
      [] s \in {"completed", "output_deleted"} -> "delivered"
      [] OTHER -> "ended"

Promise == INSTANCE BatchImagePromise WITH
    stage <- [j \in Jobs |-> Stage(status[j])],
    held <- {j \in Jobs : "hold" \in claims[j]},
    givenBack <- {j \in Jobs : returned[j]},
    settled <- {j \in Jobs : "capture" \in claims[j]},
    price <- cost,
    charge <- charged

\* Submit, the recovery, clients and workers together implement the promise to
\* the user, step by step, also after lost locks, late errors and crashes: what
\* each of them writes is allowed by what all the others have written before.
KeepsPromise == Promise!Spec

\* A job in the queue does not leave the user's money frozen: its hold is
\* captured or returned at last, whatever errors and crashes happen on the way.
QueuedHoldEnds ==
    \A j \in Jobs :
        (j \in inflight /\ Outstanding(j) /\ status[j] \in Handed \union {"settling"} /\ ~lapsed)
            ~> (~Outstanding(j) \/ lapsed)

\* Somebody works on the job, or it is in the queue.
Pursued(j) ==
    \/ sub[j] # "ended" \/ rec[j] # "idle" \/ Attended(j)
    \/ \E c \in Clients : cpc[c] # "idle" /\ cjob[c] = j
    \/ ready[j] > 0 \/ j \in delayed \/ j \in active

\* batch_image_billing_recovery.go: a failed release must leave a way to retry
\* it, else the frozen balance leaks for ever.  A job that has ended while its
\* hold is outstanding is still in somebody's hands or in the queue.
NoLeak ==
    \A j \in Jobs : status[j] \in {"failed", "cancelled"} /\ Outstanding(j) => Pursued(j)

\* The hold of an ended job is left behind only after a failure, or if its
\* release was claimed before the hold was taken: on all other paths, whoever
\* ends the job sees to the release, or the queue does.
LeakExplained ==
    \A j \in Jobs :
        status[j] \in {"failed", "cancelled"} /\ Outstanding(j) /\ ~Pursued(j)
            => faults > 0 \/ "release" \in claims[j]
=============================================================================
