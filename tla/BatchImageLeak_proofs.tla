----------------------- MODULE BatchImageLeak_proofs -----------------------
(***************************************************************************)
(* Where the hold of an ended job goes: without a failure, nobody drops a  *)
(* job whose hold it should have returned.  Builds on the invariant of     *)
(* BatchImages_proofs, for every set of jobs, workers and clients.         *)
(***************************************************************************)
EXTENDS BatchImages_proofs

-----------------------------------------------------------------------------
(* The parts of the inductive invariant.                                   *)

\* The job is in the queue.
Queued(j) == ready[j] > 0 \/ j \in delayed \/ j \in active

\* Somebody will release the hold of the job, or put the job into the queue.
Carried(j) ==
    \/ sub[j] \in {"giveUp", "retry"}
    \/ rec[j] \in {"release", "retry"}
    \/ \E c \in Clients : cpc[c] \in {"release", "retry"} /\ cjob[c] = j
    \/ \E w \in Workers : wpc[w] \in {"release", "requeue"} /\ wjob[w] = j
    \/ Queued(j)

\* There is a hold, or there may be one, and it is neither captured nor released.
Open(j) ==
    /\ "capture" \notin claims[j] /\ "release" \notin claims[j]
    /\ "hold" \in claims[j] \/ sub[j] = "reserve"

\* The hold of an ended job is taken care of.
Carry == \A j \in Jobs : status[j] \in Given /\ Open(j) => Carried(j)

\* Submit fails a job for good when nothing was held or the hold was released, and so
\* does a worker that gives up the settlement.
FailedLast ==
    /\ \A j \in Jobs : sub[j] = "record" => "hold" \notin claims[j] \/ "release" \in claims[j]
    /\ \A w \in Workers : wpc[w] = "fail" => "release" \in claims[wjob[w]]

\* A worker that may take its job out of the queue knows that it has not failed, or
\* that its hold was released.
Closing == SettleSteps \union {"reread", "ack"}
Closed == {"settling", "completed", "output_deleted"}
ClosingKnows ==
    \A w \in Workers : wpc[w] \in Closing =>
        status[wjob[w]] \in Closed \/ "release" \in claims[wjob[w]]

\* A lapse is a failure.
LapseCounted == lapsed => faults > 0

\* An inflight key belongs to a job in the queue: "already queued" is true.
InflightQueued == \A j \in inflight : Queued(j)

CareInv ==
    /\ LapseCounted /\ InflightQueued
    /\ faults = 0 => Carry /\ FailedLast /\ ClosingKnows

-----------------------------------------------------------------------------
(* Calls without a failure.                                                *)

USE RetryAssumption, LedgerAssumption, QueueAssumption, BatchAssumption
USE DEF row, ledger, queue, provider, worker, client, Results
USE DEF Handed, Terminal, Unsent, Given, Settled, BeforeHandOver, Funding, SettleSteps
USE DEF Closing, Closed

Calm == faults = 0 /\ faults' = 0
Care == Carry /\ FailedLast /\ ClosingKnows

\* In a calm step nothing fails.
LEMMA CalmStep ==
    ASSUME Calm
    PROVE  ~Fault("error") /\ ~Fault("late") /\ ~Fault("crash")
BY DEF Calm, Fault

\* What the claims of a job tell after a calm call of the ledger.
LEMMA CalmReserve ==
    ASSUME TypeOK, Calm, NEW j \in Jobs, NEW r \in Results, ReserveHold(j, r)
    PROVE  /\ \A k \in Jobs \ {j} : claims'[k] = claims[k]
           /\ \/ r = "ok" /\ claims'[j] = claims[j] \union {"hold"}
              \/ r = "refused" /\ claims'[j] = claims[j] /\ "hold" \notin claims[j]
BY CalmStep DEF ReserveHold, Call, ReserveBatchImageBalance, Claim, TypeOK, LedgerTypeOK

LEMMA CalmRelease ==
    ASSUME TypeOK, Calm, NEW j \in Jobs, NEW r \in Results, ReleaseHold(j, r)
    PROVE  /\ \A k \in Jobs \ {j} : claims'[k] = claims[k]
           /\ \/ r = "ok" /\ claims'[j] = claims[j] \union {"release"}
              \/ r = "refused" /\ claims'[j] = claims[j]
BY CalmStep DEF ReleaseHold, Call, ReleaseBatchImageBalance, Claim, TypeOK, LedgerTypeOK

LEMMA CalmCapture ==
    ASSUME TypeOK, Calm, NEW j \in Jobs, NEW r \in Results, NEW amount,
           CaptureHold(j, amount, r)
    PROVE  /\ \A k \in Jobs \ {j} : claims'[k] = claims[k]
           /\ \/ r = "ok" /\ claims'[j] = claims[j] \union {"capture"}
              \/ r = "refused" /\ claims'[j] = claims[j]
BY CalmStep DEF CaptureHold, Call, CaptureBatchImageBalance, Claim, TypeOK, LedgerTypeOK

\* A calm transition is made or refused.
LEMMA CalmTransition ==
    ASSUME Calm, NEW j \in Jobs, NEW to, NEW r \in Results, Transition(j, to, r)
    PROVE  \/ /\ r = "ok" /\ CanTransitionBatchImageJob(status[j], to)
              /\ status' = [status EXCEPT ![j] = to]
           \/ r = "refused" /\ UNCHANGED status
BY CalmStep DEF Transition, Call, TransitionBatchImageJobStatus, SetStatus

\* A calm enqueue puts the job into the queue, or finds it there.
LEMMA CalmEnqueue ==
    ASSUME TypeOK, InflightQueued, Calm, NEW j \in Jobs, NEW r \in Results, TryEnqueue(j, r)
    PROVE  /\ Queued(j)'
           /\ \A k \in Jobs : Queued(k) => Queued(k)'
<1>1. Enqueue(j)
  BY CalmStep DEF TryEnqueue
<1>2. CASE j \in inflight /\ UNCHANGED queue
  BY <1>2 DEF InflightQueued, Queued
<1>3. CASE ready' = [ready EXCEPT ![j] = @ + 1] /\ UNCHANGED <<delayed, active>>
  BY <1>3 DEF TypeOK, QueueTypeOK, Queued
<1>4. QED
  BY <1>1, <1>2, <1>3 DEF Enqueue, Push

-----------------------------------------------------------------------------
(* One lemma per process: its calm steps keep the hold taken care of.      *)

\* Submit
LEMMA SubmitCare ==
    ASSUME Inv, Care, InflightQueued, Calm, NEW j \in Jobs, SubmitNext(j)
    PROVE  Care'
<1> USE CalmStep DEF Care, Inv, JobInv, SubmitFirst, SubAt, SubGo, TypeOK, ControlTypeOK,
                     LedgerTypeOK, RowTypeOK, SubSteps
<1>1. CASE SubmitReserve(j)
  <2>0. PICK r \in Results :
            ReserveHold(j, r) /\ SubGo(j, IF r = "ok" THEN "items" ELSE "record")
    BY <1>1 DEF SubmitReserve
  <2> USE <1>1, <2>0, CalmReserve DEF SubmitReserve
  <2>1. Carry'
    BY DEF Carry, Open, Carried, Queued
  <2>2. FailedLast'
    BY DEF FailedLast
  <2>3. ClosingKnows'
    BY DEF ClosingKnows
  <2>4. QED
    BY <2>1, <2>2, <2>3
<1>2. CASE SubmitUpload(j)
  <2>0. PICK r \in Results :
            /\ Transition(j, "uploading", r)
            /\ SubGo(j, IF r = "ok" THEN "submit" ELSE IF r = "refused" THEN "undoKeep"
                        ELSE "undo")
    BY <1>2 DEF SubmitUpload
  <2> USE <1>2, <2>0, CalmTransition DEF SubmitUpload, CanTransitionBatchImageJob
  <2>1. Carry'
    BY DEF Carry, Open, Carried, Queued
  <2>2. FailedLast'
    BY DEF FailedLast
  <2>3. ClosingKnows'
    BY DEF ClosingKnows
  <2>4. QED
    BY <2>1, <2>2, <2>3
<1>3. CASE SubmitUpdate(j)
  <2> USE <1>3 DEF SubmitUpdate, Call, UpdateBatchImageJobProviderSubmit, SetStatus,
             CanTransitionBatchImageJob
  <2>1. Carry'
    BY DEF Carry, Open, Carried, Queued
  <2>2. FailedLast'
    BY DEF FailedLast
  <2>3. ClosingKnows'
    BY DEF ClosingKnows
  <2>4. QED
    BY <2>1, <2>2, <2>3
<1>4. CASE SubmitUndo(j)
  <2>0. PICK r \in Results :
            /\ ReleaseHold(j, r)
            /\ \/ SubAt(j, "undo") /\ SubGo(j, IF r = "ok" THEN "record" ELSE "giveUp")
               \/ SubAt(j, "undoKeep") /\ SubGo(j, IF r = "ok" THEN "ended" ELSE "giveUp")
    BY <1>4 DEF SubmitUndo
  <2> USE <1>4, <2>0, CalmRelease DEF SubmitUndo
  <2>1. Carry'
    BY DEF Carry, Open, Carried, Queued
  <2>2. FailedLast'
    BY DEF FailedLast
  <2>3. ClosingKnows'
    BY DEF ClosingKnows
  <2>4. QED
    BY <2>1, <2>2, <2>3
<1>5. CASE SubmitRecord(j)
  <2> USE <1>5 DEF SubmitRecord, Try, RecordBatchImageJobSubmitFailure
  <2>1. Carry'
    BY DEF Carry, Open, Carried, Queued, FailedLast
  <2>2. FailedLast'
    BY DEF FailedLast
  <2>3. ClosingKnows'
    BY DEF ClosingKnows
  <2>4. QED
    BY <2>1, <2>2, <2>3
<1>6. CASE SubmitEnqueue(j) \/ SubmitRetry(j)
  <2>0. /\ Queued(j)' /\ (\A k \in Jobs : Queued(k) => Queued(k)')
        /\ sub' = [sub EXCEPT ![j] = "ended"] \/ sub' = [sub EXCEPT ![j] = "queueFailed"]
    BY <1>6, CalmEnqueue DEF SubmitEnqueue, SubmitRetry
  <2>1. Carry'
    BY <1>6, <2>0 DEF SubmitEnqueue, SubmitRetry, Carry, Open, Carried
  <2>2. FailedLast'
    BY <1>6, <2>0 DEF SubmitEnqueue, SubmitRetry, FailedLast
  <2>3. ClosingKnows'
    BY <1>6, <2>0 DEF SubmitEnqueue, SubmitRetry, ClosingKnows
  <2>4. QED
    BY <2>1, <2>2, <2>3
<1>7. CASE Submit(j)
  <2> USE <1>7 DEF Submit, CreateBatchImageJob, SetStatus
  <2>1. Carry'
    BY DEF Carry, Open, Carried, Queued
  <2>2. FailedLast'
    BY DEF FailedLast
  <2>3. ClosingKnows'
    BY DEF ClosingKnows
  <2>4. QED
    BY <2>1, <2>2, <2>3
<1>8. CASE SubmitItems(j) \/ SubmitProvider(j) \/ SubmitAbort(j)
  <2> USE <1>8 DEF SubmitItems, SubmitProvider, SubmitAbort
  <2>1. Carry'
    BY DEF Carry, Open, Carried, Queued
  <2>2. FailedLast'
    BY DEF FailedLast
  <2>3. ClosingKnows'
    BY DEF ClosingKnows
  <2>4. QED
    BY <2>1, <2>2, <2>3
<1>9. CASE SubmitQueueFailed(j) \/ SubmitHide(j)
  <2> USE <1>9 DEF SubmitQueueFailed, SubmitHide, Try, RecordBatchImageJobSubmitFailure,
               MarkBatchImageJobUserDeleted
  <2>1. Carry'
    BY DEF Carry, Open, Carried, Queued
  <2>2. FailedLast'
    BY DEF FailedLast
  <2>3. ClosingKnows'
    BY DEF ClosingKnows
  <2>4. QED
    BY <2>1, <2>2, <2>3
<1>10. QED
  BY <1>1, <1>2, <1>3, <1>4, <1>5, <1>6, <1>7, <1>8, <1>9 DEF SubmitNext, SubmitCrash

\* The recovery
LEMMA RecoverCare ==
    ASSUME Inv, Care, InflightQueued, Calm, NEW j \in Jobs, RecoverNext(j)
    PROVE  Care'
<1> USE CalmStep DEF Care, Inv, RecAt, RecGo, TypeOK, ControlTypeOK, LedgerTypeOK, RowTypeOK
<1>1. CASE RecoverFail(j)
  <2> USE <1>1 DEF RecoverFail, FailStaleUnsubmittedBatchImageJob, SetStatus
  <2>1. Carry'
    BY DEF Carry, Open, Carried, Queued
  <2>2. FailedLast'
    BY DEF FailedLast
  <2>3. ClosingKnows'
    BY DEF ClosingKnows
  <2>4. QED
    BY <2>1, <2>2, <2>3
<1>2. CASE RecoverRelease(j)
  <2>0. PICK r \in Results :
            ReleaseHold(j, r) /\ RecGo(j, IF r = "ok" THEN "idle" ELSE "retry")
    BY <1>2 DEF RecoverRelease
  <2> USE <1>2, <2>0, CalmRelease DEF RecoverRelease
  <2>1. Carry'
    BY DEF Carry, Open, Carried, Queued
  <2>2. FailedLast'
    BY DEF FailedLast
  <2>3. ClosingKnows'
    BY DEF ClosingKnows
  <2>4. QED
    BY <2>1, <2>2, <2>3
<1>3. CASE RecoverRetry(j)
  <2>0. Queued(j)' /\ (\A k \in Jobs : Queued(k) => Queued(k)')
    BY <1>3, CalmEnqueue DEF RecoverRetry
  <2>1. Carry'
    BY <1>3, <2>0 DEF RecoverRetry, Carry, Open, Carried
  <2>2. FailedLast'
    BY <1>3 DEF RecoverRetry, FailedLast
  <2>3. ClosingKnows'
    BY <1>3 DEF RecoverRetry, ClosingKnows
  <2>4. QED
    BY <2>1, <2>2, <2>3
<1>4. QED
  BY <1>1, <1>2, <1>3 DEF RecoverNext, RecoverCrash

\* Clients
LEMMA ClientCare ==
    ASSUME Inv, Care, InflightQueued, Calm, NEW c \in Clients, ClientNext(c)
    PROVE  Care'
<1> USE CalmStep DEF Care, Inv, ClientAt, ClientGo, TypeOK, ControlTypeOK, LedgerTypeOK,
                     RowTypeOK
<1>1. ASSUME NEW j \in Jobs, Cancel(c, j) \/ Resubmit(c, j)
      PROVE  Care'
  <2> USE <1>1 DEF Cancel, Resubmit
  <2>1. Carry'
    BY DEF Carry, Open, Carried, Queued
  <2>2. FailedLast'
    BY DEF FailedLast
  <2>3. ClosingKnows'
    BY DEF ClosingKnows
  <2>4. QED
    BY <2>1, <2>2, <2>3
<1>2. CASE CancelTransition(c)
  <2>0. PICK r \in Results :
            /\ Transition(cjob[c], "cancelled", r)
            /\ ClientGo(c, IF r = "ok" THEN "release" ELSE "idle")
    BY <1>2 DEF CancelTransition
  <2> USE <1>2, <2>0, CalmTransition DEF CancelTransition, CanTransitionBatchImageJob
  <2>1. Carry'
    BY DEF Carry, Open, Carried, Queued
  <2>2. FailedLast'
    BY DEF FailedLast
  <2>3. ClosingKnows'
    BY DEF ClosingKnows
  <2>4. QED
    BY <2>1, <2>2, <2>3
<1>3. CASE CancelRelease(c)
  <2>0. PICK r \in Results :
            ReleaseHold(cjob[c], r) /\ ClientGo(c, IF r = "ok" THEN "idle" ELSE "retry")
    BY <1>3 DEF CancelRelease
  <2> USE <1>3, <2>0, CalmRelease DEF CancelRelease
  <2>1. Carry'
    BY DEF Carry, Open, Carried, Queued
  <2>2. FailedLast'
    BY DEF FailedLast
  <2>3. ClosingKnows'
    BY DEF ClosingKnows
  <2>4. QED
    BY <2>1, <2>2, <2>3
<1>4. CASE CancelProvider(c)
  <2> USE <1>4 DEF CancelProvider
  <2>1. Carry'
    BY DEF Carry, Open, Carried, Queued
  <2>2. FailedLast'
    BY DEF FailedLast
  <2>3. ClosingKnows'
    BY DEF ClosingKnows
  <2>4. QED
    BY <2>1, <2>2, <2>3
<1>5. CASE ClientEnqueue(c)
  <2>0. /\ Queued(cjob[c])' /\ (\A k \in Jobs : Queued(k) => Queued(k)')
        /\ UNCHANGED <<cjob, sub, rec, worker>>
        /\ \A d \in Clients \ {c} : cpc'[d] = cpc[d]
    BY <1>5, CalmEnqueue DEF ClientEnqueue
  <2>1. Carry'
    BY <1>5, <2>0 DEF ClientEnqueue, Carry, Open, Carried
  <2>2. FailedLast'
    BY <1>5, <2>0 DEF ClientEnqueue, FailedLast
  <2>3. ClosingKnows'
    BY <1>5, <2>0 DEF ClientEnqueue, ClosingKnows
  <2>4. QED
    BY <2>1, <2>2, <2>3
<1>6. CASE ResubmitQueueFailed(c)
  <2> USE <1>6 DEF ResubmitQueueFailed, Try, RecordBatchImageJobSubmitFailure
  <2>1. Carry'
    BY DEF Carry, Open, Carried, Queued
  <2>2. FailedLast'
    BY DEF FailedLast
  <2>3. ClosingKnows'
    BY DEF ClosingKnows
  <2>4. QED
    BY <2>1, <2>2, <2>3
<1>7. QED
  BY <1>1, <1>2, <1>3, <1>4, <1>5, <1>6 DEF ClientNext, ClientCrash

\* Workers.  Without a lapse no other worker processes the same job.
LEMMA WorkerCare ==
    ASSUME Inv, Care, LapseCounted, Calm, NEW w \in Workers, WorkerNext(w)
    PROVE  Care'
<1>0. \A v \in Workers \ {w} : wpc[w] \in Processing /\ wpc[v] \in Processing => wjob[v] # wjob[w]
  BY DEF Inv, OnceInv, LockIsOwn, LapseCounted, Calm
<1> USE CalmStep DEF Care, Inv, WorkerAt, WorkerGo, WorkerTo, WorkerIdle,
                     TypeOK, ControlTypeOK, LedgerTypeOK, RowTypeOK
<1>1. ASSUME NEW j \in Jobs, WorkerReserve(w, j)
      PROVE  Care'
  <2> USE <1>1 DEF WorkerReserve, ReserveOnce, QueueTypeOK
  <2>1. Carry'
    BY DEF Carry, Open, Carried, Queued
  <2>2. FailedLast'
    BY DEF FailedLast
  <2>3. ClosingKnows'
    BY DEF ClosingKnows
  <2>4. QED
    BY <2>1, <2>2, <2>3
<1>2. CASE WorkerLock(w)
  <2> USE <1>2 DEF WorkerLock, Call, TryAcquireJobLock
  <2>1. Carry'
    BY DEF Carry, Open, Carried, Queued
  <2>2. FailedLast'
    BY DEF FailedLast
  <2>3. ClosingKnows'
    BY DEF ClosingKnows
  <2>4. QED
    BY <2>1, <2>2, <2>3
<1>3. CASE WorkerConflict(w)
  <2> USE <1>3 DEF WorkerConflict, Try, RequeueAfter
  <2>1. Carry'
    BY DEF Carry, Open, Carried, Queued
  <2>2. FailedLast'
    BY DEF FailedLast
  <2>3. ClosingKnows'
    BY DEF ClosingKnows
  <2>4. QED
    BY <2>1, <2>2, <2>3
<1>4. CASE WorkerRead(w)
  <2> USE <1>4 DEF WorkerRead
  <2>1. Carry'
    BY DEF Carry, Open, Carried, Queued
  <2>2. FailedLast'
    BY DEF FailedLast
  <2>3. ClosingKnows'
    BY DEF ClosingKnows
  <2>4. QED
    BY <2>1, <2>2, <2>3
<1>5. CASE WorkerPoll(w)
  <2> USE <1>5 DEF WorkerPoll
  <2>1. Carry'
    BY DEF Carry, Open, Carried, Queued
  <2>2. FailedLast'
    BY DEF FailedLast
  <2>3. ClosingKnows'
    BY DEF ClosingKnows
  <2>4. QED
    BY <2>1, <2>2, <2>3
<1>6. CASE WorkerTransition(w)
  <2>0. PICK t \in Transitions, r \in Results :
            /\ WorkerAt(w, t[1])
            /\ Transition(wjob[w], t[2], r)
            /\ WorkerGo(w, IF r = "ok" THEN t[3] ELSE "requeue")
    BY <1>6 DEF WorkerTransition
  <2>a. \/ t[1] = "fail" /\ t[2] = "failed" /\ t[3] = "reread"
        \/ /\ t[1] \in {"toRunning", "toIndexing", "toFailed", "toCancelled", "toSettling"}
           /\ t[3] \in {"requeue", "index", "release"}
           /\ t[2] \in Given => t[3] = "release"
    BY DEF Transitions
  <2> USE <1>0, <1>6, <2>0, <2>a, CalmTransition DEF WorkerTransition, CanTransitionBatchImageJob, Processing
  <2>1. Carry'
    BY DEF Carry, Open, Carried, Queued, FailedLast
  <2>2. FailedLast'
    BY DEF FailedLast
  <2>3. ClosingKnows'
    <3> SUFFICES ASSUME NEW v \in Workers, wpc'[v] \in Closing
                 PROVE  \/ status'[wjob'[v]] \in Closed
                        \/ "release" \in claims'[wjob'[v]]
      BY DEF ClosingKnows
    <3>1. wjob' = wjob /\ claims' = claims
      BY ONLY <1>6, <2>0 DEF WorkerTransition, WorkerGo, WorkerTo, ledger
    <3>2. CASE v = w
      <4>1. wpc'[w] \in {t[3], "requeue"}
        BY ONLY <2>0, TypeOK DEF WorkerGo, WorkerTo, TypeOK, ControlTypeOK
      <4>2. t[1] = "fail"
        BY ONLY <2>a, <3>2, <4>1, wpc'[v] \in Closing DEF Closing, SettleSteps
      <4>3. QED
        BY ONLY <2>0, <3>1, <3>2, <4>2, FailedLast, w \in Workers DEF FailedLast, WorkerAt
    <3>3. CASE v # w
      <4>1. wpc'[v] = wpc[v]
        BY ONLY <2>0, <3>3, TypeOK, v \in Workers DEF WorkerGo, WorkerTo, TypeOK, ControlTypeOK
      <4>2. wpc[w] \in Processing /\ wpc[v] \in Processing
        BY ONLY <2>0, <2>a, <4>1, wpc'[v] \in Closing
           DEF WorkerAt, Closing, SettleSteps, Processing
      <4>3. wjob[v] # wjob[w] /\ wjob[v] \in Jobs /\ wjob[w] \in Jobs
        BY ONLY <1>0, <3>3, <4>2, TypeOK, w \in Workers, v \in Workers DEF TypeOK, ControlTypeOK
      <4>4. status'[wjob[v]] = status[wjob[v]]
        <5>1. UNCHANGED status \/ status' = [status EXCEPT ![wjob[w]] = t[2]]
          BY ONLY <2>0, <4>3, Calm, r \in Results, CalmTransition
        <5>2. QED
          BY ONLY <4>3, <5>1, TypeOK DEF TypeOK, RowTypeOK
      <4>5. QED
        BY ONLY <3>1, <4>1, <4>4, ClosingKnows, wpc'[v] \in Closing, v \in Workers
           DEF ClosingKnows
    <3>4. QED
      BY <3>2, <3>3
  <2>4. QED
    BY <2>1, <2>2, <2>3
<1>7. CASE WorkerIndex(w)
  <2> USE <1>7 DEF WorkerIndex, Call, ReplaceBatchImageItemsForJob
  <2>1. Carry'
    BY DEF Carry, Open, Carried, Queued
  <2>2. FailedLast'
    BY DEF FailedLast
  <2>3. ClosingKnows'
    BY DEF ClosingKnows
  <2>4. QED
    BY <2>1, <2>2, <2>3
<1>8. CASE WorkerRelease(w)
  <2>0. PICK r \in Results :
            ReleaseHold(wjob[w], r) /\ WorkerGo(w, IF r = "ok" THEN "ack" ELSE "requeue")
    BY <1>8 DEF WorkerRelease
  <2> USE <1>8, <2>0, CalmRelease DEF WorkerRelease
  <2>1. Carry'
    BY DEF Carry, Open, Carried, Queued
  <2>2. FailedLast'
    BY DEF FailedLast
  <2>3. ClosingKnows'
    BY DEF ClosingKnows
  <2>4. QED
    BY <2>1, <2>2, <2>3
<1>9. CASE WorkerSettle(w)
  <2> USE <1>9 DEF WorkerSettle
  <2>1. Carry'
    BY DEF Carry, Open, Carried, Queued
  <2>2. FailedLast'
    BY DEF FailedLast
  <2>3. ClosingKnows'
    BY DEF ClosingKnows
  <2>4. QED
    BY <2>1, <2>2, <2>3
<1>10. CASE WorkerCapture(w)
  <2>0. PICK r \in Results :
            /\ CaptureHold(wjob[w], wcost[w], r)
            /\ WorkerGo(w, IF r = "ok" THEN "mark" ELSE "recordFailure")
    BY <1>10 DEF WorkerCapture
  <2> USE <1>10, <2>0, CalmCapture DEF WorkerCapture
  <2>1. Carry'
    BY DEF Carry, Open, Carried, Queued
  <2>2. FailedLast'
    BY DEF FailedLast
  <2>3. ClosingKnows'
    BY DEF ClosingKnows
  <2>4. QED
    BY <2>1, <2>2, <2>3
<1>11. CASE WorkerMark(w)
  <2> USE <1>11 DEF WorkerMark, Call, MarkBatchImageJobSettled, SetStatus
  <2>1. Carry'
    BY DEF Carry, Open, Carried, Queued
  <2>2. FailedLast'
    BY DEF FailedLast
  <2>3. ClosingKnows'
    BY DEF ClosingKnows
  <2>4. QED
    BY <2>1, <2>2, <2>3
<1>12. CASE WorkerRecordFailure(w) \/ WorkerRecordRelease(w)
  <2> USE <1>12 DEF WorkerRecordFailure, WorkerRecordRelease, AfterFailure, Try,
           SetBatchImageJobSettlementFailed
  <2>1. Carry'
    BY DEF Carry, Open, Carried, Queued
  <2>2. FailedLast'
    BY DEF FailedLast
  <2>3. ClosingKnows'
    BY DEF ClosingKnows
  <2>4. QED
    BY <2>1, <2>2, <2>3
<1>13. CASE WorkerExhausted(w)
  <2>0. PICK r \in Results :
            ReleaseHold(wjob[w], r) /\ WorkerGo(w, IF r = "ok" THEN "fail" ELSE "recordRelease")
    BY <1>13 DEF WorkerExhausted
  <2> USE <1>13, <2>0, CalmRelease DEF WorkerExhausted
  <2>1. Carry'
    BY DEF Carry, Open, Carried, Queued
  <2>2. FailedLast'
    BY DEF FailedLast
  <2>3. ClosingKnows'
    BY DEF ClosingKnows
  <2>4. QED
    BY <2>1, <2>2, <2>3
<1>14. CASE WorkerEnd(w)
  <2> USE <1>14 DEF WorkerEnd, Try, Ack, RequeueAfter
  <2>1. Carry'
    BY DEF Carry, Open, Carried, Queued, ClosingKnows
  <2>2. FailedLast'
    BY DEF FailedLast
  <2>3. ClosingKnows'
    BY DEF ClosingKnows
  <2>4. QED
    BY <2>1, <2>2, <2>3
<1>15. CASE WorkerUnlock(w)
  <2> USE <1>15 DEF WorkerUnlock, Try, ReleaseJobLock
  <2>1. Carry'
    BY DEF Carry, Open, Carried, Queued
  <2>2. FailedLast'
    BY DEF FailedLast
  <2>3. ClosingKnows'
    BY DEF ClosingKnows
  <2>4. QED
    BY <2>1, <2>2, <2>3
<1>16. QED
  BY <1>1, <1>2, <1>3, <1>4, <1>5, <1>6, <1>7, <1>8, <1>9, <1>10, <1>11, <1>12, <1>13,
     <1>14, <1>15 DEF WorkerNext, WorkerReadFails, WorkerCrash

\* Timers and deletions
LEMMA OtherCare ==
    ASSUME Inv, Care, Calm, NEW j \in Jobs,
           TimerNext(j) \/ DeleteRecord(j) \/ DeleteOutput(j)
    PROVE  Care'
<1> USE CalmStep DEF Care, Inv, TypeOK, ControlTypeOK, LedgerTypeOK, RowTypeOK, QueueTypeOK
<1>1. CASE DelayedMover(j) \/ StaleActiveRecovery(j)
  <2> USE <1>1 DEF DelayedMover, StaleActiveRecovery, MoveDueDelayed, RecoverStaleActive, Push
  <2>1. Carry'
    BY DEF Carry, Open, Carried, Queued
  <2>2. FailedLast'
    BY DEF FailedLast
  <2>3. ClosingKnows'
    BY DEF ClosingKnows
  <2>4. QED
    BY <2>1, <2>2, <2>3
<1>2. CASE LockExpires(j) \/ InflightExpires(j) \/ ProviderEnds(j)
  <2> USE <1>2 DEF LockExpires, InflightExpires, ProviderEnds
  <2>1. Carry'
    BY DEF Carry, Open, Carried, Queued
  <2>2. FailedLast'
    BY DEF FailedLast
  <2>3. ClosingKnows'
    BY DEF ClosingKnows
  <2>4. QED
    BY <2>1, <2>2, <2>3
<1>3. CASE DeleteRecord(j) \/ DeleteOutput(j)
  <2> USE <1>3 DEF DeleteRecord, DeleteOutput, MarkBatchImageJobUserDeleted,
           MarkBatchImageOutputDeleted, SetStatus
  <2>1. Carry'
    BY DEF Carry, Open, Carried, Queued
  <2>2. FailedLast'
    BY DEF FailedLast
  <2>3. ClosingKnows'
    BY DEF ClosingKnows
  <2>4. QED
    BY <2>1, <2>2, <2>3
<1>4. QED
  BY <1>1, <1>2, <1>3 DEF TimerNext

\* A step that changes nothing
LEMMA StutterCare ==
    ASSUME Care, UNCHANGED vars
    PROVE  Care'
<1>1. Carry'
  BY DEF vars, Care, Carry, Open, Carried, Queued
<1>2. FailedLast'
  BY DEF vars, Care, FailedLast
<1>3. ClosingKnows'
  BY DEF vars, Care, ClosingKnows
<1>4. QED
  BY <1>1, <1>2, <1>3 DEF Care

-----------------------------------------------------------------------------
(* The parts that hold with failures too.                                  *)

\* A step counts at most one failure, and counts it when something lapses.
Counted ==
    \/ faults' = faults /\ lapsed' = lapsed
    \/ faults' = faults + 1

LEMMA CallCounted ==
    /\ Smooth => Counted
    /\ \A kind : Fault(kind) => Counted
    /\ \A gone : Overdue(gone) => Counted
BY DEF Smooth, Fault, Overdue, Counted

\* What the scripts of the queue do: one of them, on one job, or nothing but the lock.
LockOnly == UNCHANGED <<ready, delayed, active, inflight>>
Script(j) ==
    \/ LockOnly \/ Enqueue(j) \/ ReserveOnce(j) \/ RequeueAfter(j) \/ Ack(j)
    \/ MoveDueDelayed(j) \/ RecoverStaleActive(j)
    \/ inflight' = inflight \ {j} /\ UNCHANGED <<ready, delayed, active>>

\* No script takes a job out of the queue and leaves its inflight key.
LEMMA ScriptKeepsQueued ==
    ASSUME QueueTypeOK, InflightQueued, NEW j \in Jobs, Script(j)
    PROVE  InflightQueued'
<1> SUFFICES ASSUME NEW k \in inflight' PROVE Queued(k)'
  BY DEF InflightQueued
<1>1. CASE Enqueue(j)
  BY <1>1 DEF Enqueue, Push, QueueTypeOK, InflightQueued, Queued
<1>2. CASE ReserveOnce(j)
  BY <1>2 DEF ReserveOnce, QueueTypeOK, InflightQueued, Queued
<1>3. CASE RequeueAfter(j) \/ Ack(j)
  BY <1>3 DEF RequeueAfter, Ack, QueueTypeOK, InflightQueued, Queued
<1>4. CASE MoveDueDelayed(j) \/ RecoverStaleActive(j)
  BY <1>4 DEF MoveDueDelayed, RecoverStaleActive, Push, QueueTypeOK, InflightQueued, Queued
<1>5. CASE LockOnly \/ (inflight' = inflight \ {j} /\ UNCHANGED <<ready, delayed, active>>)
  BY <1>5 DEF LockOnly, InflightQueued, Queued
<1>6. QED
  BY <1>1, <1>2, <1>3, <1>4, <1>5 DEF Script

\* One lemma per process: its steps count their failures and run one script at most.
LEMMA SubmitScript ==
    ASSUME NEW j \in Jobs, SubmitNext(j)
    PROVE  Counted /\ Script(j)
<1> USE CallCounted DEF Script, LockOnly
<1>1. CASE Submit(j) \/ SubmitItems(j) \/ SubmitProvider(j) \/ SubmitAbort(j) \/ SubmitCrash(j)
  BY <1>1 DEF Submit, SubmitItems, SubmitProvider, SubmitAbort, SubmitCrash
<1>2. CASE SubmitReserve(j) \/ SubmitUndo(j)
  BY <1>2 DEF SubmitReserve, SubmitUndo, ReserveHold, ReleaseHold, Call
<1>3. CASE SubmitUpload(j) \/ SubmitUpdate(j)
  BY <1>3 DEF SubmitUpload, SubmitUpdate, Transition, Call
<1>4. CASE SubmitEnqueue(j) \/ SubmitRetry(j)
  BY <1>4 DEF SubmitEnqueue, SubmitRetry, TryEnqueue
<1>5. CASE SubmitQueueFailed(j) \/ SubmitRecord(j) \/ SubmitHide(j)
  BY <1>5 DEF SubmitQueueFailed, SubmitRecord, SubmitHide, Try
<1>6. QED
  BY <1>1, <1>2, <1>3, <1>4, <1>5 DEF SubmitNext

LEMMA RecoverScript ==
    ASSUME NEW j \in Jobs, RecoverNext(j)
    PROVE  Counted /\ Script(j)
BY CallCounted DEF Script, LockOnly, RecoverNext, RecoverFail, RecoverRelease, RecoverRetry,
   RecoverCrash, ReleaseHold, Call, TryEnqueue

LEMMA ClientScript ==
    ASSUME TypeOK, NEW c \in Clients, ClientNext(c)
    PROVE  Counted /\ \E j \in Jobs : Script(j)
<1>0. cjob[c] \in Jobs
  BY DEF TypeOK, ControlTypeOK
<1> USE CallCounted DEF Script, LockOnly
<1>1. CASE (\E j \in Jobs : Cancel(c, j) \/ Resubmit(c, j)) \/ CancelProvider(c) \/ ClientCrash(c)
  BY <1>0, <1>1 DEF Cancel, Resubmit, CancelProvider, ClientCrash
<1>2. CASE CancelTransition(c) \/ CancelRelease(c)
  BY <1>0, <1>2 DEF CancelTransition, CancelRelease, Transition, ReleaseHold, Call
<1>3. CASE ClientEnqueue(c) \/ ResubmitQueueFailed(c)
  BY <1>0, <1>3 DEF ClientEnqueue, ResubmitQueueFailed, TryEnqueue, Try
<1>4. QED
  BY <1>1, <1>2, <1>3 DEF ClientNext

LEMMA WorkerScript ==
    ASSUME TypeOK, NEW w \in Workers, WorkerNext(w)
    PROVE  Counted /\ \E j \in Jobs : Script(j)
<1>0. wjob[w] \in Jobs
  BY DEF TypeOK, ControlTypeOK
<1> USE CallCounted DEF Script, LockOnly
<1>1. CASE (\E j \in Jobs : WorkerReserve(w, j)) \/ WorkerConflict(w) \/ WorkerEnd(w)
  BY <1>0, <1>1 DEF WorkerReserve, WorkerConflict, WorkerEnd, Try
<1>2. CASE WorkerLock(w) \/ WorkerUnlock(w)
  BY <1>0, <1>2 DEF WorkerLock, WorkerUnlock, Call, Try, TryAcquireJobLock, ReleaseJobLock
<1>3. CASE WorkerRead(w) \/ WorkerPoll(w) \/ WorkerReadFails(w) \/ WorkerSettle(w) \/ WorkerCrash(w)
  BY <1>0, <1>3 DEF WorkerRead, WorkerPoll, WorkerReadFails, WorkerSettle, WorkerCrash
<1>4. CASE WorkerTransition(w) \/ WorkerIndex(w) \/ WorkerMark(w)
  BY <1>0, <1>4 DEF WorkerTransition, WorkerIndex, WorkerMark, Transition, Call
<1>5. CASE WorkerRelease(w) \/ WorkerCapture(w) \/ WorkerExhausted(w)
  BY <1>0, <1>5 DEF WorkerRelease, WorkerCapture, WorkerExhausted, ReleaseHold, CaptureHold, Call
<1>6. CASE WorkerRecordFailure(w) \/ WorkerRecordRelease(w)
  BY <1>0, <1>6 DEF WorkerRecordFailure, WorkerRecordRelease, Try
<1>7. QED
  BY <1>1, <1>2, <1>3, <1>4, <1>5, <1>6 DEF WorkerNext

LEMMA OtherScript ==
    ASSUME NEW j \in Jobs, TimerNext(j) \/ DeleteRecord(j) \/ DeleteOutput(j)
    PROVE  Counted /\ Script(j)
BY CallCounted DEF Script, LockOnly, TimerNext, DelayedMover, StaleActiveRecovery, LockExpires,
   InflightExpires, ProviderEnds, DeleteRecord, DeleteOutput

-----------------------------------------------------------------------------
(* The invariant is inductive.                                             *)

LEMMA CareInit == Init => CareInv
BY DEF Init, CareInv, LapseCounted, InflightQueued, Carry, FailedLast, ClosingKnows

LEMMA CareStep == Inv /\ CareInv /\ [Next]_vars => CareInv'
<1> SUFFICES ASSUME Inv, CareInv, [Next]_vars PROVE CareInv'
  OBVIOUS
<1>1. TypeOK /\ QueueTypeOK /\ faults \in Nat
  BY DEF Inv, TypeOK, ControlTypeOK
<1>2. /\ Counted
      /\ LockOnly \/ \E j \in Jobs : Script(j)
  <2>1. CASE UNCHANGED vars
    BY <2>1 DEF vars, Counted, LockOnly
  <2>2. CASE Next
    BY <1>1, <2>2, SubmitScript, RecoverScript, ClientScript, WorkerScript, OtherScript DEF Next
  <2>3. QED
    BY <2>1, <2>2
<1>3. LapseCounted'
  <2>1. CASE faults' = faults /\ lapsed' = lapsed
    BY <2>1, Zenon DEF CareInv, LapseCounted
  <2>2. CASE faults' = faults + 1
    <3>1. faults' > 0
      BY <1>1, <2>2
    <3>2. QED
      BY <3>1 DEF LapseCounted
  <2>3. QED
    BY <1>2, <2>1, <2>2 DEF Counted
<1>4. InflightQueued'
  <2>1. CASE LockOnly
    BY <2>1 DEF LockOnly, CareInv, InflightQueued, Queued
  <2>2. QED
    BY <1>1, <1>2, <2>1, ScriptKeepsQueued DEF CareInv
<1>5. ASSUME faults' = 0 PROVE Care'
  <2>1. Calm
    BY <1>1, <1>2, <1>5 DEF Counted, Calm
  <2>2. Care /\ InflightQueued /\ LapseCounted
    BY <2>1 DEF CareInv, Care, Calm
  <2>3. CASE UNCHANGED vars
    BY <2>2, <2>3, StutterCare
  <2>4. CASE Next
    BY <2>1, <2>2, <2>4, SubmitCare, RecoverCare, ClientCare, WorkerCare, OtherCare DEF Next
  <2>5. QED
    BY <2>3, <2>4
<1>6. QED
  BY <1>3, <1>4, <1>5 DEF CareInv, Care

\* The hold of an ended job stays behind, with nobody at work on the job and the
\* job not in the queue, only after an error, a crash or a lapse, or if its
\* release was claimed before it was taken: for any number of jobs, workers and
\* clients, every other path of Submit, Cancel, the recovery and the settlement
\* that ends a job goes on to release its hold or leaves the job in the queue.
THEOREM LeaksExplained == Spec => []LeakExplained
<1>1. Inv /\ CareInv => LeakExplained
  <2> SUFFICES ASSUME Inv, CareInv, NEW j \in Jobs, status[j] \in Given, Outstanding(j),
                      faults = 0, "release" \notin claims[j]
               PROVE  Pursued(j)
    BY DEF LeakExplained, Inv, TypeOK, ControlTypeOK
  <2>1. Carried(j)
    BY DEF CareInv, Carry, Open, Outstanding
  <2>2. QED
    BY <2>1 DEF Carried, Queued, Pursued, Attended
<1>2. QED
  BY <1>1, Inductive, CareInit, CareStep, PTL DEF Spec

=============================================================================
