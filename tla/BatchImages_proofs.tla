------------------------- MODULE BatchImages_proofs -------------------------
(***************************************************************************)
(* Proofs about BatchImages, for every set of jobs, workers and clients,   *)
(* every number of failures and every amount.                              *)
(*                                                                         *)
(* The invariant says what each process knows of the job it works on.      *)
(* Money can only go wrong when a hold is returned or captured at the      *)
(* wrong time, so the parts say in which states somebody is about to do    *)
(* that.  All but LockIsOwn, GivenUp and EndedOnce also hold after a lock  *)
(* was lost.                                                               *)
(***************************************************************************)
EXTENDS BatchImages, TLAPS

-----------------------------------------------------------------------------
(* The parts of the inductive invariant.                                   *)

\* Steps of Submit before the job may be handed over, and those with a hold
BeforeHandOver == {"new", "reserve", "items", "upload", "submit", "update",
                   "undo", "undoKeep", "record", "giveUp"}
Funding == {"items", "upload", "submit", "update"}
\* Steps of a worker that follows the provider, and of one that settles
Following == {"poll", "pollRunning", "toRunning", "toIndexing", "toFailed", "toCancelled", "index"}
SettleSteps == {"capture", "recordFailure", "mark", "exhausted", "recordRelease", "fail"}
Unsent == {"created", "uploading"}
Given == {"failed", "cancelled"}
Settled == {"settling", "completed", "output_deleted", "failed"}

\* Submit hands over nothing before the hold is taken, and a job whose Submit
\* is not that far is not with the provider.
SubmitFirst ==
    \A j \in Jobs :
        /\ sub[j] = "new" => status[j] = "absent"
        /\ sub[j] \in BeforeHandOver \ {"new"} => status[j] \in Unsent \union Given
        /\ sub[j] \in {"new", "reserve"} => "hold" \notin claims[j]
        /\ sub[j] \in Funding =>
              "hold" \in claims[j] /\ (status[j] \in Unsent => ~returned[j])
        /\ sub[j] \in BeforeHandOver => "capture" \notin claims[j]
        /\ returned[j] => "hold" \in claims[j]

\* Whoever is about to give a hold back has seen the job fail.
ReleaseAfterEnd ==
    /\ \A j \in Jobs : rec[j] = "release" => status[j] \in Given
    /\ \A c \in Clients : cpc[c] = "release" => status[cjob[c]] \in Given
    /\ \A w \in Workers : wpc[w] = "release" => status[wjob[w]] \in Given

\* A charge is the cost of the job, which no longer changes.
ChargeIsCost ==
    \A j \in Jobs :
        "capture" \in claims[j] => status[j] \in Settled /\ charged[j] = cost[j]

\* What a worker knows of the job it settles, with the lock or without.
SettlerKnows ==
    \A w \in Workers :
        wpc[w] \in SettleSteps =>
            /\ status[wjob[w]] \in Settled
            /\ sub[wjob[w]] \notin BeforeHandOver
            /\ "hold" \in claims[wjob[w]]
            /\ wpc[w] = "capture" => wcost[w] = cost[wjob[w]]
            /\ wpc[w] = "mark" => "capture" \in claims[wjob[w]]
            /\ wpc[w] \in {"exhausted", "recordRelease", "fail"} => retry[wjob[w]] = MaxRetries

\* Without a lapse the lock is the worker's own, and nobody else moves its job.
LockIsOwn ==
    ~lapsed => \A w \in Workers :
        /\ wpc[w] \in Processing => lock[wjob[w]] = w
        /\ wpc[w] \in Following => "capture" \notin claims[wjob[w]]
        /\ wpc[w] = "capture" => status[wjob[w]] = "settling"

\* Without a lapse a hold is returned during the settlement, or a charged job
\* fails, only when the retries are used up.
GivenUp ==
    ~lapsed => \A j \in Jobs :
        \/ retry[j] = MaxRetries
        \/ /\ ~(returned[j] /\ status[j] = "settling")
           /\ ~("capture" \in claims[j] /\ status[j] = "failed")

\* Three groups: about jobs, about what processes know, and without a lapse
JobInv == HandedFunded /\ CompletedPaid /\ ChargeIsCost /\ SubmitFirst
ProcessInv == ReleaseAfterEnd /\ SettlerKnows
OnceInv == LockIsOwn /\ GivenUp /\ EndedOnce

Inv == TypeOK /\ Conserved /\ JobInv /\ ProcessInv /\ OnceInv

-----------------------------------------------------------------------------
(* What a call can do, with or without its failures.                       *)

USE RetryAssumption, LedgerAssumption, QueueAssumption, BatchAssumption
USE DEF row, ledger, queue, provider, worker, client, Results
USE DEF Handed, Terminal, Unsent, Given, Settled, BeforeHandOver, Funding, SettleSteps

Steady == total' = total /\ lapsed' = lapsed /\ faults' \in 0..MaxFaults
USE DEF Steady

\* What the rest of the invariant sees of a call of the ledger
Reserved(j, r) ==
    /\ UNCHANGED <<charged, returned>>
    /\ \A k \in Jobs : /\ "capture" \in claims'[k] <=> "capture" \in claims[k]
                       /\ k # j => ("hold" \in claims'[k] <=> "hold" \in claims[k])
                       /\ "hold" \in claims[k] => "hold" \in claims'[k]
    /\ r = "ok" => "hold" \in claims'[j]
Captured(j, amount, r) ==
    /\ UNCHANGED returned
    /\ \A k \in Jobs : "hold" \in claims'[k] <=> "hold" \in claims[k]
    /\ \/ /\ UNCHANGED charged
          /\ r = "ok" => "capture" \in claims[j]
          /\ \A k \in Jobs : "capture" \in claims'[k] <=> "capture" \in claims[k]
       \/ /\ "capture" \notin claims[j] /\ amount <= Hold
          /\ charged' = [charged EXCEPT ![j] = amount]
          /\ \A k \in Jobs : "capture" \in claims'[k] <=> "capture" \in claims[k] \/ k = j
Released(j) ==
    /\ UNCHANGED charged
    /\ \A k \in Jobs : /\ "capture" \in claims'[k] <=> "capture" \in claims[k]
                       /\ "hold" \in claims'[k] <=> "hold" \in claims[k]
    /\ \/ UNCHANGED returned
       \/ "hold" \in claims[j] /\ returned' = [returned EXCEPT ![j] = TRUE]
\* and of a transition
Moved(j, to, r) ==
    \/ UNCHANGED row /\ r # "ok"
    \/ /\ CanTransitionBatchImageJob(status[j], to) /\ r # "refused"
       /\ status' = [status EXCEPT ![j] = to]
       /\ UNCHANGED <<named, retry, coded, cost, hidden>>

LEMMA ReserveEffect ==
    ASSUME TypeOK, Conserved, NEW j \in Jobs, NEW r \in Results, ReserveHold(j, r)
    PROVE  Steady /\ LedgerTypeOK' /\ Conserved' /\ Reserved(j, r)
<1>1. /\ Steady
      /\ \/ UNCHANGED ledger /\ (r = "ok" => "hold" \in claims[j])
         \/ /\ "hold" \notin claims[j] /\ balance >= Hold
            /\ balance' = balance - Hold
            /\ frozen' = frozen + Hold
            /\ Claim(j, "hold") /\ UNCHANGED <<charged, returned, spent>>
  BY DEF TypeOK, ControlTypeOK, ReserveHold, Call, Smooth, Fault, ReserveBatchImageBalance
<1>2. LedgerTypeOK'
  BY <1>1 DEF TypeOK, LedgerTypeOK, Claim, Operations
<1>3. Conserved'
  BY <1>1 DEF TypeOK, LedgerTypeOK, Conserved
<1>4. Reserved(j, r)
  BY <1>1 DEF TypeOK, LedgerTypeOK, Claim, Operations, Reserved
<1> QED BY <1>1, <1>2, <1>3, <1>4

LEMMA CaptureEffect ==
    ASSUME TypeOK, Conserved, NEW j \in Jobs, NEW amount \in Nat, NEW r \in Results,
           CaptureHold(j, amount, r)
    PROVE  Steady /\ LedgerTypeOK' /\ Conserved' /\ Captured(j, amount, r)
<1>1. /\ Steady
      /\ \/ UNCHANGED ledger /\ (r = "ok" => "capture" \in claims[j])
         \/ /\ "capture" \notin claims[j] /\ amount <= Hold /\ frozen >= Hold
            /\ balance' = balance + (Hold - amount)
            /\ frozen' = frozen - Hold
            /\ charged' = [charged EXCEPT ![j] = amount]
            /\ spent' = spent + amount
            /\ Claim(j, "capture") /\ UNCHANGED returned
  BY DEF TypeOK, ControlTypeOK, CaptureHold, Call, Smooth, Fault, CaptureBatchImageBalance
<1>2. LedgerTypeOK'
  BY <1>1 DEF TypeOK, LedgerTypeOK, Claim, Operations
<1>3. Conserved'
  BY <1>1 DEF TypeOK, LedgerTypeOK, Conserved
<1>4. Captured(j, amount, r)
  BY <1>1 DEF TypeOK, LedgerTypeOK, Claim, Operations, Captured
<1> QED BY <1>1, <1>2, <1>3, <1>4

LEMMA ReleaseEffect ==
    ASSUME TypeOK, Conserved, NEW j \in Jobs, NEW r \in Results, ReleaseHold(j, r)
    PROVE  Steady /\ LedgerTypeOK' /\ Conserved' /\ Released(j)
<1>1. /\ Steady
      /\ \/ UNCHANGED ledger
         \/ Claim(j, "release") /\ UNCHANGED <<balance, frozen, charged, returned, spent>>
         \/ /\ "hold" \in claims[j] /\ frozen >= Hold
            /\ balance' = balance + Hold
            /\ frozen' = frozen - Hold
            /\ returned' = [returned EXCEPT ![j] = TRUE]
            /\ Claim(j, "release") /\ UNCHANGED <<charged, spent>>
  BY DEF TypeOK, ControlTypeOK, ReleaseHold, Call, Smooth, Fault, ReleaseBatchImageBalance
<1>2. LedgerTypeOK'
  <2>1. claims' \in [Jobs -> SUBSET Operations]
    BY <1>1 DEF TypeOK, LedgerTypeOK, Claim, Operations
  <2>2. returned' \in [Jobs -> BOOLEAN]
    BY <1>1 DEF TypeOK, LedgerTypeOK
  <2>3. balance' \in Nat /\ frozen' \in Nat /\ spent' \in Nat /\ charged' \in [Jobs -> Nat]
    BY <1>1 DEF TypeOK, LedgerTypeOK
  <2> QED BY <2>1, <2>2, <2>3 DEF LedgerTypeOK
<1>3. Conserved'
  BY <1>1 DEF TypeOK, LedgerTypeOK, Conserved
<1>4. Released(j)
  BY <1>1 DEF TypeOK, LedgerTypeOK, Claim, Operations, Released
<1> QED BY <1>1, <1>2, <1>3, <1>4

LEMMA TransitionEffect ==
    ASSUME TypeOK, NEW j \in Jobs, NEW to, NEW r \in Results, Transition(j, to, r)
    PROVE  Steady /\ Moved(j, to, r)
BY DEF TypeOK, ControlTypeOK, Transition, Call, Smooth, Fault,
   TransitionBatchImageJobStatus, SetStatus, Moved

LEMMA SettlementFailedEffect ==
    ASSUME TypeOK, NEW j \in Jobs, SetBatchImageJobSettlementFailed(j)
    PROVE  /\ RowTypeOK' /\ UNCHANGED <<status, cost>>
           /\ \A k \in Jobs : retry[k] = MaxRetries => retry'[k] = MaxRetries
BY DEF TypeOK, RowTypeOK, SetBatchImageJobSettlementFailed

LEMMA OverdueEffect ==
    ASSUME TypeOK, NEW gone, Overdue(gone)
    PROVE  /\ total' = total /\ faults' \in 0..MaxFaults /\ lapsed' \in BOOLEAN
           /\ lapsed => lapsed'
           /\ ~lapsed' => gone
<1>1. total' = total /\ faults' \in 0..MaxFaults
  BY DEF TypeOK, ControlTypeOK, Overdue, Smooth
<1>2. (gone /\ lapsed' = lapsed) \/ lapsed' = TRUE
  BY DEF Overdue, Smooth
<1> QED BY <1>1, <1>2 DEF TypeOK, ControlTypeOK

LEMMA EnqueueEffect ==
    ASSUME TypeOK, NEW j \in Jobs, NEW r \in Results, TryEnqueue(j, r)
    PROVE  Steady /\ QueueTypeOK' /\ UNCHANGED lock
BY DEF TypeOK, ControlTypeOK, TryEnqueue, Enqueue, Push, Smooth, Fault, QueueTypeOK

-----------------------------------------------------------------------------
(* Steps of Submit.                                                        *)

LEMMA SubmitStep ==
    ASSUME Inv, NEW j \in Jobs, Submit(j)
    PROVE  Inv'
<1> USE DEF Inv, TypeOK, ControlTypeOK, Submit, SubAt, SubGo, CreateBatchImageJob, SetStatus,
   Smooth
<1>1. TypeOK'
  BY DEF RowTypeOK, LedgerTypeOK, SubSteps, Statuses, QueueTypeOK
<1>2. Conserved'
  BY DEF Conserved
<1>3. JobInv'
  BY DEF RowTypeOK, JobInv, HandedFunded, Outstanding, CompletedPaid, ChargeIsCost, SubmitFirst
<1>4. ProcessInv'
  BY DEF ProcessInv, ReleaseAfterEnd, SettlerKnows
<1>5. OnceInv'
  BY DEF OnceInv, LockIsOwn, GivenUp, EndedOnce
<1> QED BY <1>1, <1>2, <1>3, <1>4, <1>5

LEMMA SubmitReserveStep ==
    ASSUME Inv, NEW j \in Jobs, SubmitReserve(j)
    PROVE  Inv'
<1> USE DEF Inv, TypeOK, ControlTypeOK, SubAt, SubGo, Reserved
<1>1. PICK r \in Results :
      /\ ReserveHold(j, r)
      /\ SubAt(j, "reserve")
      /\ SubGo(j, IF r = "ok" THEN "items" ELSE "record")
  BY DEF SubmitReserve
<1>2. Steady /\ LedgerTypeOK' /\ Conserved' /\ Reserved(j, r) /\ UNCHANGED <<queue, row, provider>>
  BY <1>1, ReserveEffect DEF SubmitReserve
<1>3. TypeOK'
  BY <1>1, <1>2 DEF RowTypeOK, SubSteps, QueueTypeOK
<1>4. Conserved'
  BY <1>2
<1>5. JobInv'
  <2>1. HandedFunded'
    BY <1>2 DEF JobInv, HandedFunded, Outstanding
  <2>2. CompletedPaid'
    BY <1>2 DEF JobInv, CompletedPaid
  <2>3. ChargeIsCost'
    BY <1>2 DEF JobInv, ChargeIsCost
  <2>4. SubmitFirst'
    BY <1>1, <1>2 DEF JobInv, SubmitFirst
  <2> QED BY <2>1, <2>2, <2>3, <2>4 DEF JobInv
<1>6. ProcessInv'
  BY <1>1, <1>2 DEF ProcessInv, ReleaseAfterEnd, SettlerKnows
<1>7. OnceInv'
  <2>1. LockIsOwn'
    BY <1>1, <1>2 DEF OnceInv, LockIsOwn
  <2>2. GivenUp'
    BY <1>2 DEF OnceInv, GivenUp
  <2>3. EndedOnce'
    BY <1>2 DEF OnceInv, EndedOnce
  <2> QED BY <2>1, <2>2, <2>3 DEF OnceInv
<1> QED BY <1>3, <1>4, <1>5, <1>6, <1>7

LEMMA SubmitItemsStep ==
    ASSUME Inv, NEW j \in Jobs, SubmitItems(j)
    PROVE  Inv'
<1> USE DEF Inv, TypeOK, ControlTypeOK, SubmitItems, SubAt, SubGo, Smooth, Fault
<1>1. TypeOK'
  BY DEF RowTypeOK, LedgerTypeOK, SubSteps, Processing, Statuses, QueueTypeOK
<1>2. Conserved'
  BY DEF Conserved
<1>3. JobInv'
  BY DEF JobInv, HandedFunded, Outstanding, CompletedPaid, ChargeIsCost, SubmitFirst
<1>4. ProcessInv'
  BY DEF ProcessInv, ReleaseAfterEnd, SettlerKnows
<1>5. OnceInv'
  BY DEF OnceInv, LockIsOwn, GivenUp, EndedOnce
<1> QED BY <1>1, <1>2, <1>3, <1>4, <1>5

LEMMA SubmitUploadStep ==
    ASSUME Inv, NEW j \in Jobs, SubmitUpload(j)
    PROVE  Inv'
<1> USE DEF Inv, TypeOK, ControlTypeOK, SubAt, SubGo, CanTransitionBatchImageJob, Moved
<1>1. PICK r \in Results :
      /\ Transition(j, "uploading", r)
      /\ SubAt(j, "upload")
      /\ SubGo(j, IF r = "ok" THEN "submit" ELSE IF r = "refused" THEN "undoKeep" ELSE "undo")
  BY DEF SubmitUpload
<1>2. Steady /\ Moved(j, "uploading", r) /\ UNCHANGED <<ledger, queue, provider>>
  BY <1>1, TransitionEffect DEF SubmitUpload
<1>3. TypeOK'
  <2>1. RowTypeOK'
    BY <1>2 DEF RowTypeOK, Statuses
  <2>2. LedgerTypeOK'
    BY <1>2 DEF LedgerTypeOK
  <2>3. QueueTypeOK'
    BY <1>2 DEF QueueTypeOK
  <2>4. ControlTypeOK'
    BY <1>1, <1>2 DEF SubSteps
  <2> QED BY <2>1, <2>2, <2>3, <2>4
<1>4. Conserved'
  BY <1>2 DEF Conserved
<1>5. JobInv'
  <2>1. HandedFunded'
    BY <1>2 DEF RowTypeOK, JobInv, HandedFunded, Outstanding
  <2>2. CompletedPaid'
    BY <1>2 DEF RowTypeOK, JobInv, CompletedPaid
  <2>3. ChargeIsCost'
    BY <1>2 DEF RowTypeOK, JobInv, ChargeIsCost
  <2>4. SubmitFirst'
    BY <1>1, <1>2 DEF RowTypeOK, JobInv, SubmitFirst
  <2> QED BY <2>1, <2>2, <2>3, <2>4 DEF JobInv
<1>6. ProcessInv'
  BY <1>1, <1>2 DEF RowTypeOK, ProcessInv, ReleaseAfterEnd, SettlerKnows
<1>7. OnceInv'
  <2>1. LockIsOwn'
    BY <1>1, <1>2 DEF RowTypeOK, OnceInv, LockIsOwn
  <2>2. GivenUp'
    BY <1>2 DEF RowTypeOK, OnceInv, GivenUp
  <2>3. EndedOnce'
    BY <1>2 DEF OnceInv, EndedOnce
  <2> QED BY <2>1, <2>2, <2>3 DEF OnceInv
<1> QED BY <1>3, <1>4, <1>5, <1>6, <1>7

LEMMA SubmitProviderStep ==
    ASSUME Inv, NEW j \in Jobs, SubmitProvider(j)
    PROVE  Inv'
<1> USE DEF Inv, TypeOK, ControlTypeOK, SubmitProvider, SubAt, SubGo, Smooth, Fault
<1>1. TypeOK'
  <2>1. RowTypeOK'
    BY DEF RowTypeOK
  <2>2. LedgerTypeOK'
    BY DEF LedgerTypeOK
  <2>3. QueueTypeOK'
    BY DEF QueueTypeOK
  <2>4. ControlTypeOK'
    BY DEF SubSteps
  <2> QED BY <2>1, <2>2, <2>3, <2>4
<1>2. Conserved'
  BY DEF Conserved
<1>3. JobInv'
  BY DEF JobInv, HandedFunded, Outstanding, CompletedPaid, ChargeIsCost, SubmitFirst
<1>4. ProcessInv'
  BY DEF ProcessInv, ReleaseAfterEnd, SettlerKnows
<1>5. OnceInv'
  BY DEF OnceInv, LockIsOwn, GivenUp, EndedOnce
<1> QED BY <1>1, <1>2, <1>3, <1>4, <1>5

LEMMA SubmitUpdateStep ==
    ASSUME Inv, NEW j \in Jobs, SubmitUpdate(j)
    PROVE  Inv'
<1> USE DEF Inv, TypeOK, ControlTypeOK, SubmitUpdate, SubAt, SubGo, Call, Smooth, Fault,
   UpdateBatchImageJobProviderSubmit, CanTransitionBatchImageJob, SetStatus
<1>1. TypeOK'
  <2>1. RowTypeOK'
    <3>1. /\ status' \in {status, [status EXCEPT ![j] = "submitted"]}
          /\ named' \in {named, [named EXCEPT ![j] = TRUE]}
          /\ UNCHANGED <<retry, coded, cost, hidden>>
      BY DEF row
    <3>2. QED
      BY <3>1 DEF RowTypeOK, Statuses, Handed
  <2>2. LedgerTypeOK'
    BY DEF LedgerTypeOK
  <2>3. QueueTypeOK'
    BY DEF QueueTypeOK
  <2>4. ControlTypeOK'
    BY DEF SubSteps
  <2> QED BY <2>1, <2>2, <2>3, <2>4
<1>2. Conserved'
  BY DEF Conserved
<1>3. JobInv'
  BY DEF RowTypeOK, JobInv, HandedFunded, Outstanding, CompletedPaid, ChargeIsCost, SubmitFirst
<1>4. ProcessInv'
  BY DEF RowTypeOK, LedgerTypeOK, ProcessInv, ReleaseAfterEnd, SettlerKnows
<1>5. OnceInv'
  BY DEF RowTypeOK, OnceInv, LockIsOwn, GivenUp, EndedOnce
<1> QED BY <1>1, <1>2, <1>3, <1>4, <1>5

LEMMA SubmitAbortStep ==
    ASSUME Inv, NEW j \in Jobs, SubmitAbort(j)
    PROVE  Inv'
<1> USE DEF Inv, TypeOK, ControlTypeOK, SubmitAbort, SubAt, SubGo, CancelUpstream, Smooth
<1>1. TypeOK'
  <2>1. RowTypeOK'
    BY DEF RowTypeOK
  <2>2. LedgerTypeOK'
    BY DEF LedgerTypeOK
  <2>3. QueueTypeOK'
    BY DEF QueueTypeOK
  <2>4. ControlTypeOK'
    BY DEF SubSteps
  <2> QED BY <2>1, <2>2, <2>3, <2>4
<1>2. Conserved'
  BY DEF Conserved
<1>3. JobInv'
  BY DEF JobInv, HandedFunded, Outstanding, CompletedPaid, ChargeIsCost, SubmitFirst
<1>4. ProcessInv'
  BY DEF ProcessInv, ReleaseAfterEnd, SettlerKnows
<1>5. OnceInv'
  BY DEF OnceInv, LockIsOwn, GivenUp, EndedOnce
<1> QED BY <1>1, <1>2, <1>3, <1>4, <1>5

LEMMA SubmitEnqueueStep ==
    ASSUME Inv, NEW j \in Jobs, SubmitEnqueue(j)
    PROVE  Inv'
<1> USE DEF Inv, TypeOK, ControlTypeOK, SubmitEnqueue, SubAt, SubGo
<1>1. TypeOK'
  <2>1. RowTypeOK'
    BY DEF RowTypeOK
  <2>2. LedgerTypeOK'
    BY DEF LedgerTypeOK
  <2>3. QueueTypeOK'
    BY EnqueueEffect
  <2>4. ControlTypeOK'
    BY EnqueueEffect DEF RowTypeOK, SubSteps
  <2> QED BY <2>1, <2>2, <2>3, <2>4
<1>2. Conserved'
  BY EnqueueEffect DEF Conserved
<1>3. JobInv'
  BY DEF JobInv, HandedFunded, Outstanding, CompletedPaid, ChargeIsCost, SubmitFirst
<1>4. ProcessInv'
  BY DEF ProcessInv, ReleaseAfterEnd, SettlerKnows
<1>5. OnceInv'
  BY EnqueueEffect DEF OnceInv, LockIsOwn, GivenUp, EndedOnce
<1> QED BY <1>1, <1>2, <1>3, <1>4, <1>5

LEMMA SubmitQueueFailedStep ==
    ASSUME Inv, NEW j \in Jobs, SubmitQueueFailed(j)
    PROVE  Inv'
<1> USE DEF Inv, TypeOK, ControlTypeOK, SubmitQueueFailed, SubAt, SubGo, Try, Smooth, Fault,
   RecordBatchImageJobSubmitFailure
<1>1. TypeOK'
  <2>1. RowTypeOK'
    BY DEF RowTypeOK, Statuses
  <2>2. LedgerTypeOK'
    BY DEF LedgerTypeOK
  <2>3. QueueTypeOK'
    BY DEF QueueTypeOK
  <2>4. ControlTypeOK'
    BY DEF SubSteps
  <2> QED BY <2>1, <2>2, <2>3, <2>4
<1>2. Conserved'
  BY DEF Conserved
<1>3. JobInv'
  BY DEF RowTypeOK, JobInv, HandedFunded, Outstanding, CompletedPaid, ChargeIsCost, SubmitFirst
<1>4. ProcessInv'
  BY DEF RowTypeOK, ProcessInv, ReleaseAfterEnd, SettlerKnows
<1>5. OnceInv'
  BY DEF RowTypeOK, OnceInv, LockIsOwn, GivenUp, EndedOnce
<1> QED BY <1>1, <1>2, <1>3, <1>4, <1>5

LEMMA SubmitUndoStep ==
    ASSUME Inv, NEW j \in Jobs, SubmitUndo(j)
    PROVE  Inv'
<1> USE DEF Inv, TypeOK, ControlTypeOK, SubAt, SubGo, Released
<1>1. PICK r \in Results :
      /\ ReleaseHold(j, r)
      /\ \/ SubAt(j, "undo") /\ SubGo(j, IF r = "ok" THEN "record" ELSE "giveUp")
         \/ SubAt(j, "undoKeep") /\ SubGo(j, IF r = "ok" THEN "ended" ELSE "giveUp")
  BY DEF SubmitUndo
<1>2. Steady /\ LedgerTypeOK' /\ Conserved' /\ Released(j) /\ UNCHANGED <<queue, row, provider>>
  BY ReleaseEffect DEF SubmitUndo
<1>3. TypeOK'
  <2>1. RowTypeOK'
    BY <1>2 DEF RowTypeOK
  <2>2. LedgerTypeOK'
    BY <1>2
  <2>3. QueueTypeOK'
    BY <1>2 DEF QueueTypeOK
  <2>4. ControlTypeOK'
    <3>1. sub' \in [Jobs -> SubSteps]
      BY <1>1 DEF SubSteps
    <3>2. faults' \in 0..MaxFaults /\ UNCHANGED <<provider, rec, worker, client, total, lapsed>>
      BY <1>1, <1>2
    <3> QED BY <3>1, <3>2
  <2> QED BY <2>1, <2>2, <2>3, <2>4
<1>4. Conserved'
  BY <1>2
<1>5. JobInv'
  BY <1>1, <1>2 DEF LedgerTypeOK, JobInv, HandedFunded, Outstanding, CompletedPaid,
     ChargeIsCost, SubmitFirst
<1>6. ProcessInv'
  BY <1>1, <1>2 DEF ProcessInv, ReleaseAfterEnd, SettlerKnows
<1>7. OnceInv'
  <2>1. LockIsOwn'
    BY <1>1, <1>2 DEF OnceInv, LockIsOwn
  <2>2. GivenUp'
    BY <1>1, <1>2 DEF LedgerTypeOK, JobInv, OnceInv, GivenUp, SubmitFirst
  <2>3. EndedOnce'
    BY <1>1, <1>2 DEF LedgerTypeOK, JobInv, OnceInv, EndedOnce, SubmitFirst
  <2> QED BY <2>1, <2>2, <2>3 DEF OnceInv
<1> QED BY <1>3, <1>4, <1>5, <1>6, <1>7

LEMMA SubmitRecordStep ==
    ASSUME Inv, NEW j \in Jobs, SubmitRecord(j)
    PROVE  Inv'
<1> USE DEF Inv, TypeOK, ControlTypeOK, SubmitRecord, SubAt, SubGo, Try, Smooth, Fault,
   RecordBatchImageJobSubmitFailure
<1>1. TypeOK'
  <2>1. RowTypeOK'
    BY DEF RowTypeOK, LedgerTypeOK, Statuses
  <2>2. LedgerTypeOK'
    BY DEF LedgerTypeOK
  <2>3. QueueTypeOK'
    BY DEF QueueTypeOK
  <2>4. ControlTypeOK'
    BY DEF SubSteps
  <2> QED BY <2>1, <2>2, <2>3, <2>4
<1>2. Conserved'
  BY DEF Conserved
<1>3. JobInv'
  BY DEF RowTypeOK, JobInv, HandedFunded, Outstanding, CompletedPaid, ChargeIsCost, SubmitFirst
<1>4. ProcessInv'
  BY DEF RowTypeOK, ProcessInv, ReleaseAfterEnd, SettlerKnows
<1>5. OnceInv'
  BY DEF RowTypeOK, OnceInv, JobInv, LockIsOwn, GivenUp, EndedOnce, SubmitFirst
<1> QED BY <1>1, <1>2, <1>3, <1>4, <1>5

LEMMA SubmitHideStep ==
    ASSUME Inv, NEW j \in Jobs, SubmitHide(j)
    PROVE  Inv'
<1> USE DEF Inv, TypeOK, ControlTypeOK, SubmitHide, SubAt, SubGo, Try, Smooth, Fault,
   MarkBatchImageJobUserDeleted
<1>1. TypeOK'
  <2>1. RowTypeOK'
    BY DEF RowTypeOK
  <2>2. LedgerTypeOK'
    BY DEF LedgerTypeOK
  <2>3. QueueTypeOK'
    BY DEF QueueTypeOK
  <2>4. ControlTypeOK'
    BY DEF SubSteps
  <2> QED BY <2>1, <2>2, <2>3, <2>4
<1>2. Conserved'
  BY DEF Conserved
<1>3. JobInv'
  BY DEF JobInv, HandedFunded, Outstanding, CompletedPaid, ChargeIsCost, SubmitFirst
<1>4. ProcessInv'
  BY DEF ProcessInv, ReleaseAfterEnd, SettlerKnows
<1>5. OnceInv'
  BY DEF OnceInv, LockIsOwn, GivenUp, EndedOnce
<1> QED BY <1>1, <1>2, <1>3, <1>4, <1>5

LEMMA SubmitRetryStep ==
    ASSUME Inv, NEW j \in Jobs, SubmitRetry(j)
    PROVE  Inv'
<1> USE DEF Inv, TypeOK, ControlTypeOK, SubmitRetry, SubAt, SubGo
<1>1. TypeOK'
  BY EnqueueEffect DEF RowTypeOK, LedgerTypeOK, SubSteps
<1>2. Conserved'
  BY EnqueueEffect DEF Conserved
<1>3. JobInv'
  BY DEF JobInv, HandedFunded, Outstanding, CompletedPaid, ChargeIsCost, SubmitFirst
<1>4. ProcessInv'
  BY DEF ProcessInv, ReleaseAfterEnd, SettlerKnows
<1>5. OnceInv'
  BY EnqueueEffect DEF OnceInv, LockIsOwn, GivenUp, EndedOnce
<1> QED BY <1>1, <1>2, <1>3, <1>4, <1>5

LEMMA SubmitCrashStep ==
    ASSUME Inv, NEW j \in Jobs, SubmitCrash(j)
    PROVE  Inv'
<1> USE DEF Inv, TypeOK, ControlTypeOK, SubmitCrash, SubAt, SubGo, Fault
<1>1. TypeOK'
  BY DEF RowTypeOK, LedgerTypeOK, SubSteps, QueueTypeOK
<1>2. Conserved'
  BY DEF Conserved
<1>3. JobInv'
  BY DEF JobInv, HandedFunded, Outstanding, CompletedPaid, ChargeIsCost, SubmitFirst
<1>4. ProcessInv'
  BY DEF ProcessInv, ReleaseAfterEnd, SettlerKnows
<1>5. OnceInv'
  BY DEF OnceInv, LockIsOwn, GivenUp, EndedOnce
<1> QED BY <1>1, <1>2, <1>3, <1>4, <1>5

-----------------------------------------------------------------------------
(* Steps of the recovery.                                                  *)

LEMMA RecoverFailStep ==
    ASSUME Inv, NEW j \in Jobs, RecoverFail(j)
    PROVE  Inv'
<1> USE DEF Inv, TypeOK, ControlTypeOK, RecoverFail, RecAt, RecGo,
   FailStaleUnsubmittedBatchImageJob, SetStatus
<1>1. TypeOK'
  <2>1. RowTypeOK'
    BY DEF RowTypeOK, Statuses
  <2>2. LedgerTypeOK'
    BY DEF LedgerTypeOK
  <2>3. QueueTypeOK'
    BY DEF QueueTypeOK
  <2>4. ControlTypeOK'
    BY OverdueEffect
  <2> QED BY <2>1, <2>2, <2>3, <2>4
<1>2. Conserved'
  BY OverdueEffect DEF Conserved
<1>3. JobInv'
  BY DEF JobInv, HandedFunded, Outstanding, CompletedPaid, ChargeIsCost, SubmitFirst
<1>4. ProcessInv'
  BY DEF RowTypeOK, ProcessInv, ReleaseAfterEnd, SettlerKnows
<1>5. OnceInv'
  BY OverdueEffect DEF OnceInv, JobInv, LockIsOwn, GivenUp, EndedOnce, ChargeIsCost
<1> QED BY <1>1, <1>2, <1>3, <1>4, <1>5

LEMMA RecoverReleaseStep ==
    ASSUME Inv, NEW j \in Jobs, RecoverRelease(j)
    PROVE  Inv'
<1> USE DEF Inv, TypeOK, ControlTypeOK, RecAt, RecGo, Released
<1>1. PICK r \in Results :
      /\ ReleaseHold(j, r)
      /\ RecAt(j, "release")
      /\ RecGo(j, IF r = "ok" THEN "idle" ELSE "retry")
  BY DEF RecoverRelease
<1>2. Steady /\ LedgerTypeOK' /\ Conserved' /\ Released(j) /\ UNCHANGED <<queue, row, provider>>
  BY ReleaseEffect DEF RecoverRelease
<1>3. TypeOK'
  <2>1. RowTypeOK'
    BY <1>2 DEF RowTypeOK
  <2>2. LedgerTypeOK'
    BY <1>2
  <2>3. QueueTypeOK'
    BY <1>2 DEF QueueTypeOK
  <2>4. ControlTypeOK'
    BY <1>1, <1>2
  <2> QED BY <2>1, <2>2, <2>3, <2>4
<1>4. Conserved'
  BY <1>2
<1>5. JobInv'
  <2>1. UNCHANGED <<row, sub>> /\ status[j] \in Given
    BY <1>1, <1>2 DEF ProcessInv, ReleaseAfterEnd
  <2> QED BY <1>2, <2>1 DEF LedgerTypeOK, JobInv, HandedFunded, Outstanding, CompletedPaid,
     ChargeIsCost, SubmitFirst
<1>6. ProcessInv'
  BY <1>1, <1>2 DEF ProcessInv, ReleaseAfterEnd, SettlerKnows
<1>7. OnceInv'
  <2>1. UNCHANGED <<row, queue, worker, lapsed>> /\ status[j] \in Given
    BY <1>1, <1>2 DEF ProcessInv, ReleaseAfterEnd
  <2>2. LockIsOwn'
    BY <1>2, <2>1 DEF OnceInv, LockIsOwn
  <2>3. GivenUp'
    BY <1>2, <2>1 DEF LedgerTypeOK, OnceInv, GivenUp
  <2>4. EndedOnce'
    BY <1>2, <2>1 DEF LedgerTypeOK, JobInv, ChargeIsCost, OnceInv, GivenUp, EndedOnce
  <2> QED BY <2>2, <2>3, <2>4 DEF OnceInv
<1> QED BY <1>3, <1>4, <1>5, <1>6, <1>7

LEMMA RecoverRetryStep ==
    ASSUME Inv, NEW j \in Jobs, RecoverRetry(j)
    PROVE  Inv'
<1> USE DEF Inv, TypeOK, ControlTypeOK, RecoverRetry, RecAt, RecGo
<1>1. TypeOK'
  BY EnqueueEffect DEF RowTypeOK, LedgerTypeOK, SubSteps, Processing, Statuses
<1>2. Conserved'
  BY EnqueueEffect DEF Conserved
<1>3. JobInv'
  BY DEF JobInv, HandedFunded, Outstanding, CompletedPaid, ChargeIsCost, SubmitFirst
<1>4. ProcessInv'
  BY DEF ProcessInv, ReleaseAfterEnd, SettlerKnows
<1>5. OnceInv'
  BY EnqueueEffect DEF OnceInv, LockIsOwn, GivenUp, EndedOnce
<1> QED BY <1>1, <1>2, <1>3, <1>4, <1>5

LEMMA RecoverCrashStep ==
    ASSUME Inv, NEW j \in Jobs, RecoverCrash(j)
    PROVE  Inv'
<1> USE DEF Inv, TypeOK, ControlTypeOK, RecoverCrash, RecAt, RecGo, Fault
<1>1. TypeOK'
  BY DEF RowTypeOK, LedgerTypeOK, QueueTypeOK
<1>2. Conserved'
  BY DEF Conserved
<1>3. JobInv'
  BY DEF JobInv, HandedFunded, Outstanding, CompletedPaid, ChargeIsCost, SubmitFirst
<1>4. ProcessInv'
  BY DEF ProcessInv, ReleaseAfterEnd, SettlerKnows
<1>5. OnceInv'
  BY DEF OnceInv, LockIsOwn, GivenUp, EndedOnce
<1> QED BY <1>1, <1>2, <1>3, <1>4, <1>5

-----------------------------------------------------------------------------
(* Steps of clients.                                                       *)

LEMMA CancelStep ==
    ASSUME Inv, NEW c \in Clients, NEW j \in Jobs, Cancel(c, j)
    PROVE  Inv'
<1> USE DEF Inv, TypeOK, ControlTypeOK, Cancel, ClientAt, ClientGo, Smooth
<1>1. TypeOK'
  BY DEF RowTypeOK, LedgerTypeOK, QueueTypeOK
<1>2. Conserved'
  BY DEF Conserved
<1>3. JobInv'
  BY DEF JobInv, HandedFunded, Outstanding, CompletedPaid, ChargeIsCost, SubmitFirst
<1>4. ProcessInv'
  BY DEF ProcessInv, ReleaseAfterEnd, SettlerKnows
<1>5. OnceInv'
  BY DEF OnceInv, LockIsOwn, GivenUp, EndedOnce
<1> QED BY <1>1, <1>2, <1>3, <1>4, <1>5

LEMMA CancelTransitionStep ==
    ASSUME Inv, NEW c \in Clients, CancelTransition(c)
    PROVE  Inv'
<1> USE DEF Inv, TypeOK, ControlTypeOK, ClientAt, ClientGo, CanTransitionBatchImageJob, Moved
<1>1. cjob[c] \in Jobs
  OBVIOUS
<1>2. PICK r \in Results :
      /\ Transition(cjob[c], "cancelled", r)
      /\ ClientAt(c, "transition")
      /\ ClientGo(c, IF r = "ok" THEN "release" ELSE "idle")
  BY DEF CancelTransition
<1>3. Steady /\ Moved(cjob[c], "cancelled", r) /\ UNCHANGED <<ledger, queue, provider>>
  BY <1>2, TransitionEffect DEF CancelTransition
<1>4. TypeOK'
  <2>1. RowTypeOK'
    BY <1>3 DEF RowTypeOK, Statuses
  <2>2. LedgerTypeOK'
    BY <1>3 DEF LedgerTypeOK
  <2>3. QueueTypeOK'
    BY <1>3 DEF QueueTypeOK
  <2>4. ControlTypeOK'
    BY <1>2, <1>3
  <2> QED BY <2>1, <2>2, <2>3, <2>4
<1>5. Conserved'
  BY <1>3 DEF Conserved
<1>6. JobInv'
  <2>1. HandedFunded'
    BY <1>3 DEF RowTypeOK, JobInv, HandedFunded, Outstanding
  <2>2. CompletedPaid'
    BY <1>3 DEF RowTypeOK, JobInv, CompletedPaid
  <2>3. ChargeIsCost'
    BY <1>3 DEF RowTypeOK, JobInv, ChargeIsCost
  <2>4. SubmitFirst'
    BY <1>2, <1>3 DEF RowTypeOK, JobInv, SubmitFirst
  <2> QED BY <2>1, <2>2, <2>3, <2>4 DEF JobInv
<1>7. ProcessInv'
  BY <1>2, <1>3 DEF RowTypeOK, ProcessInv, ReleaseAfterEnd, SettlerKnows
<1>8. OnceInv'
  <2>1. LockIsOwn'
    BY <1>2, <1>3 DEF RowTypeOK, OnceInv, LockIsOwn
  <2>2. GivenUp'
    BY <1>3 DEF RowTypeOK, OnceInv, GivenUp
  <2>3. EndedOnce'
    BY <1>3 DEF OnceInv, EndedOnce
  <2> QED BY <2>1, <2>2, <2>3 DEF OnceInv
<1> QED BY <1>4, <1>5, <1>6, <1>7, <1>8

LEMMA CancelReleaseStep ==
    ASSUME Inv, NEW c \in Clients, CancelRelease(c)
    PROVE  Inv'
<1> USE DEF Inv, TypeOK, ControlTypeOK, ClientAt, ClientGo, Released
<1>1. cjob[c] \in Jobs
  OBVIOUS
<1>2. PICK r \in Results :
      /\ ReleaseHold(cjob[c], r)
      /\ ClientAt(c, "release")
      /\ ClientGo(c, IF r = "ok" THEN "idle" ELSE "retry")
  BY DEF CancelRelease
<1>3. Steady /\ LedgerTypeOK' /\ Conserved' /\ Released(cjob[c]) /\ UNCHANGED <<queue, row, provider>>
  BY ReleaseEffect DEF CancelRelease
<1>4. TypeOK'
  <2>1. RowTypeOK'
    BY <1>3 DEF RowTypeOK
  <2>2. LedgerTypeOK'
    BY <1>3
  <2>3. QueueTypeOK'
    BY <1>3 DEF QueueTypeOK
  <2>4. ControlTypeOK'
    BY <1>2, <1>3
  <2> QED BY <2>1, <2>2, <2>3, <2>4
<1>5. Conserved'
  BY <1>3
<1>6. JobInv'
  BY <1>2, <1>3 DEF LedgerTypeOK, JobInv, ProcessInv, HandedFunded, Outstanding, CompletedPaid,
     ChargeIsCost, SubmitFirst, ReleaseAfterEnd
<1>7. ProcessInv'
  BY <1>2, <1>3 DEF ProcessInv, ReleaseAfterEnd, SettlerKnows
<1>8. OnceInv'
  <2>1. LockIsOwn'
    BY <1>2, <1>3 DEF OnceInv, LockIsOwn
  <2>2. GivenUp'
    BY <1>2, <1>3 DEF LedgerTypeOK, ProcessInv, OnceInv, GivenUp, ReleaseAfterEnd
  <2>3. EndedOnce'
    BY <1>2, <1>3 DEF LedgerTypeOK, JobInv, ProcessInv, OnceInv, EndedOnce, GivenUp,
       ReleaseAfterEnd, ChargeIsCost
  <2> QED BY <2>1, <2>2, <2>3 DEF OnceInv
<1> QED BY <1>4, <1>5, <1>6, <1>7, <1>8

LEMMA CancelProviderStep ==
    ASSUME Inv, NEW c \in Clients, CancelProvider(c)
    PROVE  Inv'
<1> USE DEF Inv, TypeOK, ControlTypeOK, CancelProvider, ClientAt, ClientGo, CancelUpstream,
   Smooth, Fault
<1>1. TypeOK'
  BY DEF RowTypeOK, LedgerTypeOK, SubSteps, Processing, Statuses, QueueTypeOK
<1>2. Conserved'
  BY DEF Conserved
<1>3. JobInv'
  BY DEF JobInv, HandedFunded, Outstanding, CompletedPaid, ChargeIsCost, SubmitFirst
<1>4. ProcessInv'
  BY DEF ProcessInv, ReleaseAfterEnd, SettlerKnows
<1>5. OnceInv'
  BY DEF OnceInv, LockIsOwn, GivenUp, EndedOnce
<1> QED BY <1>1, <1>2, <1>3, <1>4, <1>5

LEMMA ResubmitStep ==
    ASSUME Inv, NEW c \in Clients, NEW j \in Jobs, Resubmit(c, j)
    PROVE  Inv'
<1> USE DEF Inv, TypeOK, ControlTypeOK, Resubmit, ClientAt, ClientGo, Smooth
<1>1. TypeOK'
  BY DEF RowTypeOK, LedgerTypeOK, QueueTypeOK
<1>2. Conserved'
  BY DEF Conserved
<1>3. JobInv'
  BY DEF JobInv, HandedFunded, Outstanding, CompletedPaid, ChargeIsCost, SubmitFirst
<1>4. ProcessInv'
  BY DEF ProcessInv, ReleaseAfterEnd, SettlerKnows
<1>5. OnceInv'
  BY DEF OnceInv, LockIsOwn, GivenUp, EndedOnce
<1> QED BY <1>1, <1>2, <1>3, <1>4, <1>5

LEMMA ClientEnqueueStep ==
    ASSUME Inv, NEW c \in Clients, ClientEnqueue(c)
    PROVE  Inv'
<1> USE DEF Inv, TypeOK, ControlTypeOK, ClientEnqueue, ClientAt, ClientGo
<1>1. TypeOK'
  BY EnqueueEffect DEF RowTypeOK, LedgerTypeOK, SubSteps, Processing, Statuses
<1>2. Conserved'
  BY EnqueueEffect DEF Conserved
<1>3. JobInv'
  BY DEF JobInv, HandedFunded, Outstanding, CompletedPaid, ChargeIsCost, SubmitFirst
<1>4. ProcessInv'
  BY DEF ProcessInv, ReleaseAfterEnd, SettlerKnows
<1>5. OnceInv'
  BY EnqueueEffect DEF OnceInv, LockIsOwn, GivenUp, EndedOnce
<1> QED BY <1>1, <1>2, <1>3, <1>4, <1>5

LEMMA ResubmitQueueFailedStep ==
    ASSUME Inv, NEW c \in Clients, ResubmitQueueFailed(c)
    PROVE  Inv'
<1> USE DEF Inv, TypeOK, ControlTypeOK, ResubmitQueueFailed, ClientAt, ClientGo, Try, Smooth,
   Fault, RecordBatchImageJobSubmitFailure
<1>1. TypeOK'
  <2>1. RowTypeOK'
    <3>1. UNCHANGED <<named, retry, cost, hidden>>
      OBVIOUS
    <3>2. status' \in [Jobs -> Statuses]
      BY DEF RowTypeOK
    <3>3. coded' \in [Jobs -> BOOLEAN]
      BY DEF RowTypeOK
    <3> QED BY <3>3 DEF RowTypeOK
  <2>2. LedgerTypeOK'
    BY DEF LedgerTypeOK
  <2>3. QueueTypeOK'
    BY DEF QueueTypeOK
  <2>4. ControlTypeOK'
    OBVIOUS
  <2> QED BY <2>1, <2>2, <2>3
<1>2. Conserved'
  BY DEF Conserved
<1>3. JobInv'
  BY DEF RowTypeOK, JobInv, HandedFunded, Outstanding, CompletedPaid, ChargeIsCost, SubmitFirst
<1>4. ProcessInv'
  BY DEF RowTypeOK, ProcessInv, ReleaseAfterEnd, SettlerKnows
<1>5. OnceInv'
  BY DEF RowTypeOK, OnceInv, LockIsOwn, GivenUp, EndedOnce
<1> QED BY <1>1, <1>2, <1>3, <1>4, <1>5

LEMMA ClientCrashStep ==
    ASSUME Inv, NEW c \in Clients, ClientCrash(c)
    PROVE  Inv'
<1> USE DEF Inv, TypeOK, ControlTypeOK, ClientCrash, ClientAt, ClientGo, Fault
<1>1. TypeOK'
  BY DEF RowTypeOK, LedgerTypeOK, QueueTypeOK
<1>2. Conserved'
  BY DEF Conserved
<1>3. JobInv'
  BY DEF JobInv, HandedFunded, Outstanding, CompletedPaid, ChargeIsCost, SubmitFirst
<1>4. ProcessInv'
  BY DEF ProcessInv, ReleaseAfterEnd, SettlerKnows
<1>5. OnceInv'
  BY DEF OnceInv, LockIsOwn, GivenUp, EndedOnce
<1> QED BY <1>1, <1>2, <1>3, <1>4, <1>5

LEMMA DeleteRecordStep ==
    ASSUME Inv, NEW j \in Jobs, DeleteRecord(j)
    PROVE  Inv'
<1> USE DEF Inv, TypeOK, ControlTypeOK, DeleteRecord, MarkBatchImageJobUserDeleted, Smooth
<1>1. TypeOK'
  BY DEF RowTypeOK, LedgerTypeOK, QueueTypeOK
<1>2. Conserved'
  BY DEF Conserved
<1>3. JobInv'
  BY DEF JobInv, HandedFunded, Outstanding, CompletedPaid, ChargeIsCost, SubmitFirst
<1>4. ProcessInv'
  BY DEF ProcessInv, ReleaseAfterEnd, SettlerKnows
<1>5. OnceInv'
  BY DEF OnceInv, LockIsOwn, GivenUp, EndedOnce
<1> QED BY <1>1, <1>2, <1>3, <1>4, <1>5

LEMMA DeleteOutputStep ==
    ASSUME Inv, NEW j \in Jobs, DeleteOutput(j)
    PROVE  Inv'
<1> USE DEF Inv, TypeOK, ControlTypeOK, DeleteOutput, MarkBatchImageOutputDeleted, SetStatus,
   Smooth
<1>1. TypeOK'
  BY DEF RowTypeOK, LedgerTypeOK, Statuses, QueueTypeOK
<1>2. Conserved'
  BY DEF Conserved
<1>3. JobInv'
  BY DEF JobInv, HandedFunded, Outstanding, CompletedPaid, ChargeIsCost, SubmitFirst
<1>4. ProcessInv'
  BY DEF ProcessInv, ReleaseAfterEnd, SettlerKnows
<1>5. OnceInv'
  BY DEF OnceInv, LockIsOwn, GivenUp, EndedOnce
<1> QED BY <1>1, <1>2, <1>3, <1>4, <1>5

-----------------------------------------------------------------------------
(* Steps of workers.                                                       *)

LEMMA WorkerReserveStep ==
    ASSUME Inv, NEW w \in Workers, NEW j \in Jobs, WorkerReserve(w, j)
    PROVE  Inv'
<1> USE DEF Inv, TypeOK, ControlTypeOK, WorkerReserve, WorkerAt, WorkerTo, WorkerGo, WorkerIdle,
   ReserveOnce, Smooth
<1>1. TypeOK'
  BY DEF RowTypeOK, LedgerTypeOK, QueueTypeOK
<1>2. Conserved'
  BY DEF Conserved
<1>3. JobInv'
  BY DEF JobInv, HandedFunded, Outstanding, CompletedPaid, ChargeIsCost, SubmitFirst
<1>4. ProcessInv'
  BY DEF ProcessInv, ReleaseAfterEnd, SettlerKnows
<1>5. OnceInv'
  BY DEF OnceInv, LockIsOwn, GivenUp, EndedOnce, Processing, Following
<1> QED BY <1>1, <1>2, <1>3, <1>4, <1>5

LEMMA WorkerLockStep ==
    ASSUME Inv, NEW w \in Workers, WorkerLock(w)
    PROVE  Inv'
<1> USE DEF Inv, TypeOK, ControlTypeOK, WorkerLock, WorkerAt, WorkerTo, WorkerGo, WorkerIdle,
   Call, Smooth, Fault, TryAcquireJobLock
<1>1. TypeOK'
  <2>1. RowTypeOK'
    BY DEF RowTypeOK
  <2>2. LedgerTypeOK'
    BY DEF LedgerTypeOK
  <2>3. QueueTypeOK'
    BY DEF QueueTypeOK
  <2>4. ControlTypeOK'
    BY DEF Processing
  <2> QED BY <2>1, <2>2, <2>3, <2>4
<1>2. Conserved'
  BY DEF Conserved
<1>3. JobInv'
  BY DEF JobInv, HandedFunded, Outstanding, CompletedPaid, ChargeIsCost, SubmitFirst
<1>4. ProcessInv'
  BY DEF ProcessInv, ReleaseAfterEnd, SettlerKnows
<1>5. OnceInv'
  <2>1. LockIsOwn'
    BY DEF OnceInv, LockIsOwn, QueueTypeOK, Processing, Following
  <2>2. GivenUp'
    BY DEF OnceInv, GivenUp
  <2>3. EndedOnce'
    BY DEF OnceInv, EndedOnce
  <2> QED BY <2>1, <2>2, <2>3 DEF OnceInv
<1> QED BY <1>1, <1>2, <1>3, <1>4, <1>5

LEMMA WorkerConflictStep ==
    ASSUME Inv, NEW w \in Workers, WorkerConflict(w)
    PROVE  Inv'
<1> USE DEF Inv, TypeOK, ControlTypeOK, WorkerConflict, WorkerAt, WorkerTo, WorkerGo, WorkerIdle,
   Try, Smooth, Fault, RequeueAfter
<1>1. TypeOK'
  BY DEF RowTypeOK, LedgerTypeOK, Statuses, QueueTypeOK
<1>2. Conserved'
  BY DEF Conserved
<1>3. JobInv'
  BY DEF JobInv, HandedFunded, Outstanding, CompletedPaid, ChargeIsCost, SubmitFirst
<1>4. ProcessInv'
  BY DEF ProcessInv, ReleaseAfterEnd, SettlerKnows
<1>5. OnceInv'
  BY DEF OnceInv, LockIsOwn, GivenUp, EndedOnce, Processing, Following
<1> QED BY <1>1, <1>2, <1>3, <1>4, <1>5

LEMMA WorkerReadStep ==
    ASSUME Inv, NEW w \in Workers, WorkerRead(w)
    PROVE  Inv'
<1> USE DEF Inv, TypeOK, ControlTypeOK, WorkerRead, WorkerAt, WorkerTo, WorkerGo, WorkerIdle,
   Smooth
<1>1. TypeOK'
  BY DEF RowTypeOK, LedgerTypeOK, Processing, QueueTypeOK
<1>2. Conserved'
  BY DEF Conserved
<1>3. JobInv'
  BY DEF JobInv, HandedFunded, Outstanding, CompletedPaid, ChargeIsCost, SubmitFirst
<1>4. ProcessInv'
  BY DEF ProcessInv, ReleaseAfterEnd, SettlerKnows
<1>5. OnceInv'
  BY DEF OnceInv, JobInv, LockIsOwn, GivenUp, EndedOnce, ChargeIsCost, Following
<1> QED BY <1>1, <1>2, <1>3, <1>4, <1>5

LEMMA WorkerPollStep ==
    ASSUME Inv, NEW w \in Workers, WorkerPoll(w)
    PROVE  Inv'
<1> USE DEF Inv, TypeOK, ControlTypeOK, WorkerPoll, WorkerAt, WorkerTo, WorkerGo, WorkerIdle,
   Smooth
<1>1. TypeOK'
  BY DEF RowTypeOK, LedgerTypeOK, Processing, QueueTypeOK
<1>2. Conserved'
  BY DEF Conserved
<1>3. JobInv'
  BY DEF JobInv, HandedFunded, Outstanding, CompletedPaid, ChargeIsCost, SubmitFirst
<1>4. ProcessInv'
  BY DEF ProcessInv, ReleaseAfterEnd, SettlerKnows
<1>5. OnceInv'
  BY DEF OnceInv, LockIsOwn, GivenUp, EndedOnce, Following
<1> QED BY <1>1, <1>2, <1>3, <1>4, <1>5

LEMMA WorkerReadFailsStep ==
    ASSUME Inv, NEW w \in Workers, WorkerReadFails(w)
    PROVE  Inv'
<1> USE DEF Inv, TypeOK, ControlTypeOK, WorkerReadFails, WorkerAt, WorkerTo, WorkerGo, WorkerIdle,
   Fault
<1>1. TypeOK'
  BY DEF RowTypeOK, LedgerTypeOK, Processing, QueueTypeOK
<1>2. Conserved'
  BY DEF Conserved
<1>3. JobInv'
  BY DEF JobInv, HandedFunded, Outstanding, CompletedPaid, ChargeIsCost, SubmitFirst
<1>4. ProcessInv'
  BY DEF ProcessInv, ReleaseAfterEnd, SettlerKnows
<1>5. OnceInv'
  BY DEF OnceInv, LockIsOwn, GivenUp, EndedOnce, Following
<1> QED BY <1>1, <1>2, <1>3, <1>4, <1>5

LEMMA WorkerTransitionStep ==
    ASSUME Inv, NEW w \in Workers, WorkerTransition(w)
    PROVE  Inv'
<1> USE DEF Inv, TypeOK, ControlTypeOK, WorkerAt, WorkerTo, WorkerGo, WorkerIdle,
   CanTransitionBatchImageJob, Transitions, Moved
<1>1. wjob[w] \in Jobs
  OBVIOUS
<1>2. PICK t \in Transitions, r \in Results :
      /\ Transition(wjob[w], t[2], r)
      /\ WorkerAt(w, t[1])
      /\ WorkerGo(w, IF r = "ok" THEN t[3] ELSE "requeue")
  BY ONLY WorkerTransition(w) DEF WorkerTransition
<1>3. Steady /\ Moved(wjob[w], t[2], r) /\ UNCHANGED <<ledger, queue, provider>>
  BY <1>2, TransitionEffect DEF WorkerTransition
<1>4. TypeOK'
  <2>1. RowTypeOK'
    BY <1>3 DEF RowTypeOK, Statuses
  <2>2. LedgerTypeOK'
    BY <1>3 DEF LedgerTypeOK
  <2>3. QueueTypeOK'
    BY <1>3 DEF QueueTypeOK
  <2>4. ControlTypeOK'
    BY <1>2, <1>3 DEF LedgerTypeOK, Processing
  <2> QED BY <2>1, <2>2, <2>3, <2>4
<1>5. Conserved'
  BY <1>3 DEF Conserved
<1>6. JobInv'
  <2>1. HandedFunded'
    BY <1>3 DEF RowTypeOK, JobInv, HandedFunded, Outstanding
  <2>2. CompletedPaid'
    BY <1>3 DEF RowTypeOK, JobInv, CompletedPaid
  <2>3. ChargeIsCost'
    BY <1>3 DEF RowTypeOK, JobInv, ChargeIsCost
  <2>4. SubmitFirst'
    BY <1>2, <1>3 DEF RowTypeOK, JobInv, SubmitFirst
  <2> QED BY <2>1, <2>2, <2>3, <2>4 DEF JobInv
<1>7. ProcessInv'
  <2>1. ReleaseAfterEnd'
    BY <1>2, <1>3 DEF RowTypeOK, LedgerTypeOK, JobInv, ProcessInv, ReleaseAfterEnd, SubmitFirst
  <2>2. SettlerKnows'
    BY <1>2, <1>3 DEF RowTypeOK, ProcessInv, SettlerKnows
  <2> QED BY <2>1, <2>2 DEF ProcessInv
<1>8. OnceInv'
  <2>1. LockIsOwn'
    BY <1>2, <1>3 DEF RowTypeOK, OnceInv, LockIsOwn, Following
  <2>2. GivenUp'
    BY <1>2, <1>3 DEF RowTypeOK, JobInv, ProcessInv, OnceInv, GivenUp, LockIsOwn, SettlerKnows,
       HandedFunded, Outstanding, Following
  <2>3. EndedOnce'
    BY <1>3 DEF OnceInv, EndedOnce
  <2> QED BY <2>1, <2>2, <2>3 DEF OnceInv
<1> QED BY <1>4, <1>5, <1>6, <1>7, <1>8

LEMMA WorkerIndexStep ==
    ASSUME Inv, NEW w \in Workers, WorkerIndex(w)
    PROVE  Inv'
<1> USE DEF Inv, TypeOK, ControlTypeOK, WorkerIndex, WorkerAt, WorkerTo, WorkerGo, WorkerIdle,
   Call, Smooth, Fault, ReplaceBatchImageItemsForJob
<1>1. TypeOK'
  BY DEF RowTypeOK, LedgerTypeOK, SubSteps, Processing, Statuses, Outputs, QueueTypeOK
<1>2. Conserved'
  BY DEF Conserved
<1>3. JobInv'
  BY DEF RowTypeOK, JobInv, HandedFunded, Outstanding, CompletedPaid, ChargeIsCost, SubmitFirst
<1>4. ProcessInv'
  BY DEF RowTypeOK, ProcessInv, ReleaseAfterEnd, SettlerKnows
<1>5. OnceInv'
  BY DEF OnceInv, LockIsOwn, GivenUp, EndedOnce, Following
<1> QED BY <1>1, <1>2, <1>3, <1>4, <1>5

LEMMA WorkerReleaseStep ==
    ASSUME Inv, NEW w \in Workers, WorkerRelease(w)
    PROVE  Inv'
<1> USE DEF Inv, TypeOK, ControlTypeOK, WorkerAt, WorkerTo, WorkerGo, WorkerIdle, Released
<1>1. wjob[w] \in Jobs
  OBVIOUS
<1>2. PICK r \in Results :
      /\ ReleaseHold(wjob[w], r)
      /\ WorkerAt(w, "release")
      /\ WorkerGo(w, IF r = "ok" THEN "ack" ELSE "requeue")
  BY DEF WorkerRelease
<1>3. Steady /\ LedgerTypeOK' /\ Conserved' /\ Released(wjob[w]) /\ UNCHANGED <<queue, row, provider>>
  BY ReleaseEffect DEF WorkerRelease
<1>4. TypeOK'
  <2>1. RowTypeOK'
    BY <1>3 DEF RowTypeOK
  <2>2. LedgerTypeOK'
    BY <1>3
  <2>3. QueueTypeOK'
    BY <1>3 DEF QueueTypeOK
  <2>4. ControlTypeOK'
    BY <1>2, <1>3 DEF Processing
  <2> QED BY <2>1, <2>2, <2>3, <2>4
<1>5. Conserved'
  BY <1>3
<1>6. JobInv'
  <2>1. HandedFunded'
    BY <1>2, <1>3 DEF LedgerTypeOK, JobInv, ProcessInv, HandedFunded, ReleaseAfterEnd,
       Outstanding
  <2>2. CompletedPaid'
    BY <1>3 DEF JobInv, CompletedPaid
  <2>3. ChargeIsCost'
    BY <1>3 DEF JobInv, ChargeIsCost
  <2>4. SubmitFirst'
    BY <1>2, <1>3 DEF LedgerTypeOK, JobInv, ProcessInv, SubmitFirst, ReleaseAfterEnd
  <2> QED BY <2>1, <2>2, <2>3, <2>4 DEF JobInv
<1>7. ProcessInv'
  BY <1>2, <1>3 DEF ProcessInv, ReleaseAfterEnd, SettlerKnows
<1>8. OnceInv'
  <2>1. LockIsOwn'
    BY <1>2, <1>3 DEF OnceInv, LockIsOwn, Following
  <2>2. GivenUp'
    BY <1>2, <1>3 DEF LedgerTypeOK, ProcessInv, OnceInv, GivenUp, ReleaseAfterEnd
  <2>3. EndedOnce'
    BY <1>2, <1>3 DEF LedgerTypeOK, JobInv, ProcessInv, OnceInv, EndedOnce, GivenUp,
       ReleaseAfterEnd, ChargeIsCost
  <2> QED BY <2>1, <2>2, <2>3 DEF OnceInv
<1> QED BY <1>4, <1>5, <1>6, <1>7, <1>8

LEMMA WorkerSettleStep ==
    ASSUME Inv, NEW w \in Workers, WorkerSettle(w)
    PROVE  Inv'
<1> USE DEF Inv, TypeOK, ControlTypeOK, WorkerSettle, WorkerAt, WorkerTo, WorkerGo, WorkerIdle,
   Smooth, Exhausted
<1>1. TypeOK'
  BY DEF RowTypeOK, LedgerTypeOK, Processing, QueueTypeOK
<1>2. Conserved'
  BY DEF Conserved
<1>3. JobInv'
  BY DEF JobInv, HandedFunded, Outstanding, CompletedPaid, ChargeIsCost, SubmitFirst
<1>4. ProcessInv'
  <2>1. ReleaseAfterEnd'
    BY DEF ProcessInv, ReleaseAfterEnd
  <2>2. SettlerKnows'
    <3>1. wjob[w] \in Jobs /\ UNCHANGED <<row, ledger, sub, wjob>>
      OBVIOUS
    <3>2. \A v \in Workers \ {w} : wpc'[v] = wpc[v] /\ wcost'[v] = wcost[v]
      OBVIOUS
    <3>3. \/ wpc'[w] \in {"ack", "requeue"}
          \/ wpc'[w] = "exhausted" /\ status[wjob[w]] = "settling" /\ retry[wjob[w]] >= MaxRetries
          \/ wpc'[w] \in {"recordFailure", "capture"} /\ status[wjob[w]] = "settling"
      <4>1. CASE status[wjob[w]] # "settling"
        OBVIOUS
      <4>2. CASE status[wjob[w]] = "settling" /\ Exhausted(wjob[w])
        OBVIOUS
      <4>3. CASE status[wjob[w]] = "settling" /\ ~Exhausted(wjob[w]) /\ cost[wjob[w]] > Hold
        OBVIOUS
      <4>4. CASE status[wjob[w]] = "settling" /\ ~Exhausted(wjob[w]) /\ ~(cost[wjob[w]] > Hold)
        OBVIOUS
      <4> QED OBVIOUS
    <3>4. wcost'[w] = cost[wjob[w]]
      OBVIOUS
    <3>5. status[wjob[w]] = "settling" => sub[wjob[w]] \notin BeforeHandOver
      BY DEF JobInv, SubmitFirst
    <3>6. retry[wjob[w]] >= MaxRetries => retry[wjob[w]] = MaxRetries
      BY DEF RowTypeOK
    <3>7. status[wjob[w]] = "settling" => "hold" \in claims[wjob[w]]
      BY <3>1 DEF JobInv, HandedFunded
    <3> QED BY <3>1, <3>2, <3>3, <3>4, <3>5, <3>6, <3>7 DEF ProcessInv, SettlerKnows
  <2> QED BY <2>1, <2>2 DEF ProcessInv
<1>5. OnceInv'
  BY DEF OnceInv, LockIsOwn, GivenUp, EndedOnce, Following
<1> QED BY <1>1, <1>2, <1>3, <1>4, <1>5

LEMMA WorkerCaptureStep ==
    ASSUME Inv, NEW w \in Workers, WorkerCapture(w)
    PROVE  Inv'
<1> USE DEF Inv, TypeOK, ControlTypeOK, WorkerAt, WorkerTo, WorkerGo, WorkerIdle, Captured
<1>1. wjob[w] \in Jobs /\ wcost[w] \in Nat
  OBVIOUS
<1>2. PICK r \in Results :
      /\ CaptureHold(wjob[w], wcost[w], r)
      /\ WorkerAt(w, "capture")
      /\ WorkerGo(w, IF r = "ok" THEN "mark" ELSE "recordFailure")
  BY DEF WorkerCapture
<1>3. Steady /\ LedgerTypeOK' /\ Conserved' /\ Captured(wjob[w], wcost[w], r) /\ UNCHANGED <<queue, row, provider>>
  BY <1>2, CaptureEffect DEF WorkerCapture
<1>4. TypeOK'
  <2>1. RowTypeOK'
    BY <1>3 DEF RowTypeOK
  <2>2. LedgerTypeOK'
    BY <1>3
  <2>3. QueueTypeOK'
    BY <1>3 DEF QueueTypeOK
  <2>4. ControlTypeOK'
    BY <1>2, <1>3 DEF Processing
  <2> QED BY <2>1, <2>2, <2>3, <2>4
<1>5. Conserved'
  BY <1>3
<1>6. JobInv'
  <2>1. HandedFunded'
    BY <1>2, <1>3 DEF JobInv, ProcessInv, HandedFunded, SettlerKnows, Outstanding
  <2>2. CompletedPaid'
    BY <1>3 DEF LedgerTypeOK, JobInv, CompletedPaid
  <2>3. ChargeIsCost'
    BY <1>2, <1>3 DEF LedgerTypeOK, JobInv, ProcessInv, ChargeIsCost, SettlerKnows
  <2>4. SubmitFirst'
    BY <1>2, <1>3 DEF JobInv, ProcessInv, SubmitFirst, SettlerKnows
  <2> QED BY <2>1, <2>2, <2>3, <2>4 DEF JobInv
<1>7. ProcessInv'
  <2>1. ReleaseAfterEnd'
    BY <1>2, <1>3 DEF ProcessInv, ReleaseAfterEnd
  <2>2. SettlerKnows'
    BY <1>2, <1>3 DEF ProcessInv, SettlerKnows
  <2> QED BY <2>1, <2>2 DEF ProcessInv
<1>8. OnceInv'
  <2>1. LockIsOwn'
    BY <1>2, <1>3 DEF OnceInv, LockIsOwn, Following
  <2>2. GivenUp'
    BY <1>2, <1>3 DEF OnceInv, GivenUp, LockIsOwn
  <2>3. EndedOnce'
    BY <1>2, <1>3 DEF OnceInv, EndedOnce, GivenUp, LockIsOwn
  <2> QED BY <2>1, <2>2, <2>3 DEF OnceInv
<1> QED BY <1>4, <1>5, <1>6, <1>7, <1>8

LEMMA WorkerMarkStep ==
    ASSUME Inv, NEW w \in Workers, WorkerMark(w)
    PROVE  Inv'
<1> USE DEF Inv, TypeOK, ControlTypeOK, WorkerMark, WorkerAt, WorkerTo, WorkerGo, WorkerIdle,
   Call, Smooth, Fault, MarkBatchImageJobSettled, SetStatus
<1>1. TypeOK'
  <2>1. RowTypeOK'
    BY DEF RowTypeOK, Statuses
  <2>2. LedgerTypeOK'
    BY DEF LedgerTypeOK
  <2>3. QueueTypeOK'
    BY DEF QueueTypeOK
  <2>4. ControlTypeOK'
    BY DEF Processing
  <2> QED BY <2>1, <2>2, <2>3, <2>4
<1>2. Conserved'
  BY DEF Conserved
<1>3. JobInv'
  BY DEF RowTypeOK, LedgerTypeOK, JobInv, ProcessInv, HandedFunded, Outstanding, CompletedPaid,
     ChargeIsCost, SubmitFirst, SettlerKnows
<1>4. ProcessInv'
  BY DEF RowTypeOK, ProcessInv, ReleaseAfterEnd, SettlerKnows
<1>5. OnceInv'
  BY DEF RowTypeOK, OnceInv, LockIsOwn, GivenUp, EndedOnce, Following
<1> QED BY <1>1, <1>2, <1>3, <1>4, <1>5

LEMMA WorkerRecordFailureStep ==
    ASSUME Inv, NEW w \in Workers, WorkerRecordFailure(w)
    PROVE  Inv'
<1> USE DEF Inv, TypeOK, ControlTypeOK, WorkerRecordFailure, WorkerAt, WorkerTo, WorkerGo,
   WorkerIdle, Smooth, Fault, AfterFailure
<1>1. TypeOK'
  <2>1. RowTypeOK'
    BY SettlementFailedEffect DEF RowTypeOK
  <2>2. LedgerTypeOK'
    BY DEF LedgerTypeOK
  <2>3. QueueTypeOK'
    BY DEF QueueTypeOK
  <2>4. ControlTypeOK'
    BY DEF Processing
  <2> QED BY <2>1, <2>2, <2>3, <2>4
<1>2. Conserved'
  BY DEF Conserved
<1>3. JobInv'
  BY SettlementFailedEffect DEF JobInv, HandedFunded, Outstanding, CompletedPaid, ChargeIsCost,
     SubmitFirst
<1>4. ProcessInv'
  <2>1. ReleaseAfterEnd'
    BY SettlementFailedEffect DEF ProcessInv, ReleaseAfterEnd
  <2>2. SettlerKnows'
    <3>1. wjob[w] \in Jobs /\ UNCHANGED <<status, cost, ledger, sub, wjob, wcost>>
      BY SettlementFailedEffect
    <3>2. /\ \A k \in Jobs : retry[k] = MaxRetries => retry'[k] = MaxRetries
          /\ retry' \in [Jobs -> 0..MaxRetries]
      BY SettlementFailedEffect DEF RowTypeOK
    <3>3. \A v \in Workers \ {w} : wpc'[v] = wpc[v]
      OBVIOUS
    <3>4. \/ wpc'[w] \in {"requeue", "reread"}
          \/ wpc'[w] = "exhausted" /\ retry'[wjob[w]] >= MaxRetries
      OBVIOUS
    <3>5. retry'[wjob[w]] >= MaxRetries => retry'[wjob[w]] = MaxRetries
      BY <3>2
    <3> QED BY <3>1, <3>2, <3>5 DEF ProcessInv, SettlerKnows
  <2> QED BY <2>1, <2>2 DEF ProcessInv
<1>5. OnceInv'
  BY SettlementFailedEffect DEF OnceInv, LockIsOwn, GivenUp, EndedOnce, Following
<1> QED BY <1>1, <1>2, <1>3, <1>4, <1>5

LEMMA WorkerExhaustedStep ==
    ASSUME Inv, NEW w \in Workers, WorkerExhausted(w)
    PROVE  Inv'
<1> USE DEF Inv, TypeOK, ControlTypeOK, WorkerAt, WorkerTo, WorkerGo, WorkerIdle, Released
<1>1. wjob[w] \in Jobs
  OBVIOUS
<1>2. PICK r \in Results :
      /\ ReleaseHold(wjob[w], r)
      /\ WorkerAt(w, "exhausted")
      /\ WorkerGo(w, IF r = "ok" THEN "fail" ELSE "recordRelease")
  BY DEF WorkerExhausted
<1>3. Steady /\ LedgerTypeOK' /\ Conserved' /\ Released(wjob[w]) /\ UNCHANGED <<queue, row, provider>>
  BY ReleaseEffect DEF WorkerExhausted
<1>4. TypeOK'
  <2>1. RowTypeOK'
    BY <1>3 DEF RowTypeOK
  <2>2. LedgerTypeOK'
    BY <1>3
  <2>3. QueueTypeOK'
    BY <1>3 DEF QueueTypeOK
  <2>4. ControlTypeOK'
    BY <1>2, <1>3 DEF Processing
  <2> QED BY <2>1, <2>2, <2>3, <2>4
<1>5. Conserved'
  BY <1>3
<1>6. JobInv'
  <2>1. HandedFunded'
    BY <1>2, <1>3 DEF LedgerTypeOK, JobInv, ProcessInv, HandedFunded, SettlerKnows, Outstanding
  <2>2. CompletedPaid'
    BY <1>3 DEF JobInv, CompletedPaid
  <2>3. ChargeIsCost'
    BY <1>3 DEF JobInv, ChargeIsCost
  <2>4. SubmitFirst'
    BY <1>2, <1>3 DEF LedgerTypeOK, JobInv, ProcessInv, SubmitFirst, SettlerKnows
  <2> QED BY <2>1, <2>2, <2>3, <2>4 DEF JobInv
<1>7. ProcessInv'
  BY <1>2, <1>3 DEF ProcessInv, ReleaseAfterEnd, SettlerKnows
<1>8. OnceInv'
  <2>1. LockIsOwn'
    BY <1>2, <1>3 DEF OnceInv, LockIsOwn, Following
  <2>2. GivenUp'
    BY <1>2, <1>3 DEF LedgerTypeOK, ProcessInv, OnceInv, GivenUp, SettlerKnows
  <2>3. EndedOnce'
    BY <1>2, <1>3 DEF LedgerTypeOK, ProcessInv, OnceInv, EndedOnce, SettlerKnows
  <2> QED BY <2>1, <2>2, <2>3 DEF OnceInv
<1> QED BY <1>4, <1>5, <1>6, <1>7, <1>8

LEMMA WorkerRecordReleaseStep ==
    ASSUME Inv, NEW w \in Workers, WorkerRecordRelease(w)
    PROVE  Inv'
<1> USE DEF Inv, TypeOK, ControlTypeOK, WorkerRecordRelease, WorkerAt, WorkerTo, WorkerGo,
   WorkerIdle, Try, Smooth, Fault
<1>1. TypeOK'
  <2>1. RowTypeOK'
    BY SettlementFailedEffect DEF RowTypeOK
  <2>2. LedgerTypeOK'
    BY DEF LedgerTypeOK
  <2>3. QueueTypeOK'
    BY DEF QueueTypeOK
  <2>4. ControlTypeOK'
    BY DEF Processing
  <2> QED BY <2>1, <2>2, <2>3, <2>4
<1>2. Conserved'
  BY DEF Conserved
<1>3. JobInv'
  BY SettlementFailedEffect DEF JobInv, HandedFunded, Outstanding, CompletedPaid, ChargeIsCost,
     SubmitFirst
<1>4. ProcessInv'
  BY SettlementFailedEffect DEF ProcessInv, ReleaseAfterEnd, SettlerKnows
<1>5. OnceInv'
  BY SettlementFailedEffect DEF OnceInv, LockIsOwn, GivenUp, EndedOnce, Following
<1> QED BY <1>1, <1>2, <1>3, <1>4, <1>5

LEMMA WorkerEndStep ==
    ASSUME Inv, NEW w \in Workers, WorkerEnd(w)
    PROVE  Inv'
<1> USE DEF Inv, TypeOK, ControlTypeOK, WorkerEnd, WorkerAt, WorkerTo, WorkerGo, WorkerIdle, Try,
   Smooth, Fault, Ack, RequeueAfter
<1>1. TypeOK'
  BY DEF RowTypeOK, LedgerTypeOK, Processing, QueueTypeOK
<1>2. Conserved'
  BY DEF Conserved
<1>3. JobInv'
  BY DEF JobInv, HandedFunded, Outstanding, CompletedPaid, ChargeIsCost, SubmitFirst
<1>4. ProcessInv'
  BY DEF ProcessInv, ReleaseAfterEnd, SettlerKnows
<1>5. OnceInv'
  BY DEF OnceInv, LockIsOwn, GivenUp, EndedOnce, Following
<1> QED BY <1>1, <1>2, <1>3, <1>4, <1>5

LEMMA WorkerUnlockStep ==
    ASSUME Inv, NEW w \in Workers, WorkerUnlock(w)
    PROVE  Inv'
<1> USE DEF Inv, TypeOK, ControlTypeOK, WorkerUnlock, WorkerAt, WorkerTo, WorkerGo, WorkerIdle,
   Try, Smooth, Fault, ReleaseJobLock
<1>1. TypeOK'
  BY DEF RowTypeOK, LedgerTypeOK, SubSteps, QueueTypeOK
<1>2. Conserved'
  BY DEF Conserved
<1>3. JobInv'
  BY DEF JobInv, HandedFunded, Outstanding, CompletedPaid, ChargeIsCost, SubmitFirst
<1>4. ProcessInv'
  BY DEF ProcessInv, ReleaseAfterEnd, SettlerKnows
<1>5. OnceInv'
  <2>1. LockIsOwn'
    BY DEF OnceInv, LockIsOwn, QueueTypeOK, Processing, Following
  <2>2. GivenUp'
    BY DEF OnceInv, GivenUp
  <2>3. EndedOnce'
    BY DEF OnceInv, EndedOnce
  <2> QED BY <2>1, <2>2, <2>3 DEF OnceInv
<1> QED BY <1>1, <1>2, <1>3, <1>4, <1>5

LEMMA WorkerCrashStep ==
    ASSUME Inv, NEW w \in Workers, WorkerCrash(w)
    PROVE  Inv'
<1> USE DEF Inv, TypeOK, ControlTypeOK, WorkerCrash, WorkerAt, WorkerTo, WorkerGo, WorkerIdle,
   Fault
<1>1. TypeOK'
  BY DEF RowTypeOK, LedgerTypeOK, QueueTypeOK
<1>2. Conserved'
  BY DEF Conserved
<1>3. JobInv'
  BY DEF JobInv, HandedFunded, Outstanding, CompletedPaid, ChargeIsCost, SubmitFirst
<1>4. ProcessInv'
  BY DEF ProcessInv, ReleaseAfterEnd, SettlerKnows
<1>5. OnceInv'
  BY DEF OnceInv, LockIsOwn, GivenUp, EndedOnce, Processing, Following
<1> QED BY <1>1, <1>2, <1>3, <1>4, <1>5

-----------------------------------------------------------------------------
(* Timers and the provider.                                                *)

LEMMA DelayedMoverStep ==
    ASSUME Inv, NEW j \in Jobs, DelayedMover(j)
    PROVE  Inv'
<1> USE DEF Inv, TypeOK, ControlTypeOK, DelayedMover, MoveDueDelayed, Push, Smooth
<1>1. TypeOK'
  BY DEF RowTypeOK, LedgerTypeOK, Processing, QueueTypeOK
<1>2. Conserved'
  BY DEF Conserved
<1>3. JobInv'
  BY DEF JobInv, HandedFunded, Outstanding, CompletedPaid, ChargeIsCost, SubmitFirst
<1>4. ProcessInv'
  BY DEF ProcessInv, ReleaseAfterEnd, SettlerKnows
<1>5. OnceInv'
  BY DEF OnceInv, LockIsOwn, GivenUp, EndedOnce
<1> QED BY <1>1, <1>2, <1>3, <1>4, <1>5

LEMMA StaleActiveRecoveryStep ==
    ASSUME Inv, NEW j \in Jobs, StaleActiveRecovery(j)
    PROVE  Inv'
<1> USE DEF Inv, TypeOK, ControlTypeOK, StaleActiveRecovery, RecoverStaleActive, Push
<1>1. TypeOK'
  <2>1. RowTypeOK'
    BY DEF RowTypeOK
  <2>2. LedgerTypeOK'
    BY DEF LedgerTypeOK
  <2>3. QueueTypeOK'
    BY DEF QueueTypeOK
  <2>4. ControlTypeOK'
    BY OverdueEffect
  <2> QED BY <2>1, <2>2, <2>3, <2>4
<1>2. Conserved'
  BY OverdueEffect DEF Conserved
<1>3. JobInv'
  BY DEF JobInv, HandedFunded, Outstanding, CompletedPaid, ChargeIsCost, SubmitFirst
<1>4. ProcessInv'
  BY DEF ProcessInv, ReleaseAfterEnd, SettlerKnows
<1>5. OnceInv'
  BY OverdueEffect DEF OnceInv, LockIsOwn, GivenUp, EndedOnce
<1> QED BY <1>1, <1>2, <1>3, <1>4, <1>5

LEMMA LockExpiresStep ==
    ASSUME Inv, NEW j \in Jobs, LockExpires(j)
    PROVE  Inv'
<1> USE DEF Inv, TypeOK, ControlTypeOK, LockExpires
<1>1. TypeOK'
  <2>1. RowTypeOK'
    BY DEF RowTypeOK
  <2>2. LedgerTypeOK'
    BY DEF LedgerTypeOK
  <2>3. QueueTypeOK'
    BY DEF QueueTypeOK
  <2>4. ControlTypeOK'
    BY OverdueEffect
  <2> QED BY <2>1, <2>2, <2>3, <2>4
<1>2. Conserved'
  BY OverdueEffect DEF Conserved
<1>3. JobInv'
  BY DEF JobInv, HandedFunded, Outstanding, CompletedPaid, ChargeIsCost, SubmitFirst
<1>4. ProcessInv'
  BY DEF ProcessInv, ReleaseAfterEnd, SettlerKnows
<1>5. OnceInv'
  <2>1. /\ UNCHANGED <<row, ledger, worker>> /\ lapsed' \in BOOLEAN
        /\ ~lapsed' => ~lapsed /\ \A w \in Workers : lock[j] = w => ~(wpc[w] \in Processing /\ wjob[w] = j)
    BY OverdueEffect
  <2>2. LockIsOwn'
    BY <2>1 DEF OnceInv, LockIsOwn
  <2>3. GivenUp' /\ EndedOnce'
    BY <2>1 DEF OnceInv, GivenUp, EndedOnce
  <2> QED BY <2>2, <2>3 DEF OnceInv
<1> QED BY <1>1, <1>2, <1>3, <1>4, <1>5

LEMMA InflightExpiresStep ==
    ASSUME Inv, NEW j \in Jobs, InflightExpires(j)
    PROVE  Inv'
<1> USE DEF Inv, TypeOK, ControlTypeOK, InflightExpires
<1>1. TypeOK'
  BY OverdueEffect DEF RowTypeOK, LedgerTypeOK, QueueTypeOK
<1>2. Conserved'
  BY OverdueEffect DEF Conserved
<1>3. JobInv'
  BY DEF JobInv, HandedFunded, Outstanding, CompletedPaid, ChargeIsCost, SubmitFirst
<1>4. ProcessInv'
  BY DEF ProcessInv, ReleaseAfterEnd, SettlerKnows
<1>5. OnceInv'
  BY OverdueEffect DEF OnceInv, LockIsOwn, GivenUp, EndedOnce
<1> QED BY <1>1, <1>2, <1>3, <1>4, <1>5

LEMMA ProviderEndsStep ==
    ASSUME Inv, NEW j \in Jobs, ProviderEnds(j)
    PROVE  Inv'
<1> USE DEF Inv, TypeOK, ControlTypeOK, ProviderEnds, Smooth
<1>1. TypeOK'
  <2>1. RowTypeOK'
    BY DEF RowTypeOK
  <2>2. LedgerTypeOK'
    BY DEF LedgerTypeOK
  <2>3. QueueTypeOK'
    BY DEF QueueTypeOK
  <2>4. ControlTypeOK'
    OBVIOUS
  <2> QED BY <2>1, <2>2, <2>3
<1>2. Conserved'
  BY DEF Conserved
<1>3. JobInv'
  BY DEF JobInv, HandedFunded, Outstanding, CompletedPaid, ChargeIsCost, SubmitFirst
<1>4. ProcessInv'
  BY DEF ProcessInv, ReleaseAfterEnd, SettlerKnows
<1>5. OnceInv'
  BY DEF OnceInv, LockIsOwn, GivenUp, EndedOnce
<1> QED BY <1>1, <1>2, <1>3, <1>4, <1>5

-----------------------------------------------------------------------------
(* The invariant is inductive.                                             *)

LEMMA InitInv == Init => Inv
<1> SUFFICES ASSUME Init PROVE Inv
  OBVIOUS
<1> USE DEF Init
<1>1. RowTypeOK /\ QueueTypeOK
  BY DEF RowTypeOK, QueueTypeOK, Statuses
<1>2. LedgerTypeOK
  BY DEF LedgerTypeOK, Operations
<1>3. ControlTypeOK
  <2>1. output \in [Jobs -> Outputs] /\ sub \in [Jobs -> SubSteps]
    BY DEF Outputs, SubSteps
  <2>2. total \in Nat
    BY <1>2 DEF LedgerTypeOK
  <2>3. /\ wpc \in [Workers -> {"idle", "lock", "conflict"} \union Processing]
        /\ wjob \in [Workers -> Jobs] /\ wcost \in [Workers -> Nat]
    OBVIOUS
  <2>4. /\ cpc \in [Clients -> {"idle", "transition", "release", "retry", "cancel", "enqueue",
                               "resubmit", "queueFailed"}]
        /\ cjob \in [Clients -> Jobs]
    OBVIOUS
  <2>5. /\ upstream \in [Jobs -> {"none", "live", "succeeded", "failed", "cancelled"}]
        /\ rec \in [Jobs -> {"idle", "release", "retry"}]
    OBVIOUS
  <2>6. faults \in 0..MaxFaults
    OBVIOUS
  <2>7. lapsed \in BOOLEAN
    OBVIOUS
  <2> QED BY <2>1, <2>2, <2>3, <2>4, <2>5, <2>6, <2>7 DEF ControlTypeOK
<1>4. Conserved
  BY <1>2 DEF Conserved, LedgerTypeOK
<1>5. JobInv /\ ProcessInv
  BY DEF JobInv, ProcessInv, HandedFunded, CompletedPaid, ChargeIsCost, SubmitFirst,
     ReleaseAfterEnd, SettlerKnows
<1>6. OnceInv
  BY DEF OnceInv, LockIsOwn, GivenUp, EndedOnce, Processing, Following
<1> QED BY <1>1, <1>2, <1>3, <1>4, <1>5, <1>6 DEF Inv, TypeOK

LEMMA StutterInv == Inv /\ UNCHANGED vars => Inv'
<1> SUFFICES ASSUME Inv, UNCHANGED vars PROVE Inv'
  OBVIOUS
<1> USE DEF Inv, vars
<1>1. TypeOK' /\ Conserved'
  <2>1. RowTypeOK' /\ LedgerTypeOK'
    BY DEF TypeOK, RowTypeOK, LedgerTypeOK
  <2>2. QueueTypeOK' /\ ControlTypeOK'
    BY DEF TypeOK, QueueTypeOK, ControlTypeOK
  <2> QED BY <2>1, <2>2 DEF TypeOK, Conserved
<1>2. JobInv' /\ ProcessInv'
  BY DEF JobInv, ProcessInv, HandedFunded, Outstanding, CompletedPaid, ChargeIsCost, SubmitFirst,
     ReleaseAfterEnd, SettlerKnows
<1>3. OnceInv'
  BY DEF OnceInv, LockIsOwn, GivenUp, EndedOnce
<1> QED BY <1>1, <1>2, <1>3

LEMMA NextInv == Inv /\ [Next]_vars => Inv'
<1> SUFFICES ASSUME Inv, [Next]_vars PROVE Inv'
  OBVIOUS
<1>1. ASSUME NEW j \in Jobs, SubmitNext(j) PROVE Inv'
  BY <1>1, SubmitStep, SubmitReserveStep, SubmitItemsStep, SubmitUploadStep, SubmitProviderStep,
     SubmitUpdateStep, SubmitAbortStep, SubmitEnqueueStep, SubmitQueueFailedStep, SubmitUndoStep,
     SubmitRecordStep, SubmitHideStep, SubmitRetryStep, SubmitCrashStep DEF SubmitNext
<1>2. ASSUME NEW j \in Jobs, RecoverNext(j) PROVE Inv'
  BY <1>2, RecoverFailStep, RecoverReleaseStep, RecoverRetryStep, RecoverCrashStep DEF RecoverNext
<1>3. ASSUME NEW c \in Clients, ClientNext(c) PROVE Inv'
  BY <1>3, CancelStep, ResubmitStep, CancelTransitionStep, CancelReleaseStep, CancelProviderStep,
     ClientEnqueueStep, ResubmitQueueFailedStep, ClientCrashStep DEF ClientNext
<1>4. ASSUME NEW w \in Workers, WorkerNext(w) PROVE Inv'
  BY <1>4, WorkerReserveStep, WorkerLockStep, WorkerConflictStep, WorkerReadStep, WorkerPollStep,
     WorkerReadFailsStep, WorkerTransitionStep, WorkerIndexStep, WorkerReleaseStep,
     WorkerSettleStep, WorkerCaptureStep, WorkerMarkStep, WorkerRecordFailureStep,
     WorkerExhaustedStep, WorkerRecordReleaseStep, WorkerEndStep, WorkerUnlockStep,
     WorkerCrashStep DEF WorkerNext
<1>5. ASSUME NEW j \in Jobs, TimerNext(j) PROVE Inv'
  BY <1>5, DelayedMoverStep, StaleActiveRecoveryStep, LockExpiresStep, InflightExpiresStep,
     ProviderEndsStep DEF TimerNext
<1>6. CASE UNCHANGED vars
  BY <1>6, StutterInv
<1> QED BY <1>1, <1>2, <1>3, <1>4, <1>5, <1>6, DeleteRecordStep, DeleteOutputStep DEF Next

LEMMA Inductive == Spec => []Inv
BY InitInv, NextInv, PTL DEF Spec

-----------------------------------------------------------------------------
(* What follows from it.                                                   *)

\* The states are well formed; in particular neither the balance nor the frozen
\* balance of the user is ever negative, whichever calls fail or are repeated.
THEOREM TypeCorrect == Spec => []TypeOK
<1>1. Inv => TypeOK
  BY DEF Inv
<1> QED BY <1>1, Inductive, PTL

\* The reserve, capture and release of batch images conserve the user's money.
THEOREM MoneyConserved == Spec => []Conserved
<1>1. Inv => Conserved
  BY DEF Inv
<1> QED BY <1>1, Inductive, PTL

\* While the row of a job says that it is with the provider, the job's hold is
\* neither captured nor returned, even after the lock of a worker was lost; a job in
\* settlement, and one with a batch at the provider, had its hold taken.
THEOREM HandedIsFunded == Spec => []HandedFunded
<1>1. Inv => HandedFunded
  BY DEF Inv, JobInv
<1> QED BY <1>1, Inductive, PTL

\* A completed job was charged exactly its cost, by however many settlements.
THEOREM CompletedIsPaid == Spec => []CompletedPaid
<1>1. Inv => CompletedPaid
  BY DEF Inv, JobInv
<1> QED BY <1>1, Inductive, PTL

\* Unless a lock was lost, a hold is both captured and returned only by a
\* settlement that used up its retries.
THEOREM HoldEndsOnce == Spec => []EndedOnce
<1>1. Inv => EndedOnce
  BY DEF Inv, OnceInv
<1> QED BY <1>1, Inductive, PTL

\* Unless a lock was lost, no two workers process one job.
THEOREM WorkersExclude == Spec => []OneWorker
<1>1. Inv => OneWorker
  BY DEF Inv, OnceInv, LockIsOwn, OneWorker
<1> QED BY <1>1, Inductive, PTL
-----------------------------------------------------------------------------
(* The refinement of BatchImagePromise.                                    *)

theStage == [j \in Jobs |-> Stage(status[j])]
theHeld == {j \in Jobs : "hold" \in claims[j]}
theGivenBack == {j \in Jobs : returned[j]}
theSettled == {j \in Jobs : "capture" \in claims[j]}
seen == <<theStage, theHeld, theGivenBack, theSettled, cost, charged>>

\* One step of the promise, or nothing that a user could see.
Allowed == Promise!Next \/ UNCHANGED seen

LEMMA UnseenAllowed ==
    ASSUME UNCHANGED <<ledger, status, cost>>
    PROVE  Allowed
BY DEF Allowed, seen, theStage, theHeld, theGivenBack, theSettled

\* The change of one status, as the user sees it
MayMove(j, from, to) ==
    \/ to = from
    \/ from = "none" /\ to = "unsent"
    \/ from = "unsent" /\ to = "sent" /\ "hold" \in claims[j] /\ ~returned[j]
    \/ from = "sent" /\ to = "settling"
    \/ from = "settling" /\ to = "delivered" /\ "capture" \in claims[j]
    \/ from \in {"unsent", "sent", "settling"} /\ to = "ended"

LEMMA MoveAllowed ==
    ASSUME TypeOK, NEW j \in Jobs, NEW s, status' = [status EXCEPT ![j] = s],
           UNCHANGED <<ledger, cost>>, MayMove(j, Stage(status[j]), Stage(s))
    PROVE  Allowed
<1>1. theStage[j] = Stage(status[j]) /\ theStage' = [theStage EXCEPT ![j] = Stage(s)]
  BY DEF theStage, TypeOK, RowTypeOK
<1>2. UNCHANGED <<theHeld, theGivenBack, theSettled, cost, charged>>
  BY DEF theHeld, theGivenBack, theSettled
<1>3. CASE Stage(s) = Stage(status[j])
  BY <1>1, <1>2, <1>3 DEF theStage, Allowed, seen
<1>4. CASE Stage(s) # Stage(status[j])
  <2> DEFINE from == Stage(status[j])
             to == Stage(s)
  <2>1. CASE from = "none" /\ to = "unsent"
    BY <1>1, <1>2, <2>1 DEF Allowed, Promise!Next, Promise!Open, Promise!Move, theStage, theHeld,
       theGivenBack, theSettled
  <2>2. CASE from = "unsent" /\ to = "sent" /\ "hold" \in claims[j] /\ ~returned[j]
    BY <1>1, <1>2, <2>2 DEF Allowed, Promise!Next, Promise!Send, Promise!Move, theStage, theHeld,
       theGivenBack, theSettled
  <2>3. CASE from = "sent" /\ to = "settling"
    BY <1>1, <1>2, <2>3 DEF Allowed, Promise!Next, Promise!Settle, Promise!Move, theStage, theHeld,
       theGivenBack, theSettled
  <2>4. CASE from = "settling" /\ to = "delivered" /\ "capture" \in claims[j]
    BY <1>1, <1>2, <2>4 DEF Allowed, Promise!Next, Promise!Deliver, Promise!Move, theStage, theHeld,
       theGivenBack, theSettled
  <2>5. CASE from \in {"unsent", "sent", "settling"} /\ to = "ended"
    BY <1>1, <1>2, <2>5 DEF Allowed, Promise!Next, Promise!End, Promise!Move, theStage, theHeld,
       theGivenBack, theSettled
  <2> QED BY <1>4, <2>1, <2>2, <2>3, <2>4, <2>5 DEF MayMove
<1> QED BY <1>3, <1>4

LEMMA StageValues ==
    /\ \A s \in Statuses : /\ Stage(s) = "none" <=> s = "absent"
                           /\ Stage(s) = "unsent" <=> s \in Unsent
                           /\ Stage(s) = "sent" <=> s \in Handed
                           /\ Stage(s) = "settling" <=> s = "settling"
                           /\ Stage(s) = "delivered" <=> s \in {"completed", "output_deleted"}
                           /\ Stage(s) = "ended" <=> s \in Given
    /\ \A s \in Statuses : Stage(s) \in {"none", "unsent", "sent", "settling", "delivered", "ended"}
BY DEF Stage, Statuses

LEMMA TakeAllowed ==
    ASSUME TypeOK, NEW j \in Jobs, NEW r \in Results, Reserved(j, r),
           UNCHANGED <<status, cost>>, status[j] \in Unsent \union Given
    PROVE  Allowed
<1>1. theStage[j] \in {"unsent", "ended"} /\ theStage' = theStage
  BY StageValues DEF theStage, TypeOK, RowTypeOK
<1>2. UNCHANGED <<theGivenBack, theSettled, cost, charged>>
  BY DEF theGivenBack, theSettled, Reserved
<1>3. theHeld' = theHeld \/ (j \notin theHeld /\ theHeld' = theHeld \union {j})
  BY DEF theHeld, Reserved
<1>4. CASE theHeld' = theHeld
  BY <1>1, <1>2, <1>4 DEF Allowed, seen
<1>5. CASE j \notin theHeld /\ theHeld' = theHeld \union {j}
  BY <1>1, <1>2, <1>5 DEF Allowed, Promise!Next, Promise!Take, theStage, theHeld, theGivenBack,
     theSettled
<1> QED BY <1>3, <1>4, <1>5

LEMMA GiveBackAllowed ==
    ASSUME TypeOK, NEW j \in Jobs, Released(j), UNCHANGED <<status, cost>>, status[j] \notin Handed
    PROVE  Allowed
<1>1. theStage[j] # "sent" /\ theStage' = theStage
  BY StageValues DEF theStage, TypeOK, RowTypeOK
<1>2. UNCHANGED <<theHeld, theSettled, cost, charged>>
  BY DEF theHeld, theSettled, Released
<1>3. \/ theGivenBack' = theGivenBack
      \/ j \in theHeld \ theGivenBack /\ theGivenBack' = theGivenBack \union {j}
  <2>1. CASE UNCHANGED returned
    BY <2>1 DEF theGivenBack
  <2>2. CASE "hold" \in claims[j] /\ returned' = [returned EXCEPT ![j] = TRUE]
    <3>1. theGivenBack' = theGivenBack \union {j}
      BY <2>2 DEF theGivenBack, TypeOK, LedgerTypeOK
    <3> QED BY <2>2, <3>1 DEF theHeld
  <2> QED BY <2>1, <2>2 DEF Released
<1>4. CASE theGivenBack' = theGivenBack
  BY <1>1, <1>2, <1>4 DEF Allowed, seen
<1>5. CASE j \in theHeld \ theGivenBack /\ theGivenBack' = theGivenBack \union {j}
  BY <1>1, <1>2, <1>5 DEF Allowed, Promise!Next, Promise!GiveBack, theStage, theHeld, theGivenBack,
     theSettled
<1> QED BY <1>3, <1>4, <1>5

LEMMA ChargeAllowed ==
    ASSUME TypeOK, NEW j \in Jobs, NEW r \in Results, Captured(j, cost[j], r),
           UNCHANGED <<status, cost>>, "hold" \in claims[j],
           "capture" \notin claims[j] => status[j] \in {"settling"} \union Given
    PROVE  Allowed
<1>1. UNCHANGED <<theStage, theHeld, theGivenBack, cost>>
  BY DEF theStage, theHeld, theGivenBack, Captured
<1>2. CASE UNCHANGED charged /\ \A k \in Jobs : "capture" \in claims'[k] <=> "capture" \in claims[k]
  BY <1>1, <1>2 DEF Allowed, seen, theSettled
<1>3. CASE /\ "capture" \notin claims[j] /\ cost[j] <= Hold
           /\ charged' = [charged EXCEPT ![j] = cost[j]]
           /\ \A k \in Jobs : "capture" \in claims'[k] <=> "capture" \in claims[k] \/ k = j
  <2>1. theStage[j] \in {"settling", "ended"}
    BY <1>3, StageValues DEF theStage, TypeOK, RowTypeOK
  <2>2. j \in theHeld \ theSettled /\ theSettled' = theSettled \union {j}
    BY <1>3 DEF theHeld, theSettled
  <2>3. Promise!Charge(j)
    BY <1>1, <1>3, <2>1, <2>2 DEF Promise!Charge, theStage, theHeld, theGivenBack, theSettled
  <2> QED BY <2>3 DEF Allowed, Promise!Next
<1> QED BY <1>2, <1>3 DEF Captured

\* Steps that change nothing a user sees
Unseen == UNCHANGED <<ledger, status, cost>>

LEMMA RecordFailureUnseen ==
    ASSUME TypeOK, NEW j \in Jobs, Try(RecordBatchImageJobSubmitFailure(j, FALSE), row)
    PROVE  UNCHANGED <<status, cost>>
BY DEF Try, RecordBatchImageJobSubmitFailure, TypeOK, RowTypeOK

LEMMA SubmitUnseen ==
    ASSUME Inv, NEW j \in Jobs,
           \/ SubmitItems(j) \/ SubmitProvider(j) \/ SubmitAbort(j) \/ SubmitEnqueue(j)
           \/ SubmitQueueFailed(j) \/ SubmitHide(j) \/ SubmitRetry(j) \/ SubmitCrash(j)
    PROVE  Unseen
<1>1. CASE SubmitItems(j) \/ SubmitProvider(j) \/ SubmitAbort(j)
  BY <1>1 DEF Unseen, SubmitItems, SubmitProvider, SubmitAbort
<1>2. CASE SubmitEnqueue(j) \/ SubmitRetry(j) \/ SubmitCrash(j)
  BY <1>2 DEF Unseen, SubmitEnqueue, SubmitRetry, SubmitCrash
<1>3. CASE SubmitQueueFailed(j)
  BY <1>3, RecordFailureUnseen DEF Unseen, SubmitQueueFailed, Inv
<1>4. CASE SubmitHide(j)
  BY <1>4 DEF Unseen, SubmitHide, Try, MarkBatchImageJobUserDeleted
<1> QED BY <1>1, <1>2, <1>3, <1>4

LEMMA ClientUnseen ==
    ASSUME Inv, NEW c \in Clients,
           \/ \E j \in Jobs : Cancel(c, j) \/ Resubmit(c, j)
           \/ CancelProvider(c) \/ ClientEnqueue(c) \/ ResubmitQueueFailed(c) \/ ClientCrash(c)
    PROVE  Unseen
<1>1. CASE \E j \in Jobs : Cancel(c, j) \/ Resubmit(c, j)
  BY <1>1 DEF Unseen, Cancel, Resubmit
<1>2. CASE CancelProvider(c) \/ ClientEnqueue(c) \/ ClientCrash(c)
  BY <1>2 DEF Unseen, CancelProvider, ClientEnqueue, ClientCrash
<1>3. CASE ResubmitQueueFailed(c)
  <2>1. cjob[c] \in Jobs
    BY DEF Inv, TypeOK, ControlTypeOK
  <2> QED BY <1>3, <2>1, RecordFailureUnseen DEF Unseen, ResubmitQueueFailed, Inv
<1> QED BY <1>1, <1>2, <1>3

LEMMA WorkerUnseen ==
    ASSUME Inv, NEW w \in Workers,
           \/ \E j \in Jobs : WorkerReserve(w, j)
           \/ WorkerLock(w) \/ WorkerConflict(w) \/ WorkerRead(w) \/ WorkerPoll(w)
           \/ WorkerReadFails(w) \/ WorkerSettle(w) \/ WorkerRecordFailure(w)
           \/ WorkerRecordRelease(w) \/ WorkerEnd(w) \/ WorkerUnlock(w) \/ WorkerCrash(w)
    PROVE  Unseen
<1>1. CASE \/ \E j \in Jobs : WorkerReserve(w, j)
           \/ WorkerLock(w) \/ WorkerConflict(w)
  BY <1>1 DEF Unseen, WorkerReserve, WorkerLock, WorkerConflict
<1>2. CASE WorkerRead(w) \/ WorkerPoll(w) \/ WorkerReadFails(w) \/ WorkerSettle(w)
  BY <1>2 DEF Unseen, WorkerRead, WorkerPoll, WorkerReadFails, WorkerSettle
<1>3. CASE WorkerRecordFailure(w) \/ WorkerRecordRelease(w)
  BY <1>3 DEF Unseen, WorkerRecordFailure, WorkerRecordRelease, Try,
     SetBatchImageJobSettlementFailed
<1>4. CASE WorkerEnd(w) \/ WorkerUnlock(w) \/ WorkerCrash(w)
  BY <1>4 DEF Unseen, WorkerEnd, WorkerUnlock, WorkerCrash
<1> QED BY <1>1, <1>2, <1>3, <1>4

LEMMA OtherUnseen ==
    ASSUME NEW j \in Jobs,
           RecoverRetry(j) \/ RecoverCrash(j) \/ DeleteRecord(j) \/ TimerNext(j)
    PROVE  Unseen
<1>1. CASE RecoverRetry(j) \/ RecoverCrash(j) \/ DeleteRecord(j)
  BY <1>1 DEF Unseen, RecoverRetry, RecoverCrash, DeleteRecord, MarkBatchImageJobUserDeleted
<1>2. CASE TimerNext(j)
  BY <1>2 DEF Unseen, TimerNext, DelayedMover, StaleActiveRecovery, LockExpires, InflightExpires,
     ProviderEnds
<1> QED BY <1>1, <1>2

\* Submit opens a job, takes its hold, sends it, or ends it.
LEMMA SubmitAllowed ==
    ASSUME Inv, NEW j \in Jobs, SubmitNext(j)
    PROVE  Allowed
<1>1. TypeOK /\ status[j] \in Statuses
  BY DEF Inv, TypeOK, RowTypeOK
<1>2. CASE Submit(j)
  <2>1. status[j] = "absent" /\ status' = [status EXCEPT ![j] = "created"] /\ UNCHANGED <<ledger, cost>>
    BY <1>2 DEF Submit, CreateBatchImageJob, SetStatus
  <2>2. MayMove(j, Stage(status[j]), Stage("created"))
    BY <2>1, StageValues DEF MayMove, Statuses
  <2> QED BY <1>1, <2>1, <2>2, MoveAllowed
<1>3. CASE SubmitReserve(j)
  <2>1. PICK r \in Results : ReserveHold(j, r)
    BY <1>3 DEF SubmitReserve
  <2>2. Reserved(j, r)
    BY <2>1, ReserveEffect DEF Inv
  <2>3. UNCHANGED <<status, cost>> /\ status[j] \in Unsent \union Given
    BY <1>3 DEF SubmitReserve, SubAt, Inv, JobInv, SubmitFirst
  <2> QED BY <1>1, <2>2, <2>3, TakeAllowed
<1>4. CASE SubmitUpload(j)
  <2>1. PICK r \in Results : Transition(j, "uploading", r)
    BY <1>4 DEF SubmitUpload
  <2>2. Moved(j, "uploading", r) /\ UNCHANGED ledger
    BY <1>1, <1>4, <2>1, TransitionEffect DEF SubmitUpload
  <2>3. CASE UNCHANGED row
    BY <2>2, <2>3, UnseenAllowed
  <2>4. CASE CanTransitionBatchImageJob(status[j], "uploading")
             /\ status' = [status EXCEPT ![j] = "uploading"] /\ UNCHANGED cost
    <3>1. MayMove(j, Stage(status[j]), Stage("uploading"))
      BY <2>4, StageValues DEF MayMove, Statuses, CanTransitionBatchImageJob
    <3> QED BY <1>1, <2>2, <2>4, <3>1, MoveAllowed
  <2> QED BY <2>2, <2>3, <2>4 DEF Moved
<1>5. CASE SubmitUpdate(j)
  <2>1. /\ UNCHANGED ledger
        /\ \/ UNCHANGED row
           \/ /\ CanTransitionBatchImageJob(status[j], "submitted")
              /\ status' = [status EXCEPT ![j] = "submitted"] /\ UNCHANGED cost
    BY <1>5 DEF SubmitUpdate, Call, UpdateBatchImageJobProviderSubmit, SetStatus
  <2>2. CASE UNCHANGED row
    BY <2>1, <2>2, UnseenAllowed
  <2>3. CASE CanTransitionBatchImageJob(status[j], "submitted")
             /\ status' = [status EXCEPT ![j] = "submitted"] /\ UNCHANGED cost
    <3>1. status[j] \in Unsent
      BY <2>3 DEF CanTransitionBatchImageJob
    <3>2. "hold" \in claims[j] /\ ~returned[j]
      BY <1>5, <3>1 DEF SubmitUpdate, SubAt, Inv, JobInv, SubmitFirst
    <3>3. MayMove(j, Stage(status[j]), Stage("submitted"))
      BY <3>1, <3>2, StageValues DEF MayMove, Statuses
    <3> QED BY <1>1, <2>1, <2>3, <3>3, MoveAllowed
  <2> QED BY <2>1, <2>2, <2>3
<1>6. CASE SubmitUndo(j)
  <2>1. PICK r \in Results : ReleaseHold(j, r)
    BY <1>6 DEF SubmitUndo
  <2>2. Released(j)
    BY <2>1, ReleaseEffect DEF Inv
  <2>3. UNCHANGED <<status, cost>> /\ status[j] \notin Handed
    BY <1>6 DEF SubmitUndo, SubAt, Inv, JobInv, SubmitFirst
  <2> QED BY <1>1, <2>2, <2>3, GiveBackAllowed
<1>7. CASE SubmitRecord(j)
  <2>1. /\ UNCHANGED ledger
        /\ \/ UNCHANGED row
           \/ status' = [status EXCEPT ![j] = "failed"] /\ UNCHANGED cost
    BY <1>7 DEF SubmitRecord, Try, RecordBatchImageJobSubmitFailure
  <2>2. status[j] \in Unsent \union Given
    BY <1>7 DEF SubmitRecord, SubAt, Inv, JobInv, SubmitFirst
  <2>3. MayMove(j, Stage(status[j]), Stage("failed"))
    BY <1>1, <2>2, StageValues DEF MayMove, Statuses
  <2> QED BY <1>1, <2>1, <2>3, MoveAllowed, UnseenAllowed
<1> QED BY <1>2, <1>3, <1>4, <1>5, <1>6, <1>7, SubmitUnseen, UnseenAllowed DEF SubmitNext, Unseen

\* A transition that its table allows, by a process whose hold or results do
\* not matter for it
LEMMA TransitionAllowed ==
    ASSUME Inv, NEW j \in Jobs, NEW r \in Results, UNCHANGED ledger,
           NEW to \in {"running", "indexing", "failed", "cancelled", "settling"}, Moved(j, to, r)
    PROVE  Allowed
<1>1. TypeOK /\ status[j] \in Statuses /\ to \in Statuses
  BY DEF Inv, TypeOK, RowTypeOK, Statuses
<1>2. CASE UNCHANGED row
  BY <1>2, UnseenAllowed
<1>3. CASE CanTransitionBatchImageJob(status[j], to)
           /\ status' = [status EXCEPT ![j] = to] /\ UNCHANGED cost
  <2>1. \/ to = "failed" /\ status[j] \in Unsent \union Handed \union {"settling"}
        \/ to = "cancelled" /\ status[j] \in Unsent \union {"submitted", "running"}
        \/ to \in {"running", "indexing"} /\ status[j] \in {"submitted", "running"}
        \/ to = "settling" /\ status[j] = "indexing"
    BY <1>1, <1>3 DEF CanTransitionBatchImageJob, Statuses
  <2>2. MayMove(j, Stage(status[j]), Stage(to))
    BY <1>1, <2>1, StageValues DEF MayMove
  <2> QED BY <1>1, <1>3, <2>2, MoveAllowed
<1> QED BY <1>2, <1>3 DEF Moved

\* The recovery ends a job that was not sent, and gives its hold back.
LEMMA RecoverAllowed ==
    ASSUME Inv, NEW j \in Jobs, RecoverNext(j)
    PROVE  Allowed
<1>1. TypeOK /\ status[j] \in Statuses
  BY DEF Inv, TypeOK, RowTypeOK
<1>2. CASE RecoverFail(j)
  <2>1. /\ status[j] \in Unsent /\ status' = [status EXCEPT ![j] = "failed"]
        /\ UNCHANGED <<ledger, cost>>
    BY <1>2 DEF RecoverFail, FailStaleUnsubmittedBatchImageJob, SetStatus
  <2>2. MayMove(j, Stage(status[j]), Stage("failed"))
    BY <1>1, <2>1, StageValues DEF MayMove, Statuses
  <2> QED BY <1>1, <2>1, <2>2, MoveAllowed
<1>3. CASE RecoverRelease(j)
  <2>1. PICK r \in Results : ReleaseHold(j, r)
    BY <1>3 DEF RecoverRelease
  <2>2. Released(j)
    BY <2>1, ReleaseEffect DEF Inv
  <2>3. UNCHANGED <<status, cost>> /\ status[j] \notin Handed
    BY <1>3 DEF RecoverRelease, RecAt, Inv, ProcessInv, ReleaseAfterEnd
  <2> QED BY <1>1, <2>2, <2>3, GiveBackAllowed
<1> QED BY <1>2, <1>3, OtherUnseen, UnseenAllowed DEF RecoverNext, Unseen

\* Cancel ends a job that was not sent, and gives the hold of an ended one back.
LEMMA ClientAllowed ==
    ASSUME Inv, NEW c \in Clients, ClientNext(c)
    PROVE  Allowed
<1>1. TypeOK /\ cjob[c] \in Jobs
  BY DEF Inv, TypeOK, ControlTypeOK
<1>2. CASE CancelTransition(c)
  <2>1. PICK r \in Results : Transition(cjob[c], "cancelled", r)
    BY <1>2 DEF CancelTransition
  <2>2. Moved(cjob[c], "cancelled", r) /\ UNCHANGED ledger
    BY <1>1, <1>2, <2>1, TransitionEffect DEF CancelTransition
  <2> QED BY <1>1, <2>2, TransitionAllowed
<1>3. CASE CancelRelease(c)
  <2>1. PICK r \in Results : ReleaseHold(cjob[c], r)
    BY <1>3 DEF CancelRelease
  <2>2. Released(cjob[c])
    BY <1>1, <2>1, ReleaseEffect DEF Inv
  <2>3. UNCHANGED <<status, cost>> /\ status[cjob[c]] \notin Handed
    BY <1>3 DEF CancelRelease, ClientAt, Inv, ProcessInv, ReleaseAfterEnd
  <2> QED BY <1>1, <2>2, <2>3, GiveBackAllowed
<1> QED BY <1>2, <1>3, ClientUnseen, UnseenAllowed DEF ClientNext, Unseen

\* A worker records results, settles, charges, delivers or ends a job, and gives
\* the hold of an ended one, or of a settlement that failed too often, back.
LEMMA WorkerAllowed ==
    ASSUME Inv, NEW w \in Workers, WorkerNext(w)
    PROVE  Allowed
<1> DEFINE j == wjob[w]
<1>1. TypeOK /\ j \in Jobs /\ status[j] \in Statuses
  BY DEF Inv, TypeOK, ControlTypeOK, RowTypeOK
<1> HIDE DEF j
<1>2. CASE WorkerTransition(w)
  <2>1. PICK t \in Transitions, r \in Results : Transition(j, t[2], r)
    BY <1>2 DEF WorkerTransition, j
  <2>2. t[2] \in {"running", "indexing", "failed", "cancelled", "settling"}
    BY DEF Transitions
  <2>3. Moved(j, t[2], r) /\ UNCHANGED ledger
    BY <1>1, <1>2, <2>1, TransitionEffect DEF WorkerTransition
  <2> QED BY <1>1, <2>2, <2>3, TransitionAllowed
<1>3. CASE WorkerIndex(w)
  <2>1. /\ UNCHANGED <<ledger, status>>
        /\ \/ UNCHANGED cost
           \/ /\ status[j] = "indexing"
              /\ \E n \in output[j] : cost' = [cost EXCEPT ![j] = n]
    BY <1>3 DEF WorkerIndex, Call, ReplaceBatchImageItemsForJob, j
  <2>2. CASE UNCHANGED cost
    BY <2>1, <2>2, UnseenAllowed
  <2>3. ASSUME status[j] = "indexing", NEW n \in output[j], cost' = [cost EXCEPT ![j] = n]
        PROVE  Allowed
    <3>1. n \in Costs
      BY <1>1 DEF TypeOK, ControlTypeOK, Outputs
    <3>2. theStage[j] = "sent"
      BY <1>1, <2>3, StageValues DEF theStage
    <3>3. UNCHANGED <<theStage, theHeld, theGivenBack, theSettled, charged>>
      BY <2>1 DEF theStage, theHeld, theGivenBack, theSettled
    <3>4. Promise!Results(j)
      BY <2>3, <3>1, <3>2, <3>3 DEF Promise!Results, theStage, theHeld, theGivenBack, theSettled
    <3> QED BY <1>1, <3>4 DEF Allowed, Promise!Next
  <2> QED BY <2>1, <2>2, <2>3
<1>4. CASE WorkerRelease(w) \/ WorkerExhausted(w)
  <2>1. PICK r \in Results : ReleaseHold(j, r)
    BY <1>4 DEF WorkerRelease, WorkerExhausted, j
  <2>2. Released(j)
    BY <1>1, <2>1, ReleaseEffect DEF Inv
  <2>3. UNCHANGED <<status, cost>>
    BY <1>4 DEF WorkerRelease, WorkerExhausted
  <2>4. status[j] \notin Handed
    BY <1>4 DEF WorkerRelease, WorkerExhausted, WorkerAt, j, Inv, ProcessInv, ReleaseAfterEnd,
       SettlerKnows
  <2> QED BY <1>1, <2>2, <2>3, <2>4, GiveBackAllowed
<1>5. CASE WorkerCapture(w)
  <2>1. PICK r \in Results : CaptureHold(j, wcost[w], r)
    BY <1>5 DEF WorkerCapture, j
  <2>2. /\ wcost[w] = cost[j] /\ "hold" \in claims[j]
        /\ status[j] \in Settled
    BY <1>5 DEF WorkerCapture, WorkerAt, j, Inv, ProcessInv, SettlerKnows
  <2>3. "capture" \notin claims[j] => status[j] \in {"settling"} \union Given
    BY <1>1, <2>2 DEF Inv, JobInv, CompletedPaid
  <2>4. wcost[w] \in Nat
    BY DEF Inv, TypeOK, ControlTypeOK
  <2>5. Captured(j, cost[j], r)
    BY <1>1, <2>1, <2>2, <2>4, CaptureEffect DEF Inv
  <2>6. UNCHANGED <<status, cost>>
    BY <1>5 DEF WorkerCapture
  <2> QED BY <1>1, <2>2, <2>3, <2>5, <2>6, ChargeAllowed
<1>6. CASE WorkerMark(w)
  <2>1. /\ UNCHANGED <<ledger, cost>>
        /\ \/ UNCHANGED status
           \/ status[j] = "settling" /\ status' = [status EXCEPT ![j] = "completed"]
    BY <1>6 DEF WorkerMark, Call, MarkBatchImageJobSettled, SetStatus, j
  <2>2. "capture" \in claims[j]
    BY <1>6 DEF WorkerMark, WorkerAt, j, Inv, ProcessInv, SettlerKnows
  <2>3. status[j] = "settling" => MayMove(j, Stage(status[j]), Stage("completed"))
    BY <2>2, StageValues DEF MayMove, Statuses
  <2> QED BY <1>1, <2>1, <2>3, MoveAllowed, UnseenAllowed
<1> QED BY <1>2, <1>3, <1>4, <1>5, <1>6, WorkerUnseen, UnseenAllowed DEF WorkerNext, Unseen

LEMMA DeleteOutputAllowed ==
    ASSUME Inv, NEW j \in Jobs, DeleteOutput(j)
    PROVE  Allowed
<1>1. /\ status[j] = "completed" /\ status' = [status EXCEPT ![j] = "output_deleted"]
      /\ UNCHANGED <<ledger, cost>>
  BY DEF DeleteOutput, MarkBatchImageOutputDeleted, SetStatus
<1>2. MayMove(j, Stage(status[j]), Stage("output_deleted"))
  BY <1>1, StageValues DEF MayMove, Statuses
<1> QED BY <1>1, <1>2, MoveAllowed DEF Inv

LEMMA NextAllowed == Inv /\ [Next]_vars => [Promise!Next]_seen
<1> SUFFICES ASSUME Inv, [Next]_vars PROVE Allowed
  BY DEF Allowed
<1>1. CASE UNCHANGED vars
  BY <1>1, UnseenAllowed DEF vars
<1> QED BY <1>1, SubmitAllowed, RecoverAllowed, OtherUnseen, UnseenAllowed, DeleteOutputAllowed,
        ClientAllowed, WorkerAllowed DEF Next, Unseen

\* The batch image service implements the promise to its user: for any number of
\* jobs, workers and clients and any failures, each step of Submit, Cancel, the
\* recovery and the workers is a step of BatchImagePromise or shows the user
\* nothing, also when locks are lost and settlements overlap.
THEOREM PromiseKept == Spec => KeepsPromise
<1>1. Init => Promise!Init
  <2> SUFFICES ASSUME Init PROVE Promise!Init
    OBVIOUS
  <2>1. theStage = [j \in Jobs |-> "none"]
    BY StageValues DEF theStage, Init, Statuses
  <2>2. theHeld = {} /\ theGivenBack = {} /\ theSettled = {}
    BY DEF theHeld, theGivenBack, theSettled, Init
  <2>3. cost = [j \in Jobs |-> 0] /\ charged = [j \in Jobs |-> 0]
    BY DEF Init
  <2> QED BY <2>1, <2>2, <2>3 DEF Promise!Init, theStage, theHeld, theGivenBack, theSettled
<1>2. Inv /\ [Next]_vars => [Promise!Next]_seen
  BY NextAllowed
<1> QED BY <1>1, <1>2, Inductive, PTL DEF Spec, KeepsPromise, Promise!Spec, seen, theStage,
        theHeld, theGivenBack, theSettled

=============================================================================
