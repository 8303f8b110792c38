--------------------------- MODULE BatchImageJob ---------------------------
(***************************************************************************)
(* The table batch_image_jobs and the updates of batch_image_repo.go on    *)
(* it.  Each operator is one statement or one transaction; a transition    *)
(* checks the status under a row lock.                                     *)
(***************************************************************************)
EXTENDS Naturals

CONSTANTS
    Jobs,           \* batch image jobs of one user
    MaxRetries      \* batchImageSettlementMaxRetries

ASSUME RetryAssumption == MaxRetries \in Nat \ {0}

VARIABLES
    status,         \* per job: status, "absent" before the row exists
    named,          \* per job: is provider_job_name set?
    retry,          \* per job: retry_count, counted up to MaxRetries
    coded,          \* per job: does last_error_code start with SETTLEMENT_?
    cost,           \* per job: success_count times the unit price
    hidden          \* per job: is user_deleted_at set?

row == <<status, named, retry, coded, cost, hidden>>

\* IsTerminalBatchImageJobStatus
Terminal == {"completed", "failed", "cancelled", "output_deleted"}
\* The provider works, or has worked, for the job and nothing is settled.
Handed == {"submitted", "running", "indexing"}
Statuses == {"absent", "created", "uploading", "settling"} \union Handed \union Terminal

RowTypeOK ==
    /\ status \in [Jobs -> Statuses]
    /\ named \in [Jobs -> BOOLEAN]
    /\ retry \in [Jobs -> 0..MaxRetries]
    /\ coded \in [Jobs -> BOOLEAN]
    /\ cost \in [Jobs -> Nat]
    /\ hidden \in [Jobs -> BOOLEAN]

\* The transitions that some caller asks for.
CanTransitionBatchImageJob(from, to) ==
    /\ from \notin Terminal \union {"absent"}
    /\ \/ to = "failed"
       \/ to = "uploading" /\ from = "created"
       \/ to = "submitted" /\ from \in {"created", "uploading"}
       \/ to = "cancelled" /\ from \in {"created", "uploading", "submitted", "running"}
       \/ to \in {"running", "indexing"} /\ from \in {"submitted", "running"}
       \/ to = "settling" /\ from = "indexing"

SetStatus(j, s) == status' = [status EXCEPT ![j] = s]

\* TransitionBatchImageJobStatus.  An error code is only written with "failed",
\* where nothing reads it any more.
TransitionBatchImageJobStatus(j, to, ok) ==
    \/ /\ ok /\ CanTransitionBatchImageJob(status[j], to)
       /\ SetStatus(j, to) /\ UNCHANGED <<named, retry, coded, cost, hidden>>
    \/ ~ok /\ ~CanTransitionBatchImageJob(status[j], to) /\ UNCHANGED row

\* CreateBatchImageJob
CreateBatchImageJob(j) ==
    /\ status[j] = "absent"
    /\ SetStatus(j, "created") /\ UNCHANGED <<named, retry, coded, cost, hidden>>

\* Mutant: the job is submitted whatever has happened to it.
UpdateBatchImageJobProviderSubmit_AnyStatus(j, ok) ==
    /\ ok /\ SetStatus(j, "submitted")
    /\ named' = [named EXCEPT ![j] = TRUE]
    /\ UNCHANGED <<retry, coded, cost, hidden>>

\* UpdateBatchImageJobProviderSubmit
UpdateBatchImageJobProviderSubmit(j, ok) ==
    \/ /\ ok /\ CanTransitionBatchImageJob(status[j], "submitted")
       /\ SetStatus(j, "submitted")
       /\ named' = [named EXCEPT ![j] = TRUE]
       /\ UNCHANGED <<retry, coded, cost, hidden>>
    \/ ~ok /\ ~CanTransitionBatchImageJob(status[j], "submitted") /\ UNCHANGED row

\* RecordBatchImageJobSubmitFailure: writes "failed" whatever the status is.
RecordBatchImageJobSubmitFailure(j, markFailed) ==
    /\ status' = [status EXCEPT ![j] = IF markFailed THEN "failed" ELSE @]
    /\ coded' = [coded EXCEPT ![j] = FALSE]
    /\ UNCHANGED <<named, retry, cost, hidden>>

\* FailStaleUnsubmittedBatchImageJob, once updated_at is old enough
FailStaleUnsubmittedBatchImageJob(j) ==
    /\ status[j] \in {"created", "uploading"} /\ ~named[j]
    /\ SetStatus(j, "failed")
    /\ coded' = [coded EXCEPT ![j] = FALSE]
    /\ UNCHANGED <<named, retry, cost, hidden>>

\* ReplaceBatchImageItemsForJob: the results, and with them success_count
ReplaceBatchImageItemsForJob(j, newCost, ok) ==
    \/ /\ ok /\ status[j] = "indexing"
       /\ cost' = [cost EXCEPT ![j] = newCost]
       /\ UNCHANGED <<status, named, retry, coded, hidden>>
    \/ ~ok /\ status[j] # "indexing" /\ UNCHANGED row

\* SetBatchImageJobSettlementFailed
SetBatchImageJobSettlementFailed(j) ==
    /\ retry' = [retry EXCEPT ![j] = IF @ < MaxRetries THEN @ + 1 ELSE @]
    /\ coded' = [coded EXCEPT ![j] = TRUE]
    /\ UNCHANGED <<status, named, cost, hidden>>

\* MarkBatchImageJobSettled
MarkBatchImageJobSettled(j, ok) ==
    \/ /\ ok /\ status[j] = "settling"
       /\ SetStatus(j, "completed") /\ UNCHANGED <<named, retry, coded, cost, hidden>>
    \/ ~ok /\ status[j] # "settling" /\ UNCHANGED row

\* MarkBatchImageJobUserDeleted
MarkBatchImageJobUserDeleted(j) ==
    /\ hidden' = [hidden EXCEPT ![j] = @ \/ status[j] \in Terminal]
    /\ UNCHANGED <<status, named, retry, coded, cost>>

\* MarkBatchImageOutputDeleted
MarkBatchImageOutputDeleted(j) ==
    /\ status[j] = "completed"
    /\ SetStatus(j, "output_deleted") /\ UNCHANGED <<named, retry, coded, cost, hidden>>
=============================================================================
