---------------------- MODULE IdempotencyStore_proofs ----------------------
(* Types of the record, for the proofs about the modules built on it. *)
EXTENDS IdempotencyStore, TLAPS

\* The fields of a record.
LEMMA RowFields ==
    ASSUME NEW r \in Rows
    PROVE  /\ r.id \in Nat /\ r.fp \in Fingerprints /\ r.locked \in Nat /\ r.expires \in Nat
           /\ r.status \in RecordStatuses \union {"absent"} /\ r.body \in Bodies
BY DEF Rows

\* What each statement returns is again a record.
LEMMA CreatedRow ==
    ASSUME NEW r \in Rows, NEW id \in Nat, NEW f \in Fingerprints, NEW l \in Nat, NEW e \in Nat
    PROVE  CreateProcessing(r, id, f, l, e) \in Rows
BY DEF CreateProcessing, Rows, RecordStatuses

LEMMA ReclaimedRow ==
    ASSUME NEW r \in Rows, NEW l \in Nat, NEW e \in Nat
    PROVE  Reclaimed(r, l, e) \in Rows
BY DEF Reclaimed, Rows, RecordStatuses

LEMMA ExtendedRow ==
    ASSUME NEW r \in Rows, NEW l \in Nat, NEW e \in Nat
    PROVE  Extended(r, l, e) \in Rows
BY DEF Extended, Rows

LEMMA SucceededRow ==
    ASSUME NEW r \in Rows, NEW id \in Nat, NEW b \in Bodies, NEW e \in Nat
    PROVE  MarkSucceeded(r, id, b, e) \in Rows
BY DEF MarkSucceeded, Rows, RecordStatuses

LEMMA FailedRow ==
    ASSUME NEW r \in Rows, NEW id \in Nat, NEW l \in Nat, NEW e \in Nat
    PROVE  MarkFailedRetryable(r, id, l, e) \in Rows
BY DEF MarkFailedRetryable, Rows, RecordStatuses

LEMMA DeletedRow ==
    ASSUME NEW r \in Rows
    PROVE  [r EXCEPT !.status = "absent"] \in Rows
BY DEF Rows
=============================================================================
