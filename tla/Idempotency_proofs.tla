------------------------- MODULE Idempotency_proofs -------------------------
(***************************************************************************)
(* Proofs about Idempotency, for any number of requests and payloads, any  *)
(* backoff and any lock that is not longer than the record's life.         *)
(***************************************************************************)
EXTENDS Idempotency, IdempotencyStore_proofs, TLAPS

\* Ids are never used again, a request keeps the id of a record only if the record has
\* its fingerprint, and a stored response is that of the record's request.
OwnInv ==
    /\ row.id < nextId
    /\ \A w \in Workers : recId[w] < nextId
    /\ \A w \in Workers :
        pc[w] \in {"reclaimExpired", "reclaim"} \union Claiming /\ Matches(row, recId[w])
            => row.fp = req[w]
    /\ row.status = "succeeded" => row.body.of = row.fp
    /\ ReplyIsOwn

\* No request comes from the future; "reclaim" is reached only after a failure.
LocalInv ==
    /\ \A w \in Workers : start[w] <= now
    /\ \A w \in Workers : pc[w] = "reclaim" => seen[w] = "failed_retryable"

\* While nobody has missed a deadline: the record carries the lock and the expiry of
\* the request that owns it, and a request that holds a stale read arrived before the
\* end of that lock.
FlightInv ==
    ~overran => \A w \in Workers :
        /\ pc[w] # "idle" => now < Deadline(w)
        /\ pc[w] \in Claiming =>
            /\ Matches(row, recId[w]) /\ row.status = "processing"
            /\ row.locked = start[w] + Lease /\ row.expires = start[w] + TTL
            /\ \A v \in Workers : pc[v] = "reclaimExpired" => start[v] < start[w] + Lease

\* A success that has not expired is protected by its record, and a request that may
\* still succeed, or will mark a failure, repeats none.
WindowInv ==
    ~overran /\ ~retaken =>
        /\ now < covered =>
            row.status \in {"processing", "succeeded"} /\ row.expires >= covered
        /\ \A w \in Workers : pc[w] \in {"execute", "markFailed"} => covered <= now

IdempotencyInv == TypeOK /\ LocalInv /\ FlightInv /\ SingleFlight

-----------------------------------------------------------------------------
LEMMA DecideTypes ==
    ASSUME TypeOK, NEW w \in Workers, DecideOn(w)
    PROVE  /\ pc' \in [Workers -> PCs] /\ start' \in [Workers -> Nat]
           /\ recId' \in [Workers -> Nat] /\ seen' \in [Workers -> RecordStatuses]
           /\ reply' \in [Workers -> Fingerprints \union {"none"}]
<1>1. row.body.of \in Fingerprints /\ row.id \in Nat
  BY RowFields DEF TypeOK, Bodies
<1>2. QED
  BY <1>1 DEF DecideOn, Return, Go, TypeOK, PCs, Claiming, RecordStatuses

LEMMA IdempotencyTypeStep == TypeOK /\ [Next]_vars => TypeOK'
<1> SUFFICES ASSUME TypeOK, [Next]_vars PROVE TypeOK'
  OBVIOUS
<1> USE StoreAssumption, ClockAssumption DEF TypeOK, PCs, Claiming, Go, SameRequest, SameHistory
<1>1. ASSUME NEW w \in Workers, Arrive(w) PROVE TypeOK'
  BY <1>1 DEF Arrive
<1>2. ASSUME NEW w \in Workers, Create(w) PROVE TypeOK'
  <2>1. CreateProcessing(row, nextId, req[w], start[w] + Lease, start[w] + TTL) \in Rows
    BY CreatedRow
  <2>2. QED
    BY <1>2, <2>1 DEF Create
<1>3. ASSUME NEW w \in Workers, GetExisting(w) PROVE TypeOK'
  <2>1. CASE DecideOn(w)
    BY <1>3, <2>1, DecideTypes DEF GetExisting
  <2>2. CASE ~DecideOn(w)
    BY <1>3, <2>2, RowFields DEF GetExisting, Return, RecordStatuses, Present
  <2>3. QED
    BY <2>1, <2>2
<1>4. ASSUME NEW w \in Workers, ReclaimExpired(w) PROVE TypeOK'
  <2>1. Reclaimed(row, start[w] + Lease, start[w] + TTL) \in Rows
    BY ReclaimedRow
  <2>2. QED
    BY <1>4, <2>1 DEF ReclaimExpired
<1>5. ASSUME NEW w \in Workers, GetLatest(w) PROVE TypeOK'
  <2>1. CASE DecideOn(w)
    BY <1>5, <2>1, DecideTypes DEF GetLatest
  <2>2. CASE ~DecideOn(w)
    BY <1>5, <2>2 DEF GetLatest, Return, RecordStatuses
  <2>3. QED
    BY <2>1, <2>2
<1>6. ASSUME NEW w \in Workers, Reclaim(w) PROVE TypeOK'
  <2>1. Reclaimed(row, start[w] + Lease, start[w] + TTL) \in Rows
    BY ReclaimedRow
  <2>2. QED
    BY <1>6, <2>1 DEF Reclaim, Return, RecordStatuses
<1>7. ASSUME NEW w \in Workers, Execute(w) PROVE TypeOK'
  BY <1>7 DEF Execute
<1>8. ASSUME NEW w \in Workers, MarkOk(w) PROVE TypeOK'
  <2>1. \A t \in {"whole", "cut"} : [of |-> req[w], text |-> t] \in Bodies
    BY DEF Bodies
  <2>2. row' \in Rows
    BY <1>8, <2>1, SucceededRow DEF MarkOk
  <2>3. QED
    BY <1>8, <2>2 DEF MarkOk, Return, RecordStatuses
<1>9. ASSUME NEW w \in Workers, MarkFailed(w) PROVE TypeOK'
  <2>1. ASSUME NEW t \in start[w] .. now
        PROVE  MarkFailedRetryable(row, recId[w], t + Backoff, start[w] + TTL) \in Rows
    <3>1. t + Backoff \in Nat /\ start[w] + TTL \in Nat
      OBVIOUS
    <3>2. QED
      BY <3>1, FailedRow
  <2>2. QED
    BY <1>9, <2>1 DEF MarkFailed, Return, RecordStatuses
<1>10. ASSUME NEW w \in Workers, Abandon(w) PROVE TypeOK'
  BY <1>10 DEF Abandon, Return, RecordStatuses
<1>11. CASE DeleteExpired
  <2>1. row' \in Rows
    BY <1>11, DeletedRow DEF DeleteExpired
  <2>2. QED
    BY <1>11, <2>1 DEF DeleteExpired
<1>12. CASE Tick
  BY <1>12 DEF Tick
<1>13. CASE UNCHANGED vars
  BY <1>13 DEF vars
<1>14. QED
  BY <1>1, <1>2, <1>3, <1>4, <1>5, <1>6, <1>7, <1>8, <1>9, <1>10, <1>11, <1>12, <1>13
     DEF Next, Work

LEMMA LocalStep == TypeOK /\ LocalInv /\ [Next]_vars => LocalInv'
<1> SUFFICES ASSUME TypeOK, LocalInv, [Next]_vars PROVE LocalInv'
  OBVIOUS
<1> USE DEF TypeOK, LocalInv, Go, Return, SameRequest, SameHistory
<1>1. ASSUME NEW w \in Workers, Work(w) PROVE LocalInv'
  BY <1>1 DEF Work, Arrive, Create, GetExisting, DecideOn, ReclaimExpired, GetLatest, Reclaim,
     Execute, MarkOk, MarkFailed, Abandon
<1>2. CASE DeleteExpired \/ Tick \/ UNCHANGED vars
  BY <1>2 DEF DeleteExpired, Tick, vars
<1>3. QED
  BY <1>1, <1>2 DEF Next

-----------------------------------------------------------------------------
(* A request gets its own response.  No assumption on time is needed.      *)

LEMMA OwnStep == TypeOK /\ OwnInv /\ [Next]_vars => OwnInv'
<1> SUFFICES ASSUME TypeOK, OwnInv, [Next]_vars PROVE OwnInv'
  OBVIOUS
<1> USE DEF TypeOK, OwnInv, ReplyIsOwn, Claiming, Go, SameRequest, SameHistory
<1>0. row.id \in Nat /\ row.fp \in Fingerprints
  BY RowFields
<1>1. ASSUME NEW w \in Workers, Arrive(w) PROVE OwnInv'
  BY <1>1 DEF Arrive
<1>2. ASSUME NEW w \in Workers, Create(w) PROVE OwnInv'
  <2>1. CASE ~Present(row)
    <3>1. row' = CreateProcessing(row, nextId, req[w], start[w] + Lease, start[w] + TTL)
      BY <1>2, <2>1 DEF Create
    <3>2. row'.id = nextId /\ row'.fp = req[w] /\ row'.status = "processing"
      BY <3>1 DEF CreateProcessing, Rows
    <3>3. \A v \in Workers \ {w} : ~Matches(row', recId'[v])
      BY <1>2, <2>1, <3>2 DEF Create, Matches
    <3>4. QED
      BY <1>2, <2>1, <3>2, <3>3 DEF Create
  <2>2. CASE Present(row)
    BY <1>2, <2>2 DEF Create
  <2>3. QED
    BY <2>1, <2>2
\* What reading the record yields, once the fingerprints have been compared.
<1>A. ASSUME NEW w \in Workers, row.fp = req[w], DecideOn(w),
             UNCHANGED <<row, nextId, req>>
      PROVE  OwnInv'
  BY <1>0, <1>A DEF DecideOn, Return
<1>3. ASSUME NEW w \in Workers, GetExisting(w) PROVE OwnInv'
  <2>1. CASE row.fp = req[w] /\ DecideOn(w)
    BY <1>3, <2>1, <1>A DEF GetExisting
  <2>2. CASE ~(row.fp = req[w] /\ DecideOn(w))
    BY <1>0, <1>3, <2>2 DEF GetExisting, Return
  <2>3. QED
    BY <2>1, <2>2
<1>4. ASSUME NEW w \in Workers, ReclaimExpired(w) PROVE OwnInv'
  <2>1. CASE Reclaimable(row, recId[w], seen[w], start[w])
    <3>1. row' = Reclaimed(row, start[w] + Lease, start[w] + TTL) /\ Present(row)
      BY <1>4, <2>1 DEF ReclaimExpired, Reclaimable, Matches
    <3>2. row'.id = row.id /\ row'.fp = row.fp /\ row'.status = "processing"
      BY <3>1 DEF Reclaimed, Rows
    <3>3. QED
      BY <1>4, <2>1, <3>1, <3>2 DEF ReclaimExpired, Matches
  <2>2. CASE ~Reclaimable(row, recId[w], seen[w], start[w])
    BY <1>4, <2>2 DEF ReclaimExpired
  <2>3. QED
    BY <2>1, <2>2
<1>5. ASSUME NEW w \in Workers, GetLatest(w) PROVE OwnInv'
  <2>1. CASE row.fp = req[w] /\ DecideOn(w)
    BY <1>5, <2>1, <1>A DEF GetLatest
  <2>2. CASE ~(row.fp = req[w] /\ DecideOn(w))
    BY <1>0, <1>5, <2>2 DEF GetLatest, Return
  <2>3. QED
    BY <2>1, <2>2
<1>6. ASSUME NEW w \in Workers, Reclaim(w) PROVE OwnInv'
  <2>1. CASE Reclaimable(row, recId[w], seen[w], start[w])
    <3>1. row' = Reclaimed(row, start[w] + Lease, start[w] + TTL) /\ Present(row)
      BY <1>6, <2>1 DEF Reclaim, Reclaimable, Matches
    <3>2. row'.id = row.id /\ row'.fp = row.fp /\ row'.status = "processing"
      BY <3>1 DEF Reclaimed, Rows
    <3>3. QED
      BY <1>6, <2>1, <3>1, <3>2 DEF Reclaim, Matches
  <2>2. CASE ~Reclaimable(row, recId[w], seen[w], start[w])
    BY <1>0, <1>6, <2>2 DEF Reclaim, Return
  <2>3. QED
    BY <2>1, <2>2
<1>7. ASSUME NEW w \in Workers, Execute(w) PROVE OwnInv'
  BY <1>7 DEF Execute
<1>8. ASSUME NEW w \in Workers, MarkOk(w) PROVE OwnInv'
  <2>1. CASE UNCHANGED row
    BY <1>0, <1>8, <2>1 DEF MarkOk, Return
  <2>2. CASE row' # row
    <3>1. PICK t \in {"whole", "cut"} :
            row' = MarkSucceeded(row, recId[w], [of |-> req[w], text |-> t], start[w] + TTL)
      BY <1>8, <2>2 DEF MarkOk
    <3>2. Matches(row, recId[w])
      BY <2>2, <3>1 DEF MarkSucceeded
    <3>3. row'.id = row.id /\ row'.fp = row.fp /\ row'.body.of = req[w]
      BY <3>1, <3>2 DEF MarkSucceeded, Rows
    <3>4. row.fp = req[w] /\ Present(row)
      BY <1>8, <3>2 DEF MarkOk, Matches
    <3>5. QED
      BY <1>0, <1>8, <3>3, <3>4 DEF MarkOk, Return, Matches
  <2>3. QED
    BY <2>1, <2>2
<1>9. ASSUME NEW w \in Workers, MarkFailed(w) PROVE OwnInv'
  <2>1. CASE UNCHANGED row
    BY <1>0, <1>9, <2>1 DEF MarkFailed, Return
  <2>2. CASE row' # row
    <3>1. PICK t \in start[w] .. now :
            row' = MarkFailedRetryable(row, recId[w], t + Backoff, start[w] + TTL)
      BY <1>9, <2>2 DEF MarkFailed
    <3>2. Present(row)
      BY <2>2, <3>1 DEF MarkFailedRetryable, Matches
    <3>3. row'.id = row.id /\ row'.fp = row.fp /\ row'.status = "failed_retryable"
      BY <2>2, <3>1 DEF MarkFailedRetryable, Rows
    <3>4. QED
      BY <1>0, <1>9, <3>2, <3>3 DEF MarkFailed, Return, Matches
  <2>3. QED
    BY <2>1, <2>2
<1>10. ASSUME NEW w \in Workers, Abandon(w) PROVE OwnInv'
  BY <1>0, <1>10 DEF Abandon, Return
<1>11. CASE DeleteExpired
  <2>1. row'.id = row.id /\ row'.status = "absent"
    BY <1>11 DEF DeleteExpired, Rows
  <2>2. QED
    BY <1>11, <2>1 DEF DeleteExpired, Matches, Present
<1>12. CASE Tick
  BY <1>12 DEF Tick
<1>13. CASE UNCHANGED vars
  BY <1>13 DEF vars
<1>14. QED
  BY <1>1, <1>2, <1>3, <1>4, <1>5, <1>6, <1>7, <1>8, <1>9, <1>10, <1>11, <1>12, <1>13
     DEF Next, Work

-----------------------------------------------------------------------------
(* One request executes at a time, while deadlines are met.                *)

\* While a request owns the record nobody else can claim or delete it.
LEMMA OwnerExcludes ==
    ASSUME IdempotencyInv, ~overran, NEW w \in Workers, pc[w] \in Claiming
    PROVE  /\ Present(row) /\ ~Expired(row, now) /\ row.expires > now
           /\ \A v \in Workers : pc[v] \in {"reclaimExpired", "reclaim"}
                => ~Reclaimable(row, recId[v], seen[v], start[v])
           /\ \A v \in Workers : pc[v] \in Claiming => v = w
<1> USE StoreAssumption DEF IdempotencyInv, TypeOK, LocalInv, FlightInv, SingleFlight
<1>1. Matches(row, recId[w]) /\ row.expires = start[w] + TTL /\ now < start[w] + TTL
  BY DEF Deadline, Claiming
<1>2. Present(row) /\ ~Expired(row, now) /\ row.expires > now
  BY <1>1 DEF Matches, Expired
<1>3. ASSUME NEW v \in Workers, pc[v] \in {"reclaimExpired", "reclaim"}
      PROVE  ~Reclaimable(row, recId[v], seen[v], start[v])
  BY <1>3 DEF Reclaimable
<1>4. QED
  BY <1>2, <1>3

\* A step that neither changes the record nor adds an owner.
LEMMA NoClaim ==
    ASSUME IdempotencyInv, ~overran, TypeOK', NEW w \in Workers,
           UNCHANGED <<row, now>>,
           \A v \in Workers \ {w} : pc'[v] = pc[v] /\ start'[v] = start[v] /\ recId'[v] = recId[v],
           \/ pc'[w] = "idle"
           \/ /\ pc'[w] # "idle" /\ pc[w] # "idle" /\ start'[w] = start[w]
              /\ pc[w] \in Claiming => recId'[w] = recId[w]
              /\ pc[w] \in Claiming <=> pc'[w] \in Claiming
              /\ pc'[w] = "reclaimExpired" => \A v \in Workers : pc[v] \notin Claiming
    PROVE  FlightInv' /\ SingleFlight'
<1> USE StoreAssumption DEF IdempotencyInv, TypeOK, FlightInv, SingleFlight, Deadline, Claiming
<1>1. \A v \in Workers : pc'[v] \in Claiming => pc[v] \in Claiming
  OBVIOUS
<1>2. SingleFlight'
  BY <1>1
<1>3. ASSUME NEW v \in Workers, pc'[v] # "idle" PROVE now' < Deadline(v)'
  BY <1>3
<1>4. ASSUME NEW v \in Workers, pc'[v] \in Claiming
      PROVE  /\ Matches(row, recId[v])' /\ row'.status = "processing"
             /\ row'.locked = start'[v] + Lease /\ row'.expires = start'[v] + TTL
  BY <1>1, <1>4
<1>5. ASSUME NEW v \in Workers, pc'[v] \in Claiming, NEW u \in Workers, pc'[u] = "reclaimExpired"
      PROVE  start'[u] < start'[v] + Lease
  BY <1>1, <1>5
<1>6. QED
  BY <1>2, <1>3, <1>4, <1>5

\* A request that is within its first deadline becomes the only owner of the record.
LEMMA Claim ==
    ASSUME IdempotencyInv, ~overran, TypeOK', NEW w \in Workers,
           pc[w] \notin Claiming, pc[w] # "idle",
           \A v \in Workers : pc[v] \notin Claiming,
           pc' = [pc EXCEPT ![w] = "execute"], UNCHANGED <<now, start>>,
           \A v \in Workers \ {w} : recId'[v] = recId[v],
           Matches(row, recId[w])', row'.status = "processing",
           row'.locked = start[w] + Lease, row'.expires = start[w] + TTL
    PROVE  FlightInv' /\ SingleFlight'
<1> USE StoreAssumption DEF IdempotencyInv, TypeOK, LocalInv, FlightInv, SingleFlight, Deadline, Claiming
<1>1. now < start[w] + Lease
  OBVIOUS
<1>2. SingleFlight'
  OBVIOUS
<1>3. ASSUME NEW v \in Workers, pc'[v] # "idle" PROVE now' < Deadline(v)'
  BY <1>1, <1>3
<1>4. ASSUME NEW v \in Workers, pc'[v] \in Claiming PROVE v = w
  BY <1>4
<1>5. ASSUME NEW u \in Workers PROVE start'[u] < start'[w] + Lease
  BY <1>1
<1>6. QED
  BY <1>2, <1>3, <1>4, <1>5

LEMMA FlightStep == IdempotencyInv /\ [Next]_vars => FlightInv' /\ SingleFlight'
<1> SUFFICES ASSUME IdempotencyInv, [Next]_vars, ~overran'
             PROVE  FlightInv' /\ SingleFlight'
  BY DEF FlightInv, SingleFlight
<1>T. TypeOK /\ TypeOK'
  BY IdempotencyTypeStep DEF IdempotencyInv
<1>0. ~overran
  BY <1>T DEF Next, Work, Arrive, Create, GetExisting, ReclaimExpired, GetLatest, Reclaim, Execute,
     MarkOk, MarkFailed, Abandon, DeleteExpired, Tick, vars, SameHistory, TypeOK
<1> USE <1>0, <1>T DEF Go, SameRequest, SameHistory
<1>1. ASSUME NEW w \in Workers, Arrive(w) PROVE FlightInv' /\ SingleFlight'
  BY <1>1, StoreAssumption
     DEF Arrive, IdempotencyInv, TypeOK, FlightInv, SingleFlight, Deadline, Claiming
<1>2. ASSUME NEW w \in Workers, Create(w) PROVE FlightInv' /\ SingleFlight'
  <2>1. CASE ~Present(row)
    <3>1. \A v \in Workers : pc[v] \notin Claiming
      BY <2>1, OwnerExcludes
    <3>2. row' = CreateProcessing(row, nextId, req[w], start[w] + Lease, start[w] + TTL)
      BY <1>2, <2>1 DEF Create
    <3>3. /\ row'.id = nextId /\ row'.status = "processing"
          /\ row'.locked = start[w] + Lease /\ row'.expires = start[w] + TTL
      BY <3>2 DEF CreateProcessing, Rows, TypeOK
    <3>4. Matches(row, recId[w])' /\ (\A v \in Workers \ {w} : recId'[v] = recId[v])
      BY <1>2, <2>1, <3>3 DEF Create, Matches, Present, TypeOK
    <3>5. QED
      BY <1>2, <2>1, <3>1, <3>3, <3>4, Claim DEF Create
  <2>2. CASE Present(row)
    BY <1>2, <2>2, NoClaim DEF Create, Claiming, TypeOK
  <2>3. QED
    BY <2>1, <2>2
<1>A. ASSUME NEW w \in Workers, pc[w] \in {"get", "getLatest"}, DecideOn(w),
             UNCHANGED <<row, now>>
      PROVE  FlightInv' /\ SingleFlight'
  BY <1>A, NoClaim DEF DecideOn, Return, Claiming, TypeOK
<1>3. ASSUME NEW w \in Workers, GetExisting(w) PROVE FlightInv' /\ SingleFlight'
  <2>1. CASE DecideOn(w)
    BY <1>3, <2>1, <1>A DEF GetExisting
  <2>2. CASE ~DecideOn(w) /\ Return(w)
    BY <1>3, <2>2, NoClaim DEF GetExisting, Return, TypeOK
  <2>3. CASE ~DecideOn(w) /\ ~Return(w)
    <3>1. row.expires <= now
      BY <1>3, <2>3, RowFields DEF GetExisting, IdempotencyInv, LocalInv, TypeOK
    <3>2. \A v \in Workers : pc[v] \notin Claiming
      BY <3>1, OwnerExcludes, RowFields DEF TypeOK
    <3>3. QED
      BY <1>3, <2>3, <3>2, NoClaim DEF GetExisting, TypeOK, Claiming
  <2>4. QED
    BY <2>1, <2>2, <2>3
\* Both forms of TryReclaim.
<1>B. ASSUME NEW w \in Workers, pc[w] \in {"reclaimExpired", "reclaim"},
             Reclaimable(row, recId[w], seen[w], start[w]),
             row' = Reclaimed(row, start[w] + Lease, start[w] + TTL),
             pc' = [pc EXCEPT ![w] = "execute"], UNCHANGED <<now, start, recId>>
      PROVE  FlightInv' /\ SingleFlight'
  <2>1. \A v \in Workers : pc[v] \notin Claiming
    BY <1>B, OwnerExcludes
  <2>2. /\ row'.id = row.id /\ row'.status = "processing"
        /\ row'.locked = start[w] + Lease /\ row'.expires = start[w] + TTL
    BY <1>B DEF Reclaimed, Rows, TypeOK
  <2>3. Matches(row, recId[w])'
    BY <1>B, <2>2 DEF Reclaimable, Matches, Present
  <2>4. pc[w] # "idle"
    BY <1>B
  <2>5. QED
    BY <1>B, <2>1, <2>2, <2>3, <2>4, Claim
<1>4. ASSUME NEW w \in Workers, ReclaimExpired(w) PROVE FlightInv' /\ SingleFlight'
  <2>1. CASE Reclaimable(row, recId[w], seen[w], start[w])
    BY <1>4, <2>1, <1>B DEF ReclaimExpired
  <2>2. CASE ~Reclaimable(row, recId[w], seen[w], start[w])
    BY <1>4, <2>2, NoClaim DEF ReclaimExpired, Claiming, TypeOK
  <2>3. QED
    BY <2>1, <2>2
<1>5. ASSUME NEW w \in Workers, GetLatest(w) PROVE FlightInv' /\ SingleFlight'
  <2>1. CASE DecideOn(w)
    BY <1>5, <2>1, <1>A DEF GetLatest
  <2>2. CASE ~DecideOn(w)
    BY <1>5, <2>2, NoClaim DEF GetLatest, Return, TypeOK
  <2>3. QED
    BY <2>1, <2>2
<1>6. ASSUME NEW w \in Workers, Reclaim(w) PROVE FlightInv' /\ SingleFlight'
  <2>1. CASE Reclaimable(row, recId[w], seen[w], start[w])
    BY <1>6, <2>1, <1>B DEF Reclaim
  <2>2. CASE ~Reclaimable(row, recId[w], seen[w], start[w])
    BY <1>6, <2>2, NoClaim DEF Reclaim, Return, TypeOK
  <2>3. QED
    BY <2>1, <2>2
<1>7. ASSUME NEW w \in Workers, Execute(w) PROVE FlightInv' /\ SingleFlight'
  BY <1>7, NoClaim DEF Execute, Claiming, TypeOK
\* The owner leaves the record: nobody else owns it.
<1>8. ASSUME NEW w \in Workers, MarkOk(w) \/ MarkFailed(w) PROVE FlightInv' /\ SingleFlight'
  <2>1. \A v \in Workers : pc[v] \in Claiming => v = w
    BY <1>8, OwnerExcludes DEF MarkOk, MarkFailed, Claiming
  <2>2. /\ pc' = [pc EXCEPT ![w] = "idle"] /\ now' = now
        /\ \A v \in Workers \ {w} : start'[v] = start[v]
    BY <1>8 DEF MarkOk, MarkFailed, Return, TypeOK
  <2>3. \A v \in Workers : pc'[v] \notin Claiming
    BY <2>1, <2>2 DEF Claiming, TypeOK
  <2>4. QED
    BY <2>2, <2>3 DEF IdempotencyInv, FlightInv, SingleFlight, Deadline, TypeOK
<1>9. ASSUME NEW w \in Workers, Abandon(w) PROVE FlightInv' /\ SingleFlight'
  BY <1>9, NoClaim DEF Abandon, Return, TypeOK
<1>10. CASE DeleteExpired
  <2>1. \A v \in Workers : pc[v] \notin Claiming
    BY <1>10, OwnerExcludes DEF DeleteExpired
  <2>2. QED
    BY <1>10, <2>1 DEF DeleteExpired, IdempotencyInv, FlightInv, SingleFlight, Deadline
<1>11. CASE Tick
  <2>1. ~\E w \in Workers : pc[w] # "idle" /\ now' >= Deadline(w)
    BY <1>11, Zenon DEF Tick
  <2>2. \A w \in Workers : pc[w] # "idle" => now' < Deadline(w)
    BY <1>11, <2>1, StoreAssumption DEF Tick, Deadline, TypeOK
  <2>3. QED
    BY <1>11, <2>2 DEF Tick, Matches, Present, IdempotencyInv, FlightInv, SingleFlight, Deadline
<1>12. CASE UNCHANGED vars
  BY <1>12 DEF vars, IdempotencyInv, FlightInv, SingleFlight, Deadline, Matches, Present
<1>13. QED
  BY <1>1, <1>2, <1>3, <1>4, <1>5, <1>6, <1>7, <1>8, <1>9, <1>10, <1>11, <1>12 DEF Next, Work

-----------------------------------------------------------------------------
(* A success is not repeated before it expires.                            *)

\* A request claims the record only when no success is protected by it.
LEMMA ClaimIsDue ==
    ASSUME IdempotencyInv, WindowInv, ~overran, ~retaken', Next, NEW w \in Workers,
           pc[w] \notin Claiming, pc'[w] \in Claiming
    PROVE  covered <= now
<1> USE DEF IdempotencyInv, TypeOK, LocalInv, Claiming, Go, SameRequest, SameHistory
<1>0. ~retaken
  BY DEF Next, Work, Arrive, Create, GetExisting, ReclaimExpired, GetLatest, Reclaim, Execute,
     MarkOk, MarkFailed, Abandon, DeleteExpired, Tick
<1>1. now < covered => row.status \in {"processing", "succeeded"} /\ row.expires >= covered
  BY <1>0 DEF WindowInv
<1>2. ASSUME NEW v \in Workers, Create(v) PROVE covered <= now
  <2>1. v = w /\ ~Present(row)
    BY <1>2 DEF Create
  <2>2. QED
    BY <1>1, <2>1 DEF Present
<1>3. ASSUME NEW v \in Workers, ReclaimExpired(v) PROVE covered <= now
  <2>1. v = w /\ retaken' = (retaken \/ row.expires > start[w])
    BY <1>3 DEF ReclaimExpired
  <2>2. ~(row.expires > start[w])
    BY <2>1, Zenon
  <2>3. QED
    BY <1>1, <2>2, RowFields
<1>4. ASSUME NEW v \in Workers, Reclaim(v) PROVE covered <= now
  <2>1. v = w /\ Reclaimable(row, recId[w], seen[w], start[w]) /\ pc[w] = "reclaim"
    BY <1>4 DEF Reclaim, Return
  <2>2. QED
    BY <1>1, <2>1 DEF Reclaimable
<1>5. ASSUME NEW v \in Workers,
             Arrive(v) \/ GetExisting(v) \/ GetLatest(v) \/ Execute(v)
                \/ MarkOk(v) \/ MarkFailed(v) \/ Abandon(v)
      PROVE  FALSE
  BY <1>5 DEF Arrive, GetExisting, GetLatest, DecideOn, Execute, MarkOk, MarkFailed, Abandon, Return
<1>6. CASE DeleteExpired \/ Tick
  BY <1>6 DEF DeleteExpired, Tick
<1>7. QED
  BY <1>2, <1>3, <1>4, <1>5, <1>6 DEF Next, Work

LEMMA WindowStep == IdempotencyInv /\ WindowInv /\ [Next]_vars => WindowInv'
<1> SUFFICES ASSUME IdempotencyInv, WindowInv, [Next]_vars, ~overran', ~retaken'
             PROVE  WindowInv'
  BY DEF WindowInv
<1>T. TypeOK /\ TypeOK' /\ LocalInv
  BY IdempotencyTypeStep DEF IdempotencyInv
<1>0. ~overran /\ ~retaken
  BY <1>T DEF Next, Work, Arrive, Create, GetExisting, ReclaimExpired, GetLatest, Reclaim, Execute,
     MarkOk, MarkFailed, Abandon, DeleteExpired, Tick, vars, SameHistory, TypeOK
<1>R. row.expires \in Nat
  BY <1>T, RowFields DEF TypeOK
<1>C. ASSUME NEW w \in Workers, pc[w] \notin Claiming, pc'[w] \in Claiming, Next
      PROVE  covered <= now
  BY <1>C, <1>0, ClaimIsDue
<1> USE <1>0, <1>T, <1>R DEF WindowInv, TypeOK, Claiming, Go, SameRequest, SameHistory
<1>1. ASSUME NEW w \in Workers, Arrive(w) \/ GetExisting(w) \/ GetLatest(w) \/ Abandon(w)
      PROVE  WindowInv'
  BY <1>1 DEF Arrive, GetExisting, GetLatest, DecideOn, Abandon, Return
<1>2. ASSUME NEW w \in Workers, Create(w) \/ ReclaimExpired(w) \/ Reclaim(w)
      PROVE  WindowInv'
  <2>0. Next /\ UNCHANGED <<now, covered>> /\ pc[w] \notin Claiming
    BY <1>2 DEF Next, Work, Create, ReclaimExpired, Reclaim
  <2>1. CASE pc'[w] \in Claiming
    <3>1. covered <= now
      BY <1>C, <2>0, <2>1
    <3>2. QED
      BY <2>0, <3>1
  <2>2. CASE pc'[w] \notin Claiming
    <3>1. UNCHANGED row /\ (\A v \in Workers \ {w} : pc'[v] = pc[v])
      BY <1>2, <2>2 DEF Create, ReclaimExpired, Reclaim, Return
    <3>2. QED
      BY <2>0, <2>2, <3>1
  <2>3. QED
    BY <2>1, <2>2
<1>3. ASSUME NEW w \in Workers, Execute(w) PROVE WindowInv'
  <2>1. /\ row.status = "processing" /\ row.expires = start[w] + TTL
        /\ \A v \in Workers : pc[v] \in Claiming => v = w
    BY <1>3, OwnerExcludes DEF Execute, IdempotencyInv, FlightInv
  <2>2. CASE covered' = covered
    BY <1>3, <2>2 DEF Execute
  <2>3. CASE covered' # covered
    <3>1. covered' = start[w] + TTL /\ pc' = [pc EXCEPT ![w] = "markOk"] /\ UNCHANGED <<row, now>>
      BY <1>3, <2>3 DEF Execute
    <3>2. \A v \in Workers : pc'[v] \notin {"execute", "markFailed"}
      BY <2>1, <3>1
    <3>3. QED
      BY <2>1, <3>1, <3>2, StoreAssumption
  <2>4. QED
    BY <2>2, <2>3
<1>4. ASSUME NEW w \in Workers, MarkOk(w) PROVE WindowInv'
  <2>1. CASE UNCHANGED row
    BY <1>4, <2>1 DEF MarkOk, Return
  <2>2. CASE row' # row
    <3>1. PICK t \in {"whole", "cut"} :
            row' = MarkSucceeded(row, recId[w], [of |-> req[w], text |-> t], start[w] + TTL)
      BY <1>4, <2>2 DEF MarkOk
    <3>2. row'.status = "succeeded" /\ row'.expires = start[w] + TTL
      BY <2>2, <3>1 DEF MarkSucceeded, Rows
    <3>3. row.expires = start[w] + TTL
      BY <1>4 DEF MarkOk, IdempotencyInv, FlightInv
    <3>4. QED
      BY <1>4, <3>2, <3>3 DEF MarkOk, Return
  <2>3. QED
    BY <2>1, <2>2
<1>5. ASSUME NEW w \in Workers, MarkFailed(w) PROVE WindowInv'
  <2>1. covered <= now /\ UNCHANGED <<now, covered>>
    BY <1>5 DEF MarkFailed
  <2>2. QED
    BY <2>1
<1>6. CASE DeleteExpired
  <2>1. row.expires <= now
    BY <1>6 DEF DeleteExpired, Expired
  <2>2. covered <= now /\ UNCHANGED <<now, covered>>
    BY <1>6, <2>1 DEF DeleteExpired
  <2>3. QED
    BY <2>2
<1>7. CASE Tick
  BY <1>7 DEF Tick
<1>8. CASE UNCHANGED vars
  BY <1>8 DEF vars
<1>9. QED
  BY <1>1, <1>2, <1>3, <1>4, <1>5, <1>6, <1>7, <1>8 DEF Next, Work

-----------------------------------------------------------------------------
LEMMA IdempotencyInit == Init => IdempotencyInv /\ OwnInv /\ WindowInv
<1> SUFFICES ASSUME Init PROVE IdempotencyInv /\ OwnInv /\ WindowInv
  OBVIOUS
<1>1. PICK f \in Fingerprints :
        /\ row = [id |-> 0, fp |-> f, status |-> "absent", locked |-> 0, expires |-> 0,
                  body |-> [of |-> f, text |-> "whole"]]
        /\ req = [w \in Workers |-> f]
  BY DEF Init
<1>2. row \in Rows /\ req \in [Workers -> Fingerprints]
  BY <1>1 DEF Rows, Bodies
<1>3. TypeOK
  BY <1>2 DEF Init, TypeOK, PCs, RecordStatuses
<1>4. OwnInv
  BY <1>1 DEF Init, OwnInv, ReplyIsOwn, Claiming
<1>5. LocalInv /\ FlightInv /\ SingleFlight /\ WindowInv
  BY DEF Init, LocalInv, FlightInv, SingleFlight, WindowInv, Claiming
<1>6. QED
  BY <1>3, <1>4, <1>5 DEF IdempotencyInv

LEMMA IdempotencyInductive == Spec => [](IdempotencyInv /\ OwnInv /\ WindowInv)
<1>1. IdempotencyInv /\ OwnInv /\ WindowInv /\ [Next]_vars => (IdempotencyInv /\ OwnInv /\ WindowInv)'
  BY IdempotencyTypeStep, LocalStep, OwnStep, FlightStep, WindowStep DEF IdempotencyInv
<1>2. QED
  BY <1>1, IdempotencyInit, PTL DEF Spec

\* The types of the coordinator's state.
THEOREM IdempotencyTypeCorrect == Spec => []TypeOK
<1>1. IdempotencyInv => TypeOK
  BY DEF IdempotencyInv
<1>2. QED
  BY <1>1, IdempotencyInductive, PTL

\* Execute never runs two requests with the same key at once, provided that requests
\* meet their deadlines.
THEOREM RequestsExclude == Spec => []SingleFlight
<1>1. IdempotencyInv => SingleFlight
  BY DEF IdempotencyInv
<1>2. QED
  BY <1>1, IdempotencyInductive, PTL

\* Execute returns only responses to the same payload, however late a request runs.
THEOREM OwnReply == Spec => []ReplyIsOwn
<1>1. OwnInv => ReplyIsOwn
  BY DEF OwnInv
<1>2. QED
  BY <1>1, IdempotencyInductive, PTL

\* No request repeats a success that has not expired, even one that was never recorded,
\* unless TryReclaim took an unexpired record for an expired one.
THEOREM NotRepeated == Spec => OncePerWindow
<1>1. IdempotencyInv /\ WindowInv /\ [Next]_vars
        => [\A w \in Workers :
                (pc[w] \notin Claiming /\ pc'[w] \in Claiming /\ ~overran /\ ~retaken')
                    => covered <= now]_vars
  <2> SUFFICES ASSUME IdempotencyInv, WindowInv, Next, NEW w \in Workers,
                      pc[w] \notin Claiming, pc'[w] \in Claiming, ~overran, ~retaken'
               PROVE  covered <= now
    OBVIOUS
  <2>1. QED
    BY ClaimIsDue
<1>2. QED
  BY <1>1, IdempotencyInductive, PTL DEF Spec, OncePerWindow
=============================================================================
