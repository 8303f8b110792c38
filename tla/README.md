# TLA+ models of nuro-s2

nuro-s2 is a gateway that resells access to AI providers: users hold API keys, a
prepaid balance and subscriptions, and the gateway schedules their requests over a
pool of upstream accounts. This directory holds TLA+ modules for the parts of it in
which money, limits or exclusive access are at stake, the TLC configurations that check them
on small instances, and TLAPS proofs of their main properties for instances of any
size. Source paths below are relative to `backend/internal/`.

## 1. Inventory

| Component | State it keeps | Operations and callers | What is hard |
|---|---|---|---|
| Payment orders (`service/payment_order.go`, `payment_fulfillment.go`, `payment_order_lifecycle.go`, `payment_order_expiry_service.go`, `handler/payment_webhook_handler.go`) | `payment_orders` rows, `redeem_codes`, `payment_audit_logs` | create, provider webhook, expiry and reconciliation job, cancel by user or admin, verification by the user, admin retry | all of them run concurrently on the same order without a lock; every write can fail; the provider repeats, delays or loses callbacks |
| Refunds (`service/payment_refund.go`) | order status, the user's balance, the audit rows that remember a held deduction | refund request, prepare, execute, query and finalize | balance deduction, gateway call and status write are separate; the gateway can be asynchronous; failures need compensation |
| Idempotency (`service/idempotency.go`, `idempotency_cleanup_service.go`, `repository/idempotency_repo.go`) | `idempotency_records` | execute with a key, reclaim, cleanup | lock expiry, reclaim races, late writers |
| System operation lock (`service/system_operation_lock_service.go`, `handler/admin/system_handler.go`) | one row of `idempotency_records`, a goroutine per holder | acquire, renew, release | leases, take-over after a crash, renewals that arrive late |
| Redeem codes, subscriptions, affiliate rebates | their tables | called by payment orders | exactly-once effects |
| Batch images (`service/batch_image_*.go`, `repository/batch_image_repo.go`, `batch_image_queue.go`, `usage_billing_repo.go`) | `batch_image_jobs`, the user's balance and frozen balance, `usage_billing_dedup`, a queue of jobs in Redis | submit, cancel, submit again, delete; workers that poll, index and settle; recovery of stale jobs | a hold is taken, and captured or returned, by different processes over hours; locks in Redis can be lost; every step can fail before or after its effect |
| Tenant permits (`repository/tenant_escrow.go`, `concurrency_cell_cache.go`) | in Redis: epochs, leases, registry, permits per node; per process: a stock of permits per tenant | register, heartbeat, grant, release, reclaim; acquire and release of a request, live leases, eviction, close | stock in memory against account in Redis; nodes that die, come back in a new epoch, or lose their lease; late calls of a predecessor |
| Concurrency slots (`service/concurrency_service.go`, Lua scripts) | Redis sorted sets, wait queues | acquire, release, cleanup | crash of a holder, expiry, limit |
| Account scheduling (`openai_account_scheduler.go`, `scheduler_snapshot_service.go`, sticky sessions) | snapshots in Redis, outbox | select, refresh | stale snapshots |
| Gateways (`gateway_service.go`, `openai_gateway_service.go`, ...) | per-request | forward, failover, usage recording | long request pipelines over HTTP |
| OpenAI WebSocket pool (`openai_ws_pool.go`) | per-account connections | acquire, release, prewarm, cleanup | limits, leases, concurrent dial |
| Token refresh (`oauth_refresh_api.go`, `token_refresh_service.go`) | tokens, refresh lock | refresh on demand and in the background | lost race of refresh tokens |
| Billing cache, usage records, quotas (`billing_cache_service.go`, `usage_record_worker_pool.go`, `user_platform_quota_flusher.go`) | caches, queues | deduct, flush | cache against database, lost updates |
| Auth cache, billing-cache outbox | L1/L2 caches | invalidate | stale entries |
| Asynchronous image tasks | tasks in Redis | submit, poll | restarts |
| Backup, e-mail queue, ops monitoring, content moderation, channel monitors, settings | their own | background jobs | mostly I/O |
| Edge lane pool (`edge-rs/`) | HTTP lanes in Rust | proxying | connection reuse |
| Frontend (`frontend/`), generated ORM (`backend/ent/`), migrations | - | - | - |

The payment order is the core modelled first: it is the only place where an outside
event (a payment) must produce exactly one effect (credit, subscription days) across
crashes, retries and five independent callers.

What makes each of them correct: a payment buys exactly one delivery and an order is
never lost (orders); the user is charged once and the gateway agrees with the status
(refunds); one execution per key at a time, and none repeated while its record lives
(idempotency); one system operation at a time (lock); a limit is never exceeded and
every slot comes back (slots, WebSocket pool, worker pool); a reader never keeps
acting on an invalidated entry (caches, snapshots); a refresh token is used once
(token refresh); a hold is captured or released once, and no job is
handed to the provider without one (batch images); the permits of all nodes add up to no more than the
limit, and a process admits no request without one (tenant permits).

How they interact: payment orders call redeem codes, subscriptions and affiliate
rebates, and share `payment_orders`, `payment_audit_logs` and the user's balance with
refunds. The administrator's handlers run inside the idempotency coordinator; the
system handlers take the system operation lock inside that, in the same table. Batch
images share the user's balance with everything that charges; other holds and charges
appear in the model as an amount that is frozen already. Tenant permits stand in front
of the account slots and fall back to the user slots in Redis, which the model counts.

The hazards found while reading, each at its line and with the properties aimed at
it, are listed in `PROJECT.json`.

## 2. Modules

| Module | Models |
|---|---|
| `PaymentFulfillment` | every handler that works on a payment order, statement by statement |
| `PaymentPromise` | the abstract specification: a payment buys one delivery |
| `PaymentRefund` | request, execution, compensation and settlement of refunds |
| `RefundPromise` | the abstract specification: charge, payout and outcome of an order move together |
| `IdempotencyStore` | the row of `idempotency_records` and the statements on it, as operators |
| `Idempotency` | `IdempotencyCoordinator.Execute` and the clean-up, over `IdempotencyStore` |
| `SystemOperationLock` | acquire, renewal and release of the lock, over `IdempotencyStore` |
| `BatchImageJob` | the table `batch_image_jobs` and the updates on it, as operators |
| `BatchImageLedger` | balance, frozen balance and the three deduplicated operations on a hold |
| `BatchImageQueue` | the Redis structures that hand jobs to workers, and the lock of a job |
| `BatchImages` | Submit, Cancel, the workers, the recovery and the timers, over the three above |
| `BatchImagePromise` | the abstract specification: sent only against a hold, charged once and its price, delivered only when charged |
| `TenantEscrowStore` | the scripts of `tenant_escrow.go` on one tenant's permits |
| `TenantEscrow` | processes, their stock, requests and live leases, over `TenantEscrowStore` |
| `*_proofs` | invariants and theorems about the module of the same name (`BatchImageLeak_proofs`: about the holds of ended jobs, over `BatchImages_proofs`) |
| `MC_*` | instances for TLC, and the statements of docs and tests that the code does not meet |

Everywhere a *worker* is one handler invocation (with the goroutines it starts), and a
*step* is one SQL statement, one transaction or one call of an outside service:
between two steps of a worker any other worker may run.

### PaymentFulfillment

State: the columns of `payment_orders` that decide anything (`status`, `paid_at`,
whether `expires_at` has passed, whether `updated_at` is within the grace period), the
redeem code of the order, the audit row of a grant, what the provider knows (payable,
closed, paid, acknowledged), and counters of what the user received. `Rebated` are the orders
with a rebate base, `late` remembers per order the calls that failed after their effect. Per worker: the
next step, the order, the entry point.

Actions follow the code's names: `CheckPendingLimit`, `InsertOrder`, `InvokeProvider`,
`FailOrder` (CreateOrder); `HandleNotify`, `CancelOrder`, `ExpireTimedOutOrder`,
`ReconcilePendingOrder`, `VerifyOrder`, `RetryFulfillment` (entry points);
`QueryUpstream`, `CloseOrder`; `ConfirmPayment`, `ToPaid`, `AlreadyProcessed`;
`ExecuteFulfillment`, `LockOrder`, `LookupCode`, `CreateCode`, `Redeem`,
`CheckGroupAndLog`, `AssignSubscription`, `WriteAssignedLog`, `ApplyRebate`,
`MarkCompleted`, `MarkFailed`. The environment pays, lets time pass and refunds.
`Abandon` stops a worker at any step.

Abstractions: an amount matches the order or does not; timestamps are "due" and
"fresh"; all orders belong to one user; a refund is one step that leaves COMPLETED (it
is the subject of the next module). A failure consumes one of `MaxFaults`;
`LateFaults` also allows failures after the effect and failures nobody notices. After a
statement whose error ends the handler, a failure after the effect is the statement
followed by `Abandon`; where the handler goes on differently (`InvokeProvider`,
`CreateCode`, `Redeem`, `AssignSubscription`, `ApplyRebate`, `MarkCompleted`) it is a
disjunct of its own. In particular `MarkCompleted` may write COMPLETED and report an
error: the worker then comes to `MarkFailed`, whose condition on RECHARGING leaves the
order alone. `InvokeProvider` may store the payment URL and report an error: the user is
given none (only the answer of CreateOrder has it), so the order stays unpayable.

### PaymentRefund

State: `status`, `refund_amount`, `force_refund`; the audit rows REFUND_ROLLBACK_FAILED,
REFUND_FAILED and REFUND_PENDING (each at most once per order: unique index of
migration 131); the balance and what is deducted for the order; what the gateway was
asked. Per worker its `RefundPlan`, which is computed by `PrepareRefund` and used later.

Actions: `RequestRefund`/`RecordRequest` (the user), `PrepareRefund`, `LockRefund`,
`Deduct`, `CallGateway`, `MarkRefundOk`, `MarkRefundPending`, `RollbackRefund`,
`FlagRollback`, `FailStatus`, `RestoreStatus` (ExecuteRefund), `QueryAndFinalizeRefund`,
`AskGateway`, `FinalizeSuccess`, `FinalizeFailed`, `FinalizeFlagged`. The environment
settles pending refunds, spends and tops up the balance.

Abstractions: amounts are small numbers; days of a subscription are counted as the full
amount; the lookup of the provider instance is a failure of the request; orders have a
trade number, so REFUND_NO_TRADE_NO is left out. `Origin` says which initial conditions
an order may have: completed, or left pending by an older release with or without its
audit row.

`RefundPromise` is what the user and the merchant see: the order is open, worked on,
pending or refunded; the payout at the gateway; what the user is charged. `Promise` in
`PaymentRefund` maps the statuses, `gw` and `deducted` to it; plans, audit rows and
program points do not show.

### IdempotencyStore, Idempotency, SystemOperationLock

The record is a row with id, fingerprint, status, `locked_until`, `expires_at` and a
stored response (whose it is, and whether it was truncated: a truncated one is no
longer JSON). Times are numbers, NULL is time 0; `Tick` advances the clock up to
`Horizon`.

In `Idempotency` a request reads the clock once (`Arrive`) and uses that time in every
later step, as `Execute` does: `Create`, `GetExisting` with the switch on the status
(`DecideOn`), `ReclaimExpired`, `GetLatest`, `Reclaim`, `Execute`, `MarkOk`,
`MarkFailed`. `Abandon` is a failed statement, a response that cannot be marshalled or
a stopped process. `covered`, `overran` and `retaken` are history variables. Requests
without a key touch no record and are left out.

In `SystemOperationLock` a worker is a request and its renewing goroutine. Reading the
clock (`BeginRenew`) and the statement (`Renew`) are separate steps, and the goroutine
ends on its own (`StopRenewing`), so a renewal may reach the record after `Release`.

The models take a single SQL statement as atomic, and assume `Lease <= TTL` (30 s
against an hour or a day).

### BatchImageJob, BatchImageLedger, BatchImageQueue, BatchImages

A job's row has its status, whether the provider's job name is set, the retry count of
the settlement (counted up to `MaxRetries`), whether the last error is one of the
settlement, its cost and whether the user has deleted it. The ledger has `balance` and
`frozen` and, per job, the request ids claimed in `usage_billing_dedup`: an operation
whose id is claimed answers "ok" and changes nothing, also when the first one found no
hold. The queue has the list of ready jobs (a multiset), the sorted sets of delayed and
active jobs, the inflight keys and the locks.

Four kinds of processes work on a job. `Submit` runs from `SubmitReserve` over
`SubmitItems`, `SubmitUpload`, `SubmitProvider`, `SubmitUpdate` to `SubmitEnqueue`, and
back from a failure over `SubmitUndo`, `SubmitRecord` and `SubmitHide`. A client cancels
(`CancelTransition`, `CancelRelease`, `CancelProvider`), submits again and deletes. A
worker reserves and locks a job (`WorkerReserve`, `WorkerLock`), reads it, polls the
provider, moves the status (`WorkerTransition`), indexes, captures and marks
(`WorkerSettle`, `WorkerCapture`, `WorkerMark`), or records the failure, gives up after
`MaxRetries` and releases, and puts the job back or acknowledges it. The recovery fails
jobs that were never handed over and returns their hold. Timers: the movers of delayed
and of stale active jobs, the expiry of a lock and of an inflight key.

There is no clock. What a timeout allows happens when the process it watches is gone;
if it overtakes one that is still at work, that is a *lapse*, which counts as a
failure and sets `lapsed`. Other failures: an error before the effect, an error after
it ("late"), a crash. Items, pictures and prices are left out: the results of the
provider are a cost or garbled.

`BatchImagePromise` has the stage of a job as a user can tell it, the sets of jobs
whose hold was taken, given back or charged, and price and charge; `Promise` in
`BatchImages` maps rows and claims to it. Queue, locks and processes do not show.

### TenantEscrowStore, TenantEscrow

The store has, per node, the current epoch and a field with the epoch and count of the
permits it holds; the leases, the registry and the lists of tenants as sets of pairs of
node and epoch; and the counter of all permits that are lent. One script is one
operator (`GrantAdopts`, `GrantLends` and `GrantFenced` are the three answers of
`grantEscrowScript`).

A process is one start of a node: `RegisterStart` and `RegisterNode` are the two commands
of RegisterNode, `Heartbeat` may still set a lease once after a successor took the next
epoch. A request fetches the object of its tenant (`AcquireUserSlot`), then returns what
exceeds a lowered limit, is admitted from the stock, asks for permits or is refused; a
fenced process falls back to the user slots in Redis for good. Between fetching and
locking, the object may be evicted (`ReleaseIdleState`), which leaves the request
"stranded" with it. `ReturnUnusedForLive` and `AcquireLiveTenantLease` make room for
live calls; `Close`, `UnregisterNode`, `Crash` and `ReclaimExpiredNode` are the ends of a
process. Failures are as above; `slipped` remembers a lapse, or that the reply to a
Release was lost, after which a process counts on permits it no longer has.

One tenant is modelled: the scripts of different tenants share only epochs, leases and
the registry. The hash that chooses the nodes of a tenant with a low limit is a
nondeterministic choice.

## 3. Runs

| Run | Instance | Shows |
|---|---|---|
| `fulfil_balance` | 1 balance order, 2 workers, 2 failures incl. late ones | exclusive fulfilment, also when the answer to the completion is lost; COMPLETED only when delivered, 2xx only when the order no longer waits, a paid order is never closed; implements `PaymentPromise`, so that the credit comes once and only for a matching payment; a matching payment is delivered, or the grace period passed, or the fulfilment was orphaned |
| `fulfil_subscription` | a subscription order and a pending row of a legacy type, 2 workers, 1 failure of any kind | days granted once, and once more only for a call that failed late; the legacy order is never completed |
| `refund_balance` | 1 balance order of amount 2, 2 workers, balance 0..2, 1 failure before its effect | charged once, audit rows tell what is deducted, gateway and status agree, full deduction before the gateway call; implements `RefundPromise` |
| `refund_faults` | 1 subscription order in any initial condition, 2 workers, 2 failures of any kind | exclusive, no negative amounts, a payout beyond the first and an order that nobody works on go back to failures, a refunded order never changes |
| `refund_live` | 1 balance order of amount 1, completed or left pending by an older release, 2 workers, 1 failure before its effect | a pending refund is settled, with two exceptions (see 5) |
| `idempotency` | 2 requests, 2 payloads, TTL 2, lease 1, backoff 1, clock up to 4 | single flight, no repeated success, replies are one's own |
| `system_lock` | 2 workers, 2 operations, TTL 3, lease 2, clock from 1 to 4 | one operation at a time, the record shows the holder's lock |
| `batch_images` | 1 job with hold 2 and cost 1 or 3, 2 workers, 1 client, 2 retries, balance 0..2 beside another hold of 2, 2 failures of any kind | money is conserved, a job whose row is with the provider has its hold and no batch is started without one, a completed job was charged its cost, a hold ends once, one worker at a time; implements `BatchImagePromise`; the hold of an ended job is left behind only after a failure or an early release; the hold of a queued job ends at last |
| `escrow` | 2 nodes, 2 processes, 2 requests, limits 1 and 2, grants of 1, 1 failure of any kind | lent permits are those the nodes hold; they, and the user slots of fenced processes, each stay within the limit together with the live leases; the stock of a process is backed, the tenant is not oversold, permits of a dead node can be found, permits under a live lease are changed only by the epoch that holds them |
| `doc_held_returned` | violated | see 5 |
| `doc_lock_renewed` | violated | see 5 |
| `doc_hold_leak` | violated, without any failure | see 5 |

Bounds. Orders do not interact except through the pending limit and the balance, so
one order shows the races; the second order of `fulfil_subscription` brings the limit
and the legacy type. Two workers allow a holder and any competitor, who may start again
as another handler as often as it likes; two failures allow one in the fulfilment and one in its compensation. An
amount of 2 is the least for a partial refund and a partial cover. TTL > lease
makes the end of a lock and the end of a record different events; the horizon lets both
happen, followed by a second claim (two lifetimes for `idempotency`, one and a lease
taken over for `system_lock`). Jobs of `batch_images` meet only in the balance, so one job
beside another hold shows what goes wrong between processes; a cost of 3 exceeds the
hold, a balance below 2 refuses it. In `escrow` two processes can be on one node (old and
new epoch) or on two; grants of 1 with a limit of 2 give both the low-limit path and the
one with several grants. The run takes nodes, processes and requests as
interchangeable, which they are. The proofs of section 4 remove these bounds for all
safety properties.

Deadlock checking is off because the systems may rest: all orders or jobs settled, the
clock at its bound, or all processes gone.

Fairness. `fulfil_balance`: a started handler runs on (WF; goroutines are not stopped
without a failure), the grace period passes (WF), the provider repeats a notification
that was not acknowledged (SF; the webhook handler relies on it by answering with an
error), and the administrator retries an order that stays PAID or FAILED (SF; the
documented procedure). `refund_live`: requests run on (WF), the gateway settles what it
left pending (WF), the administrator queries a pending order again (SF; nothing in the
code does it by itself). `batch_images`: workers run on (WF; the service starts them as
endless loops), delayed jobs become due and abandoned ones are moved back (WF; two
background loops), the lock of a worker that is gone expires (WF; a TTL in Redis), and
the provider ends a batch (WF; the property is about jobs it works for). No fairness for
clients, for Submit or for failures. With several jobs a worker could prefer one of them
for ever in the model, because the order of the ready list is left out; the instance has
one job for that reason too.

## 4. Proofs

All theorems hold for any number of orders, jobs, nodes, processes, failures and payloads,
any amounts, limits and times;
the only assumptions are the named ASSUMEs on the constants.

* `PaymentFulfillment_proofs`. `TypeCorrect` first. The invariant `IndInv` adds to the
  properties what makes them inductive: `CreatorInv` (the only unconditional write to
  FAILED is by a creator whose order nobody can have paid), `PaymentInv` (what statuses
  and program points imply about the payment), `EffectInv` (the redeem code and the
  audit row tell the truth about the delivery). From it: `Exclusive`, `CreditedOnce`,
  `Completed`, `Acked`, and with one step lemma `PaidForGood`. `Granted` needs
  `GrantInv`: grants whose audit row is missing, and which a retry would repeat, have a
  late failure each. `FulfillmentExclusive` has two cases because of the lost answer to the
  completion: the worker at `MarkFailed` finds the order RECHARGING, or completed for
  good. `Refinement` shows that every step is
  a step of `PaymentPromise` or a stutter, for balance orders.
* `PaymentRefund_proofs`. `RefundInv` = types, exclusion and `HeldInv` (no plan or audit
  row claims more than is deducted; without it the compensations could make `deducted`
  negative) holds for all failures and gives `RefundTypeCorrect`, `RefundIsExclusive`,
  `RefundedForGood`; `CoverInv` gives `DeductedFirst`. `DeductionInv` (what rows and
  workers know about the deduction) and `GatewayInv` (who may ask the gateway, and what
  a stale query can still do) hold for `LateFaults = FALSE` and give `ChargedOnce`,
  `DeductionKnown`, `GatewayAgreement`. With both, `RefundPromiseKept` shows that each
  action is a step of `RefundPromise` on one order, or a stutter: `OrderMove` says what
  a step may do to one order, `MoveIsPromised` that such a move is allowed, and one
  lemma per group of actions that they make such moves. For it `GatewayInv` also says
  that a refund becomes pending only after the gateway was asked.
  Two theorems hold for failures of any kind, late and unnoticed ones included, where
  the ones above say nothing. `PayoutsCounted`: the gateway accepts at most one refund
  of an order, and one more for each failure. Its invariant `PayoutInv` says that a
  payout in excess of the failures belongs to the latest request, and that an order which
  can be refunded again has none; `QueryInv` says of a query under way that the order is
  still pending or final, or has its REFUND_FAILED row, which stops a stale "failed" from
  reopening an order whose later refund was accepted. `OrphansExplained`: an order
  that is REFUNDING although nobody works on it had a failure or a REFUND_PENDING row
  (the case of `doc_held_returned`).
* `IdempotencyStore_proofs` has the types of the statements.
  `Idempotency_proofs`: `OwnInv` (ids are not used again; who keeps an id that still
  matches has the record's fingerprint) gives `OwnReply` without any assumption on time.
  `FlightInv` (the record carries the lock and expiry of its owner, and every request
  with a stale read arrived before that lock ends) gives `RequestsExclude`; `WindowInv`
  (an unexpired success is protected by a processing or succeeded record that lives at
  least as long) gives `NotRepeated`. Both hold while `overran` is false: a request
  claims the record within the lease and is done within the record's life.
* `SystemOperationLock_proofs`: `LeaseInv` and `ClockInv` (a worker before its claim has
  no renewal left over, a renewal under way prolongs the lease) make `LeaseIsRecorded`
  and `OneOperation` inductive while `overran` is false.

* `BatchImages_proofs`. The invariant says what each process knows of its job:
  `SubmitFirst` (Submit hands over nothing before the hold is taken), `ReleaseAfterEnd`
  (who is about to return a hold has seen the job fail), `ChargeIsCost` (what was captured
  is the cost, which no longer changes), `SettlerKnows` (what a worker knows while it
  settles, with the lock or without). With these four, `HandedFunded` and `CompletedPaid`
  are inductive through all failures, lost locks included, and so is `Conserved`
  (`HandedIsFunded`, `CompletedIsPaid`, `MoneyConserved`). `HandedFunded` is about the row (a
  status from submitted to indexing needs an outstanding hold) and about the start of a
  batch, not about the batch as long as it runs. `LockIsOwn` and `GivenUp` hold
  without a lapse and give `HoldEndsOnce` and `WorkersExclude`. `PromiseKept` is the
  refinement of `BatchImagePromise`, for all failures: what changes a row or the ledger
  is a move of the stage (`MoveAllowed`), or takes, gives back or charges the hold
  (`TakeAllowed`, `GiveBackAllowed`, `ChargeAllowed`), and the invariant gives the
  guards, also to a worker that has lost its lock.
* `BatchImageLeak_proofs`. `NoLeak` is violated (section 5); `LeaksExplained` says by what
  alone: a failure, or a release that was claimed before the hold. The invariant `CareInv`
  holds the chain of responsibility while nothing has failed: the hold of an ended job
  is *carried* by a process that will release it or enqueue the job, or the job is queued
  (`Carry`); who fails a job for good has released its hold (`FailedLast`); a worker takes
  a job out of the queue only if it has not failed or its hold is released
  (`ClosingKnows`, which needs that no other worker has the job, hence `LapseCounted`);
  and "already queued" is true (`InflightQueued`), so an enqueue that does nothing loses
  nothing. The last two hold whatever fails.
* `TenantEscrow_proofs`. First the arithmetic of permits: they are a finite set of pairs
  of node and number, and what a script does to it is the change of one field plus the
  fields it clears (`PermitsChange`, `PermitsCleared`). `ProcInv` says of each process
  that it uses no more than its stock and, while it is the current one of its node and
  nothing slipped, that its lease and registration are there, its stock is on its
  account, and the account also covers requests its object does not count (those
  admitted from an evicted object). `Distinct` (no two processes share an epoch of a
  node) and `Hosted` (requests are on processes that are up) make it inductive together
  with `Balanced`, `Bounded` and `Registered`. `NeverOversold` follows by numbering: each
  request in flight gets a permit of its own in the store, so there are no more requests
  than permits lent. `PermitsBalance` and `LimitBounds` hold whatever fails
  (`Bounded` is about the two ledgers, permits and user slots, not about requests in
  flight: one on a predecessor whose permit was adopted is in neither);
  `StockIsBacked`, `SweepFindsPermits` and `NeverOversold` as long as nothing slipped.
  `LeasesGuard` is an action property and holds whatever fails: one lemma per script says
  that permits under a live lease stay, or that the current epoch that holds them calls.

Every safety property of a passing run is stated by a theorem. The type invariants of
orders, idempotency and the lock, and `CreditedOnceForPayment` (which follows from the
refinement), are theorems without a run; the other type invariants say that amounts and
counts do not become negative, and have both. Only model-checked: the
liveness properties (`PaidIsDelivered`, `PendingIsSettled`, `QueuedHoldEnds`), which rest
on fairness, and the violations. Neither fairness nor ENABLED is treated by the proofs.

## 5. Where code and documentation disagree

* `doc_held_returned`: the comment in `markRefundPending` says a held deduction is given
  back when the gateway fails the refund. An order that becomes pending a second time
  hits the unique index on the audit rows; it stays REFUNDING with the deduction kept.
* `doc_lock_renewed`: a test says the lock is renewed while it is held. `TryReclaim` does
  not update the fingerprint, so an operation that took over the record is refused its
  first renewal and holds the lock for one lease only.
* `doc_hold_leak`: a comment in the recovery says a release that failed must leave an
  automatic retry, else the frozen balance leaks. A release that finds no hold succeeds and
  keeps its claim of the request id. If Cancel comes between the INSERT of the job and
  its hold, the hold is taken afterwards and every later release counts as a repetition.

Smaller ones, in the models but without a run of their own: a job that Cancel, or the
recovery, ends while provider.Submit is under way, or that Cancel ends on a row it read
before the batch was named, gets its hold back, and the batch may run at the provider
until `abortOrphanProviderJob` stops it, or for good if Cancel came after the naming or
the abort fails (`batch_image_public.go:384`; `HandedFunded` speaks of rows for that
reason); a failed fulfilment can be
retried (`docs/PAYMENT.md`), unless the update to FAILED fails as well or the handler
stops: the order then stays RECHARGING, which every retry refuses and no job resets (the
orphaned case of `PaidIsDelivered`); concurrent requests with one key have one side
effect (a test says), but `TryReclaim` does not look at `expires_at`, so two requests that
both read an expired record can execute one after the other (`retaken`, excepted in
`OncePerWindow`); the maximum of pending
orders (`docs/PAYMENT.md:65`) can be exceeded by two concurrent requests; a payment
whose notification arrives after the grace period is not delivered
(`docs/PAYMENT.md:260`, the case `LateForGrace` of `PaidIsDelivered`); after a flagged
rollback a refund of a larger amount is sent with only the smaller amount deducted
(`payment_refund.go:374` and `389`, excluded in `FullDeductionFirst`); a pending refund
of an order that already has a REFUND_FAILED row (after a failed rollback) cannot be
settled when the gateway fails it, and one whose deduction was given back cannot be
settled when the gateway confirms it and the user has spent the money
(`payment_refund.go:656`, `725`; both excepted in `PendingIsSettled`); a renewal that read the
clock before the release may shorten the lock of the next operation (counted as
`overran`: without that TLC violates `LeaseIsRecorded`).

Not covered by the assumptions of a property: what the user is charged after a gateway
call that succeeded although its reply was lost (`LateFaults`; `PayoutPerFailure` bounds
the payouts), orders left pending by an older release without an audit
row (`Origin` "unrecorded" is outside `Recorded`).

## 6. Plan

Done: orders, refunds, idempotency, system operation lock, batch images, tenant permits.
Left, in this order:

1. Account slots and wait counters (`concurrency_service.go`, `concurrency_cache.go`): limit,
   expiry, clean-up of crashed holders; composed with tenant permits, which are taken
   first.
2. Token refresh (`oauth_refresh_api.go`): lock, double check, lost lock.
3. Authentication cache and its invalidation outbox; scheduler snapshot and outbox:
   no stale entry survives the invalidation.
4. OpenAI WebSocket pool; user message queue; asynchronous image tasks; usage worker
   pool; quota flusher; billing cache; leader lock.

## 7. Not modelled

The gateways' request rewriting and streaming (data transformation over HTTP), account
scoring (floating point), prices and rates (decimal arithmetic), configuration, reports,
backup, monitoring and moderation (CRUD and I/O), the Rust edge, the frontend, generated
code. `PROJECT.json` gives the reason for each. These are most of the repository's lines
(the generated ORM alone has hundreds of files), so the models, which follow the code
that changes shared state, stand for a small share of them: no model of the protocols
above would make that share large.

Left out inside modelled components: two concurrent `CreateOrder` calls that both count
the pending orders before either inserts (in the model, no property forbids it); the
DELETE of the idempotency clean-up, which is one atomic step although PostgreSQL chooses
its victims from a snapshot (`idempotency_repo.go:222`); a late query of a pending refund
without a REFUND_PENDING row, left by an older release (`payment_refund.go:518`, in the
model, outside `Recorded`); an error of the operation that the idempotency coordinator runs,
which counts as no execution whatever it did (`idempotency.go:400`); the unconditional UPDATE to FAILED of CreateOrder
(`payment_order.go:107`, in the model; `CreatorInv` shows that nobody can have paid); an
error of the database during the index, which fails a batch for good although results
exist (`batch_image_processor.go:197`, in the model; the operator pays, no property
forbids it). Of tenant permits, the expiry of user slots and live leases in use, and
tenants without a limit (`concurrency_cell_cache.go:1052`), whose requests take no permit.
