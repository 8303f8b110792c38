---------------------------- MODULE TenantEscrow ----------------------------
(***************************************************************************)
(* The tenant permits of the gateway: processes borrow them from the store *)
(* and admit requests from their own stock (localTenantEscrow and the user *)
(* slots of concurrency_cell_cache.go).  A process that finds itself       *)
(* fenced falls back to the user slots in Redis for good.                  *)
(*                                                                         *)
(* A process is one start of a node.  Its map holds the tenant's state     *)
(* object, created when needed; an object that is not there counts as an   *)
(* empty one.  A request that has fetched the object may be stranded with  *)
(* it when it is evicted; it is taken to be alone there.  A step takes at  *)
(* most one Redis call unless said otherwise.                              *)
(*                                                                         *)
(* There is no clock.  What a timeout allows happens when the process it   *)
(* watches is gone, or, as a "lapse", while it is still at work.  A call   *)
(* may fail without effect ("error") or after it ("late"), and a process   *)
(* may stop ("crash").  Left out: the account slots, which are taken after *)
(* the permit, the expiry of slots and live leases in use, and the hash    *)
(* that chooses the nodes of a tenant with a low limit, and tenants        *)
(* without a limit (limit <= 0), whose requests take no permit.            *)
(***************************************************************************)
EXTENDS TenantEscrowStore

CONSTANTS
    Procs,          \* processes
    Requests,       \* requests at a time
    None,           \* no process, no request, no entry
    Limits,         \* limits of the tenant that requests come with
    MaxLimit,       \* the largest of them
    GrantMax,       \* escrow_grant_size
    FaultKinds,     \* which of "error", "late", "crash" and "lapse" happen
    MaxFaults       \* bound on their number

ASSUME EscrowAssumption ==
    /\ IsFiniteSet(Requests) /\ None \notin Requests \union Procs \union Nodes
    /\ MaxLimit \in Nat \ {0} /\ Limits \subseteq 1..MaxLimit
    /\ GrantMax \in Nat \ {0}
    /\ MaxFaults \in Nat

VARIABLES
    live,           \* live leases of the tenant
    ppc,            \* per process: state
    node, ep,       \* per process: its node and epoch
    mode,           \* per process: may it use permits?  validTo and escrowDegraded
    hb,             \* per process: the heartbeat goroutine
    grants, inUse,  \* per process: of the object in its map
    req,            \* per request: state, process, limit
    faults,         \* failures so far
    slipped         \* history: a timeout overtook a process at work, or the
                    \* reply to a Release was lost

process == <<ppc, node, ep, mode, hb>>
object == <<grants, inUse>>
vars == <<store, live, process, object, req, faults, slipped>>

\* Between two requests
Idle == [at |-> "idle", proc |-> None, limit |-> MaxLimit]

\* Type invariant.
TypeOK ==
    /\ StoreTypeOK
    /\ live \in Nat
    /\ ppc \in [Procs -> {"new", "register", "up", "closing", "gone"}]
    /\ node \in [Procs -> Nodes \union {None}]
    /\ \A p \in Procs : ppc[p] \notin {"new", "gone"} => node[p] \in Nodes
    /\ ep \in [Procs -> Nat]
    /\ mode \in [Procs -> {"valid", "expired", "degraded"}]
    /\ hb \in [Procs -> {"runs", "last", "stopped"}]
    /\ grants \in [Procs -> Nat]
    /\ inUse \in [Procs -> Nat]
    /\ req \in [Requests -> [at : {"idle", "entered", "stranded", "locked", "running", "fallback", "slot"},
                             proc : Procs \union {None}, limit : 1..MaxLimit]]
    /\ \A r \in Requests : req[r].at \notin {"idle", "slot"} => req[r].proc \in Procs
    /\ faults \in 0..MaxFaults
    /\ slipped \in BOOLEAN

Init ==
    /\ epoch = [n \in Nodes |-> 0]
    /\ lease = {} /\ registry = {} /\ members = {}
    /\ holder = [n \in Nodes |-> NoHolder]
    /\ allocated = 0
    /\ live = 0
    /\ ppc = [p \in Procs |-> "new"]
    /\ node = [p \in Procs |-> None]
    /\ ep = [p \in Procs |-> 0]
    /\ mode = [p \in Procs |-> "expired"]
    /\ hb = [p \in Procs |-> "stopped"]
    /\ grants = [p \in Procs |-> 0]
    /\ inUse = [p \in Procs |-> 0]
    /\ req = [r \in Requests |-> Idle]
    /\ faults = 0
    /\ slipped = FALSE

-----------------------------------------------------------------------------
(* Failures.                                                               *)

Smooth == UNCHANGED <<faults, slipped>>
Fault(kind) ==
    /\ kind \in FaultKinds /\ faults < MaxFaults
    /\ faults' = faults + 1 /\ UNCHANGED slipped
Slip(kind) ==
    /\ kind \in FaultKinds /\ faults < MaxFaults
    /\ faults' = faults + 1 /\ slipped' = TRUE

\* A timeout fires: what it watches is gone, or lapses.
Overdue(gone) == (gone /\ Smooth) \/ (~gone /\ Slip("lapse"))

\* manager.Release by p.  Results: the permits are returned, p is fenced, or
\* there is no proper answer.
Results == {"ok", "fenced", "error"}
Return(p, permits, r) ==
    \/ r = "ok" /\ Release(node[p], ep[p], permits, TRUE) /\ Smooth
    \/ r = "fenced" /\ Release(node[p], ep[p], permits, FALSE) /\ Smooth
    \/ r = "error" /\ Fault("error") /\ UNCHANGED store
    \/ r = "error" /\ Slip("late") /\ Release(node[p], ep[p], permits, TRUE)

-----------------------------------------------------------------------------
(* RegisterNode, the heartbeat and the expiry of leases.                   *)

RegisterStart(p, n) ==
    /\ ppc[p] = "new"
    /\ RegisterEpoch(n)
    /\ node' = [node EXCEPT ![p] = n]
    /\ ep' = [ep EXCEPT ![p] = epoch[n] + 1]
    /\ ppc' = [ppc EXCEPT ![p] = "register"]
    /\ Smooth /\ UNCHANGED <<mode, hb, live, object, req>>

RegisterNode(p) ==
    /\ ppc[p] = "register"
    /\ RegisterLease(node[p], ep[p])
    /\ ppc' = [ppc EXCEPT ![p] = "up"]
    /\ mode' = [mode EXCEPT ![p] = "valid"]
    /\ hb' = [hb EXCEPT ![p] = "runs"]
    /\ Smooth /\ UNCHANGED <<node, ep, live, object, req>>

\* Whether validTo is in the future no longer matters to a degraded process.
Validity(p, v) == mode' = [mode EXCEPT ![p] = IF @ = "degraded" THEN @ ELSE v]

\* Heartbeat compares the epochs and then sets the lease.  If a successor takes
\* the next epoch in between, the old lease is set once more.
Heartbeat(p) ==
    LET current == epoch[node[p]] = ep[p] IN
    /\ ppc[p] = "up"
    /\ \/ /\ hb[p] = "runs" /\ SetLease(node[p], ep[p])
          /\ Validity(p, "valid")
          /\ hb' = [hb EXCEPT ![p] = IF current THEN "runs" ELSE "last"]
       \/ /\ hb[p] # "stopped" /\ ~current /\ UNCHANGED store
          /\ Validity(p, "expired")
          /\ hb' = [hb EXCEPT ![p] = "stopped"]
    /\ Smooth /\ UNCHANGED <<ppc, node, ep, live, object, req>>

\* p keeps the lease of its epoch.
Keeps(p) == ppc[p] = "up" /\ epoch[node[p]] = ep[p]

LeaseExpires(n, e) ==
    /\ <<n, e>> \in lease
    /\ Overdue(\A p \in Procs : ~(Keeps(p) /\ node[p] = n /\ ep[p] = e))
    /\ lease' = lease \ {<<n, e>>}
    /\ UNCHANGED <<epoch, registry, members, holder, allocated>>
    /\ UNCHANGED <<live, process, object, req>>

\* validTo passes, a little later than the lease in Redis.
ValidityExpires(p) ==
    /\ mode[p] = "valid" /\ Overdue(<<node[p], ep[p]>> \notin lease)
    /\ Validity(p, "expired")
    /\ UNCHANGED <<store, ppc, node, ep, hb, live, object, req>>

-----------------------------------------------------------------------------
(* AcquireUserSlot and ReleaseUserSlot.                                    *)

\* User slots in Redis, also those that a process left behind when it stopped
Regular == Cardinality({r \in Requests : req[r].at = "slot"})

At(r, s) == req[r].at = s
Go(r, s) == req' = [req EXCEPT ![r].at = s]
\* A request keeps what it will need: its limit until it is admitted, its
\* process unless it has a slot in Redis.
Admitted(r) == req' = [req EXCEPT ![r] = [at |-> "running", proc |-> req[r].proc, limit |-> MaxLimit]]
Done(r) == req' = [req EXCEPT ![r] = Idle]

\* degradeEscrow
Degrade(p) == mode' = [mode EXCEPT ![p] = "degraded"]

\* legacy.AcquireUserSlot
Legacy(r, limit) ==
    req' = [req EXCEPT ![r] = IF Regular + live < limit THEN [Idle EXCEPT !.at = "slot"] ELSE Idle]

\* A request arrives: it fetches the object of its tenant, or falls back.
AcquireUserSlot(r, p, limit) ==
    /\ At(r, "idle") /\ ppc[p] = "up"
    /\ \/ /\ mode[p] = "valid"
          /\ req' = [req EXCEPT ![r] = [at |-> "entered", proc |-> p, limit |-> limit]]
          /\ UNCHANGED mode
       \/ /\ mode[p] # "valid"
          /\ Degrade(p) /\ Legacy(r, limit)
    /\ Smooth
    /\ UNCHANGED <<store, ppc, node, ep, hb, live, grants, inUse>>

\* What is in the object of r
Stock(r) == IF At(r, "stranded") THEN 0 ELSE grants[req[r].proc]
Used(r) == IF At(r, "stranded") THEN 0 ELSE inUse[req[r].proc]
Excess(r) == Stock(r) - (IF req[r].limit < Used(r) THEN Used(r) ELSE req[r].limit)
Usable(r) == Lesser(Stock(r), req[r].limit)

\* The object when r has finished with it
SetObject(r, stock, use) ==
    \/ At(r, "stranded") /\ UNCHANGED object
    \/ /\ ~At(r, "stranded")
       /\ grants' = [grants EXCEPT ![req[r].proc] = stock]
       /\ inUse' = [inUse EXCEPT ![req[r].proc] = use]

\* The mutex of an object is kept from one step to the next by Acquire only.
Unlocked(p) == \A q \in Requests : ~(At(q, "locked") /\ req[q].proc = p)

\* Acquire of r holds the mutex and has no permits in excess of the limit.
Locked(r) ==
    \/ At(r, "entered") /\ Unlocked(req[r].proc) /\ Excess(r) <= 0
    \/ req[r].at \in {"stranded", "locked"}

\* Acquire returns permits above a reduced limit.
AcquireReturnsExcess(r) ==
    LET p == req[r].proc IN
    /\ At(r, "entered") /\ Unlocked(p) /\ Excess(r) > 0
    /\ \E a \in Results :
          /\ Return(p, Excess(r), a)
          /\ \/ /\ a = "ok" /\ Go(r, "locked")
                /\ grants' = [grants EXCEPT ![p] = @ - Excess(r)]
                /\ UNCHANGED mode
             \/ a = "fenced" /\ Degrade(p) /\ Go(r, "fallback") /\ UNCHANGED grants
             \/ a = "error" /\ Done(r) /\ UNCHANGED <<mode, grants>>
    /\ UNCHANGED <<ppc, node, ep, hb, live, inUse>>

\* Mutant: one request more than there are permits.
AcquireAdmits_OneMore(r) ==
    /\ Locked(r) /\ Used(r) <= Usable(r)
    /\ SetObject(r, Stock(r), Used(r) + 1)
    /\ Admitted(r) /\ Smooth
    /\ UNCHANGED <<store, process, live>>

\* The process has a permit to spare.
AcquireAdmits(r) ==
    /\ Locked(r) /\ Used(r) < Usable(r)
    /\ SetObject(r, Stock(r), Used(r) + 1)
    /\ Admitted(r) /\ Smooth
    /\ UNCHANGED <<store, process, live>>

\* What to ask for: with a low limit one permit at a time, and only on the
\* nodes that a hash of the tenant chooses among those alive.
Request(r) == IF req[r].limit <= GrantMax THEN 1 ELSE Lesser(GrantMax, req[r].limit - Stock(r))

\* Nothing to ask for, or not a node of this tenant
AcquireRefuses(r) ==
    /\ Locked(r) /\ Used(r) >= Usable(r)
    /\ req[r].limit <= GrantMax \/ Request(r) <= 0
    /\ Done(r) /\ Smooth
    /\ UNCHANGED <<store, process, live, object>>

\* manager.Grant, and the rest of Acquire
AcquireGrants(r) ==
    LET p == req[r].proc
        Ask(granted) == Grant(node[p], ep[p], Request(r), req[r].limit, live, granted)
    IN
    /\ Locked(r) /\ Used(r) >= Usable(r) /\ Request(r) > 0
    /\ \/ \E granted \in 0..MaxLimit :
             /\ Ask(granted) /\ Smooth
             /\ IF Used(r) < Lesser(Stock(r) + granted, req[r].limit)
                THEN SetObject(r, Stock(r) + granted, Used(r) + 1) /\ Admitted(r)
                ELSE SetObject(r, Stock(r) + granted, Used(r)) /\ Done(r)
             /\ UNCHANGED mode
       \/ /\ GrantFenced(node[p], ep[p]) /\ Smooth
          /\ Degrade(p) /\ Go(r, "fallback") /\ UNCHANGED <<object>>
       \/ /\ \/ UNCHANGED store /\ Fault("error")
             \/ (\E granted \in 0..MaxLimit : Ask(granted)) /\ Fault("late")
          /\ Done(r) /\ UNCHANGED <<object, mode>>
    /\ UNCHANGED <<ppc, node, ep, hb, live>>

\* The fallback after a fenced call
AcquireLegacy(r) ==
    /\ At(r, "fallback") /\ Legacy(r, req[r].limit)
    /\ Smooth /\ UNCHANGED <<store, process, live, object>>

\* The end of a request, also if no account slot was free.  The count goes down
\* in the object that is in the map now.
ReleaseUserSlot(r) ==
    LET p == req[r].proc IN
    /\ \/ /\ At(r, "running") /\ Unlocked(p)
          /\ inUse' = [inUse EXCEPT ![p] = Floor(@ - 1)]
       \/ At(r, "slot") /\ UNCHANGED inUse
    /\ Done(r) /\ Smooth
    /\ UNCHANGED <<store, process, live, grants>>

-----------------------------------------------------------------------------
(* Live leases count in the same limit.                                    *)

\* returnUnusedForLive, the first half of AcquireLiveTenantLease.  Its error ends
\* the call; the second half may come any time after.
ReturnUnusedForLive(p) ==
    LET unused == grants[p] - inUse[p] IN
    /\ ppc[p] = "up" /\ Unlocked(p) /\ unused > 0
    /\ \E a \in Results :
          /\ Return(p, unused, a)
          /\ grants' = [grants EXCEPT ![p] = IF a = "ok" THEN @ - unused ELSE @]
    /\ UNCHANGED <<live, process, inUse, req>>

\* acquireLiveTenantLeaseScript
AcquireLiveTenantLease(limit) ==
    /\ Regular + live + allocated < limit
    /\ live' = live + 1
    /\ Smooth /\ UNCHANGED <<store, process, object, req>>

\* Released, or expired after a minute without refresh
ReleaseLiveTenantLease ==
    /\ live > 0 /\ live' = live - 1
    /\ Smooth /\ UNCHANGED <<store, process, object, req>>

-----------------------------------------------------------------------------
(* Eviction of idle tenants, the end of a process.                         *)

\* The object is deleted from the map: who has fetched it is left with it.
Evict(p) ==
    req' = [r \in Requests |-> IF At(r, "entered") /\ req[r].proc = p
                               THEN [req[r] EXCEPT !.at = "stranded"] ELSE req[r]]

\* releaseIdleStates, for the object of the tenant
ReleaseIdleState(p) ==
    /\ ppc[p] = "up" /\ Unlocked(p) /\ inUse[p] = 0
    /\ \/ grants[p] = 0 /\ Smooth /\ Evict(p) /\ UNCHANGED <<store, grants>>
       \/ /\ grants[p] > 0
          /\ \E a \in Results :
                /\ Return(p, grants[p], a)
                /\ \/ a = "ok" /\ grants' = [grants EXCEPT ![p] = 0] /\ Evict(p)
                   \/ a # "ok" /\ UNCHANGED <<grants, req>>
    /\ UNCHANGED <<live, process, inUse>>

Busy(p) == \E r \in Requests : req[r].proc = p

\* Close: the heartbeat stops and unused permits are returned, whatever the
\* answer.  The server has shut down before.  Requests that outlast its timeout
\* end with the process: such an end is ReturnUnusedForLive and then Crash.
Close(p) ==
    /\ ppc[p] = "up" /\ ~Busy(p) /\ ppc' = [ppc EXCEPT ![p] = "closing"]
    /\ hb' = [hb EXCEPT ![p] = "stopped"]
    /\ LET surplus == grants[p] - inUse[p] IN
       \/ surplus <= 0 /\ Smooth /\ UNCHANGED <<store, grants>>
       \/ /\ surplus > 0 /\ \E a \in Results : Return(p, surplus, a)
          /\ grants' = [grants EXCEPT ![p] = @ - surplus]
    /\ UNCHANGED <<node, ep, mode, live, inUse, req>>

\* The process is gone and its memory with it; its user slots stay in Redis.
Exit(p) ==
    /\ ppc' = [ppc EXCEPT ![p] = "gone"]
    /\ node' = [node EXCEPT ![p] = None]
    /\ ep' = [ep EXCEPT ![p] = 0]
    /\ hb' = [hb EXCEPT ![p] = "stopped"]
    /\ mode' = [mode EXCEPT ![p] = "expired"]
    /\ grants' = [grants EXCEPT ![p] = 0]
    /\ inUse' = [inUse EXCEPT ![p] = 0]
    /\ req' = [r \in Requests |-> IF req[r].proc = p THEN Idle ELSE req[r]]
    /\ UNCHANGED live

\* UnregisterNode does nothing while the node holds permits.  SCARD and MULTI
\* are one step: only p itself could add to the set in between.
UnregisterNode(p) ==
    /\ ppc[p] = "closing"
    /\ IF <<node[p], ep[p]>> \in members THEN UNCHANGED store ELSE Unregister(node[p], ep[p])
    /\ Exit(p) /\ Smooth

Crash(p) ==
    /\ ppc[p] \notin {"new", "gone"} /\ Fault("crash")
    /\ Exit(p) /\ UNCHANGED store

-----------------------------------------------------------------------------
(* ReclaimExpiredNodes, which one process at a time runs.                  *)

\* The lease of a registered node has been gone for the grace period: its
\* permits are reclaimed and, if none are left, the node is dropped.  The calls
\* are one step: only a heartbeat of the node itself, which lost its lease in
\* a lapse, could come in between.
ReclaimExpiredNode(n, e) ==
    /\ <<n, e>> \in registry \ lease /\ \E p \in Procs : ppc[p] = "up"
    /\ \/ Reclaim(n, e, TRUE) /\ Smooth
       \/ Reclaim(n, e, FALSE) /\ Fault("error")
    /\ UNCHANGED <<live, process, object, req>>

-----------------------------------------------------------------------------
ProcNext(p) ==
    \/ \E n \in Nodes : RegisterStart(p, n)
    \/ RegisterNode(p) \/ Heartbeat(p)
    \/ ValidityExpires(p) \/ ReturnUnusedForLive(p) \/ ReleaseIdleState(p)
    \/ Close(p) \/ UnregisterNode(p) \/ Crash(p)

RequestNext(r) ==
    \/ \E p \in Procs, limit \in Limits : AcquireUserSlot(r, p, limit)
    \/ AcquireReturnsExcess(r) \/ AcquireAdmits(r) \/ AcquireRefuses(r) \/ AcquireGrants(r)
    \/ AcquireLegacy(r) \/ ReleaseUserSlot(r)

Next ==
    \/ \E p \in Procs : ProcNext(p)
    \/ \E r \in Requests : RequestNext(r)
    \/ \E x \in lease : LeaseExpires(x[1], x[2])
    \/ \E limit \in Limits : AcquireLiveTenantLease(limit)
    \/ ReleaseLiveTenantLease
    \/ \E x \in registry : ReclaimExpiredNode(x[1], x[2])

Spec == Init /\ [][Next]_vars

-----------------------------------------------------------------------------
(* What the permits promise.                                               *)

\* Two ledgers each stay within the largest limit, whatever fails: the permits that
\* are lent with the live leases, and the user slots that fenced processes take in
\* Redis with the live leases.  They bound what is given out, not what runs: a
\* request that still runs on a predecessor whose permit was adopted, or on a process
\* whose lease lapsed, is in neither ledger.
Bounded == allocated + live <= MaxLimit /\ Regular + live <= MaxLimit

\* What a process takes for its stock is on its account in the store: late
\* calls of a predecessor, crashes of others, stranded requests and lost grants
\* do not take a permit away that it counts on.
LocalBacked ==
    \A p \in Procs :
        Keeps(p) /\ ~slipped =>
            grants[p] <= IF holder[node[p]].ep = ep[p] THEN holder[node[p]].count ELSE 0

\* Requests in flight on processes of the current epoch, and live leases, do
\* not exceed the limit as long as no lease lapsed under its process.
Running == {r \in Requests : At(r, "running") /\ Keeps(req[r].proc)}
NoOversell == ~slipped => Cardinality(Running) + live <= MaxLimit

\* As long as no lease lapsed under its process and no reply to a Release was lost,
\* permits of a node can be found by the sweep of dead nodes.
Registered ==
    ~slipped => \A n \in Nodes :
        holder[n].count > 0 => <<n, holder[n].ep>> \in members \intersect registry

\* A live lease guards the permits under it: other nodes' grants, the sweep, a
\* successor that starts and late calls of a predecessor leave them alone.  They
\* change only in a call of the epoch that holds them, while it is the node's
\* current one, and what is left of them stays with it.
LeaseGuards ==
    [][\A n \in Nodes :
          holder[n].count > 0 /\ <<n, holder[n].ep>> \in lease =>
              \/ holder'[n] = holder[n]
              \/ epoch[n] = holder[n].ep /\ (holder'[n].count > 0 => holder'[n].ep = holder[n].ep)]_vars
=============================================================================
