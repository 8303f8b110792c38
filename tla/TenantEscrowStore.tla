------------------------- MODULE TenantEscrowStore -------------------------
(***************************************************************************)
(* tenant_escrow.go: what Redis keeps about the permits of one tenant.     *)
(* Nodes borrow permits from the tenant's limit; each start of a node has  *)
(* its own epoch, and a lease key says that it is alive.  Every operator   *)
(* is one script, one command or one MULTI.                                *)
(*                                                                         *)
(* The scripts of different tenants share nothing but epochs, leases and   *)
(* the registry, so one tenant is modelled.  There is no clock, and so no  *)
(* dead-since key either, which makes the sweep of dead nodes wait.        *)
(***************************************************************************)
EXTENDS Integers, FiniteSets

CONSTANTS Nodes

ASSUME NodesAssumption == IsFiniteSet(Nodes)

VARIABLES
    epoch,          \* per node: node-epoch
    lease,          \* pairs <<node, epoch>> with a lease key
    registry,       \* pairs in the hash of registered nodes
    members,        \* pairs whose node-tenants set holds the tenant
    holder,         \* per node: epoch and count of its field, count 0 if there is none
    allocated       \* permits lent to all nodes

store == <<epoch, lease, registry, members, holder, allocated>>

Pairs == Nodes \X Nat

StoreTypeOK ==
    /\ epoch \in [Nodes -> Nat]
    /\ lease \subseteq Pairs
    /\ registry \subseteq Pairs
    /\ members \subseteq Pairs
    /\ holder \in [Nodes -> [ep : Nat, count : Nat]]
    /\ allocated \in Nat

NoHolder == [ep |-> 0, count |-> 0]

\* The permits that the nodes of M hold, one pair for each.
Permits(M) == UNION {{n} \X (1..holder[n].count) : n \in M}
Held(M) == Cardinality(Permits(M))

Floor(x) == IF x <= 0 THEN 0 ELSE x
Lesser(x, y) == IF x <= y THEN x ELSE y

\* The two commands of RegisterNode: the new epoch, then its lease in place of
\* the one before.
RegisterEpoch(n) ==
    /\ epoch' = [epoch EXCEPT ![n] = @ + 1]
    /\ UNCHANGED <<lease, registry, members, holder, allocated>>
RegisterLease(n, e) ==
    /\ lease' = (lease \ {<<n, e - 1>>}) \union {<<n, e>>}
    /\ registry' = registry \union {<<n, e>>}
    /\ UNCHANGED <<epoch, members, holder, allocated>>

\* The second command of Heartbeat
SetLease(n, e) ==
    /\ lease' = lease \union {<<n, e>>}
    /\ UNCHANGED <<epoch, registry, members, holder, allocated>>

-----------------------------------------------------------------------------
(* grantEscrowScript: n, in epoch e, asks for some permits below a limit   *)
(* that live calls lower.                                                  *)

\* Other nodes whose lease is gone: the script takes their permits back.
Dead(n) == {m \in Nodes \ {n} : holder[m].count > 0 /\ <<m, holder[m].ep>> \notin lease}
Entries(M) == {<<m, holder[m].ep>> : m \in M}
Cleared(M) == [m \in Nodes |-> IF m \in M THEN NoHolder ELSE holder[m]]
Rest(n) == Floor(allocated - Held(Dead(n)))

Fenced(n, e) == epoch[n] # e \/ <<n, e>> \notin lease
\* The permits of n still belong to an earlier epoch.
Inherits(n, e) == holder[n].count > 0 /\ holder[n].ep # e

\* Refused, before or after dead nodes were cleared
GrantFenced(n, e) ==
    \/ Fenced(n, e) /\ UNCHANGED store
    \/ /\ ~Fenced(n, e) /\ Inherits(n, e) /\ <<n, holder[n].ep>> \in lease
       /\ holder' = Cleared(Dead(n))
       /\ allocated' = Rest(n)
       /\ members' = members \ Entries(Dead(n))
       /\ UNCHANGED <<epoch, lease, registry>>

\* The new epoch adopts what the old one held.
GrantAdopts(n, e, limit, granted) ==
    /\ ~Fenced(n, e) /\ Inherits(n, e) /\ <<n, holder[n].ep>> \notin lease
    /\ granted = Lesser(holder[n].count, limit)
    /\ holder' = [Cleared(Dead(n)) EXCEPT ![n] = [ep |-> e, count |-> granted]]
    /\ allocated' = Floor(Rest(n) - (holder[n].count - granted))
    /\ members' = (members \ Entries(Dead(n) \union {n})) \union {<<n, e>>}
    /\ UNCHANGED <<epoch, lease, registry>>

\* Mutant: permits of nodes that are gone are forgotten but stay allocated.
GrantLends_KeepsDead(n, e, request, limit, live, granted) ==
    LET available == limit - allocated - live IN
    /\ ~Fenced(n, e) /\ ~Inherits(n, e)
    /\ granted = Lesser(request, Floor(available))
    /\ holder' = [Cleared(Dead(n)) EXCEPT ![n] =
                      IF granted = 0 THEN @ ELSE [ep |-> e, count |-> @.count + granted]]
    /\ allocated' = allocated + granted
    /\ members' = (members \ Entries(Dead(n))) \union (IF granted = 0 THEN {} ELSE {<<n, e>>})
    /\ UNCHANGED <<epoch, lease, registry>>

\* Mutant: live calls are not counted.
GrantLends_NotLive(n, e, request, limit, live, granted) ==
    LET available == limit - Rest(n) IN
    /\ ~Fenced(n, e) /\ ~Inherits(n, e)
    /\ granted = Lesser(request, Floor(available))
    /\ holder' = [Cleared(Dead(n)) EXCEPT ![n] =
                      IF granted = 0 THEN @ ELSE [ep |-> e, count |-> @.count + granted]]
    /\ allocated' = Rest(n) + granted
    /\ members' = (members \ Entries(Dead(n))) \union (IF granted = 0 THEN {} ELSE {<<n, e>>})
    /\ UNCHANGED <<epoch, lease, registry>>

\* As many permits as are available are lent, perhaps none.
GrantLends(n, e, request, limit, live, granted) ==
    LET available == limit - Rest(n) - live IN
    /\ ~Fenced(n, e) /\ ~Inherits(n, e)
    /\ granted = Lesser(request, Floor(available))
    /\ holder' = [Cleared(Dead(n)) EXCEPT ![n] =
                      IF granted = 0 THEN @ ELSE [ep |-> e, count |-> @.count + granted]]
    /\ allocated' = Rest(n) + granted
    /\ members' = (members \ Entries(Dead(n))) \union (IF granted = 0 THEN {} ELSE {<<n, e>>})
    /\ UNCHANGED <<epoch, lease, registry>>

Grant(n, e, request, limit, live, granted) ==
    GrantAdopts(n, e, limit, granted) \/ GrantLends(n, e, request, limit, live, granted)

-----------------------------------------------------------------------------
(* The other scripts.                                                      *)

\* Mutant: any epoch of the node may return permits.
Release_Unfenced(n, e, permits, ok) ==
    LET released == Lesser(permits, holder[n].count) IN
    /\ ok
    /\ holder' = [holder EXCEPT ![n] = IF released = @.count THEN NoHolder
                                       ELSE [@ EXCEPT !.count = @ - released]]
    /\ allocated' = Floor(allocated - released)
    /\ members' = IF released = holder[n].count THEN members \ {<<n, e>>} ELSE members
    /\ UNCHANGED <<epoch, lease, registry>>

\* Mutant: more permits may be returned than the node holds.
Release_Uncapped(n, e, permits, ok) ==
    LET owned == epoch[n] = e /\ holder[n].count > 0 /\ holder[n].ep = e IN
    \/ /\ ok /\ owned
       /\ holder' = [holder EXCEPT ![n] = IF permits = @.count THEN NoHolder
                                          ELSE [@ EXCEPT !.count = @ - permits]]
       /\ allocated' = Floor(allocated - permits)
       /\ members' = IF permits = holder[n].count THEN members \ {<<n, e>>} ELSE members
       /\ UNCHANGED <<epoch, lease, registry>>
    \/ ok /\ epoch[n] = e /\ holder[n].count = 0 /\ UNCHANGED store
    \/ ~ok /\ (epoch[n] # e \/ Inherits(n, e)) /\ UNCHANGED store

\* Release and releaseEscrowScript; not ok: the caller is fenced.
Release(n, e, permits, ok) ==
    LET owned == epoch[n] = e /\ holder[n].count > 0 /\ holder[n].ep = e
        released == Lesser(permits, holder[n].count)
    IN
    \/ /\ ok /\ owned
       /\ holder' = [holder EXCEPT ![n] = IF released = @.count THEN NoHolder
                                          ELSE [ep |-> e, count |-> @.count - released]]
       /\ allocated' = Floor(allocated - released)
       /\ members' = IF released = holder[n].count THEN members \ {<<n, e>>} ELSE members
       /\ UNCHANGED <<epoch, lease, registry>>
    \/ ok /\ epoch[n] = e /\ holder[n].count = 0 /\ UNCHANGED store
    \/ ~ok /\ (epoch[n] # e \/ Inherits(n, e)) /\ UNCHANGED store

\* Mutant: the node is dropped and its permits are not reclaimed.
Reclaim_Skips(n, e, dropped) ==
    /\ <<n, e>> \notin lease
    /\ members' = members \ {<<n, e>>}
    /\ registry' = IF dropped THEN registry \ {<<n, e>>} ELSE registry
    /\ UNCHANGED <<epoch, lease, holder, allocated>>

\* reclaimEscrowScript for a node that is gone, with or without the MULTI that
\* deletes its keys afterwards
Reclaim(n, e, dropped) ==
    LET owned == <<n, e>> \in members /\ holder[n].count > 0 /\ holder[n].ep = e IN
    /\ <<n, e>> \notin lease
    /\ holder' = [holder EXCEPT ![n] = IF owned THEN NoHolder ELSE @]
    /\ allocated' = IF owned THEN Floor(allocated - holder[n].count) ELSE allocated
    /\ members' = members \ {<<n, e>>}
    /\ registry' = IF dropped THEN registry \ {<<n, e>>} ELSE registry
    /\ UNCHANGED <<epoch, lease>>

\* The MULTI of UnregisterNode
Unregister(n, e) ==
    /\ lease' = lease \ {<<n, e>>}
    /\ members' = members \ {<<n, e>>}
    /\ registry' = registry \ {<<n, e>>}
    /\ UNCHANGED <<epoch, holder, allocated>>

\* Every permit that counts against the limit is held by a node.
Balanced == allocated = Held(Nodes)
=============================================================================
