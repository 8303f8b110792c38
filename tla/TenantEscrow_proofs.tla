------------------------ MODULE TenantEscrow_proofs ------------------------
(***************************************************************************)
(* Proofs about TenantEscrow, for any sets of nodes, processes and         *)
(* requests, any limits and any number of failures.                        *)
(***************************************************************************)
EXTENDS TenantEscrow, FiniteSetTheorems, FunctionTheorems, TLAPS

-----------------------------------------------------------------------------
(* The permits of a function h that maps nodes to their fields.            *)

Fields == [Nodes -> [ep : Nat, count : Nat]]
PermitsOf(h, M) == UNION {{n} \X (1..h[n].count) : n \in M}
HeldOf(h, M) == Cardinality(PermitsOf(h, M))

\* Finitely many nodes hold finitely many permits.
LEMMA PermitsFinite ==
    ASSUME NEW h \in Fields, NEW M \in SUBSET Nodes
    PROVE  IsFiniteSet(PermitsOf(h, M)) /\ HeldOf(h, M) \in Nat
<1> DEFINE f == [n \in M |-> {n} \X (1..h[n].count)]
           T == {{n} \X (1..h[n].count) : n \in M}
<1>1. IsFiniteSet(M)
  BY FS_Subset, NodesAssumption
<1>2. f \in Surjection(M, T)
  <2>1. f \in [M -> T]
    OBVIOUS
  <2>2. \A t \in T : \E n \in M : f[n] = t
    OBVIOUS
  <2>3. QED
    BY <2>1, <2>2 DEF Surjection
<1>3. IsFiniteSet(T)
  BY <1>1, <1>2, FS_Surjection
<1>4. \A t \in T : IsFiniteSet(t)
  <2>1. SUFFICES ASSUME NEW n \in M
                 PROVE  IsFiniteSet({n} \X (1..h[n].count))
    OBVIOUS
  <2>2. IsFiniteSet({n}) /\ IsFiniteSet(1..h[n].count)
    <3>1. h[n].count \in Int /\ 1 \in Int
      BY DEF Fields
    <3>2. IsFiniteSet(1..h[n].count)
      BY ONLY <3>1, FS_Interval
    <3>3. QED
      BY <3>2, FS_Singleton
  <2>3. QED
    BY <2>2, FS_Product
<1>5. IsFiniteSet(UNION T)
  BY <1>3, <1>4, FS_UNION
<1>6. QED
  BY <1>5, FS_CardinalityType DEF PermitsOf, HeldOf

\* The permits of one node are as many as its count.
LEMMA PermitsOfOne ==
    ASSUME NEW h \in Fields, NEW n \in Nodes
    PROVE  HeldOf(h, {n}) = h[n].count
<1>1. h[n].count \in Nat
  BY DEF Fields
<1>2. IsFiniteSet({n}) /\ Cardinality({n}) = 1
  BY FS_Singleton
<1>3. IsFiniteSet(1..h[n].count) /\ Cardinality(1..h[n].count) = h[n].count
  <2>1. 1 \in Int /\ h[n].count \in Int
    BY <1>1
  <2>2. /\ IsFiniteSet(1..h[n].count)
        /\ Cardinality(1..h[n].count) = IF 1 > h[n].count THEN 0 ELSE h[n].count - 1 + 1
    BY ONLY <2>1, FS_Interval
  <2>3. QED
    BY <1>1, <2>2
<1>4. Cardinality({n} \X (1..h[n].count)) = 1 * h[n].count
  <2>1. Cardinality({n} \X (1..h[n].count)) = Cardinality({n}) * Cardinality(1..h[n].count)
    BY ONLY <1>2, <1>3, FS_Product
  <2>2. QED
    BY ONLY <1>2, <1>3, <2>1
<1>5. PermitsOf(h, {n}) = {n} \X (1..h[n].count)
  BY DEF PermitsOf
<1>6. 1 * h[n].count = h[n].count
  BY <1>1
<1>7. QED
  BY <1>4, <1>5, <1>6 DEF HeldOf

\* Disjoint sets of nodes hold different permits.
LEMMA PermitsSplit ==
    ASSUME NEW h \in Fields, NEW M \in SUBSET Nodes, NEW D \in SUBSET M
    PROVE  HeldOf(h, M) = HeldOf(h, M \ D) + HeldOf(h, D)
<1>1. PermitsOf(h, M) = PermitsOf(h, M \ D) \union PermitsOf(h, D)
  BY DEF PermitsOf
<1>2. PermitsOf(h, M \ D) \intersect PermitsOf(h, D) = {}
  <2>1. SUFFICES ASSUME NEW x \in PermitsOf(h, M \ D), x \in PermitsOf(h, D)
                 PROVE  FALSE
    OBVIOUS
  <2>2. PICK n \in M \ D : x \in {n} \X (1..h[n].count)
    BY DEF PermitsOf
  <2>3. PICK m \in D : x \in {m} \X (1..h[m].count)
    BY <2>1 DEF PermitsOf
  <2>4. QED
    BY <2>2, <2>3
<1>3. /\ IsFiniteSet(PermitsOf(h, M \ D)) /\ Cardinality(PermitsOf(h, M \ D)) \in Nat
      /\ IsFiniteSet(PermitsOf(h, D)) /\ Cardinality(PermitsOf(h, D)) \in Nat
  BY PermitsFinite DEF HeldOf
<1> DEFINE A == PermitsOf(h, M \ D)
           C == PermitsOf(h, D)
<1>4. Cardinality(A \union C) = Cardinality(A) + Cardinality(C) - Cardinality(A \intersect C)
  <2> HIDE DEF A, C
  <2>1. IsFiniteSet(A) /\ IsFiniteSet(C)
    BY <1>3 DEF A, C
  <2>2. QED
    BY ONLY <2>1, FS_Union
<1>5. Cardinality(A \intersect C) = 0
  BY <1>2, FS_EmptySet
<1>6. QED
  BY <1>1, <1>3, <1>4, <1>5 DEF HeldOf

\* Only the fields of the nodes in M count.
LEMMA PermitsSame ==
    ASSUME NEW h, NEW g, NEW M, \A n \in M : h[n].count = g[n].count
    PROVE  HeldOf(h, M) = HeldOf(g, M)
<1>1. PermitsOf(h, M) = PermitsOf(g, M)
  BY DEF PermitsOf
<1>2. QED
  BY <1>1 DEF HeldOf

\* Nodes without permits hold none.
LEMMA PermitsNone ==
    ASSUME NEW h \in Fields, NEW M \in SUBSET Nodes, \A n \in M : h[n].count = 0
    PROVE  HeldOf(h, M) = 0
<1>1. PermitsOf(h, M) = {}
  <2>1. \A n \in M : 1..h[n].count = {}
    BY DEF Fields
  <2>2. \A n \in M : {n} \X (1..h[n].count) = {}
    BY <2>1
  <2>3. QED
    BY <2>2 DEF PermitsOf
<1>2. QED
  BY <1>1, FS_EmptySet DEF HeldOf

\* The permits after a change of one field.
LEMMA PermitsChange ==
    ASSUME NEW h \in Fields, NEW g \in Fields, NEW n \in Nodes,
           \A m \in Nodes \ {n} : g[m] = h[m]
    PROVE  HeldOf(g, Nodes) = HeldOf(h, Nodes) - h[n].count + g[n].count
<1> {n} \in SUBSET Nodes /\ Nodes \in SUBSET Nodes
  OBVIOUS
<1>1. HeldOf(g, Nodes) = HeldOf(g, Nodes \ {n}) + g[n].count
  <2>1. HeldOf(g, {n}) = g[n].count
    BY PermitsOfOne
  <2>2. HeldOf(g, Nodes) = HeldOf(g, Nodes \ {n}) + HeldOf(g, {n})
    BY PermitsSplit
  <2>3. QED
    BY <2>1, <2>2
<1>2. HeldOf(h, Nodes) = HeldOf(h, Nodes \ {n}) + h[n].count
  <2>1. HeldOf(h, {n}) = h[n].count
    BY PermitsOfOne
  <2>2. HeldOf(h, Nodes) = HeldOf(h, Nodes \ {n}) + HeldOf(h, {n})
    BY PermitsSplit
  <2>3. QED
    BY <2>1, <2>2
<1>3. HeldOf(g, Nodes \ {n}) = HeldOf(h, Nodes \ {n})
  BY PermitsSame
<1>4. HeldOf(h, Nodes \ {n}) \in Nat /\ h[n].count \in Nat /\ g[n].count \in Nat
  BY PermitsFinite DEF Fields
<1>5. QED
  BY <1>1, <1>2, <1>3, <1>4

\* The permits after the fields of D were cleared.
LEMMA PermitsCleared ==
    ASSUME NEW h \in Fields, NEW D \in SUBSET Nodes
    PROVE  LET g == [m \in Nodes |-> IF m \in D THEN NoHolder ELSE h[m]] IN
           /\ g \in Fields
           /\ HeldOf(g, Nodes) = HeldOf(h, Nodes) - HeldOf(h, D)
           /\ HeldOf(g, Nodes) \in Nat
<1> DEFINE g == [m \in Nodes |-> IF m \in D THEN NoHolder ELSE h[m]]
<1>1. g \in Fields
  BY DEF Fields, NoHolder
<1>2. HeldOf(g, Nodes) = HeldOf(g, Nodes \ D) + HeldOf(g, D)
  BY <1>1, PermitsSplit
<1>3. HeldOf(g, D) = 0
  <2>1. \A n \in D : g[n].count = 0
    BY DEF NoHolder
  <2> HIDE DEF g
  <2>2. QED
    BY <1>1, <2>1, PermitsNone
<1>4. HeldOf(g, Nodes \ D) = HeldOf(h, Nodes \ D)
  <2>1. \A n \in Nodes \ D : g[n].count = h[n].count
    OBVIOUS
  <2> HIDE DEF g
  <2>2. QED
    BY <2>1, PermitsSame
<1>5. HeldOf(h, Nodes) = HeldOf(h, Nodes \ D) + HeldOf(h, D)
  BY PermitsSplit
<1>6. HeldOf(h, Nodes \ D) \in Nat /\ HeldOf(h, D) \in Nat
  BY PermitsFinite
<1> HIDE DEF g
<1>7. /\ g \in Fields
      /\ HeldOf(g, Nodes) = HeldOf(h, Nodes) - HeldOf(h, D)
      /\ HeldOf(g, Nodes) \in Nat
  BY <1>1, <1>2, <1>3, <1>4, <1>5, <1>6
<1>8. QED
  BY <1>7 DEF g

-----------------------------------------------------------------------------
(* What the scripts of the store do.                                       *)

\* The permits of node n in epoch e
Account(n, e) == IF holder[n].ep = e THEN holder[n].count ELSE 0

\* A field that still has permits is on its node's list if it was, or is now
\* that of n in epoch e.
KeepsMembers(n, e) ==
    \A m \in Nodes : holder'[m].count > 0 =>
        \/ m = n /\ holder'[m].ep = e /\ <<n, e>> \in members'
        \/ /\ holder'[m] = holder[m]
           /\ <<m, holder[m].ep>> \in members => <<m, holder[m].ep>> \in members'

\* Another node's field is left alone, or cleared because its lease is gone.
ClearsDead(n) ==
    \A m \in Nodes \ {n} :
        \/ holder'[m] = holder[m]
        \/ <<m, holder[m].ep>> \notin lease /\ holder'[m] = NoHolder

\* Nothing changes for a node that is alive in its current epoch, unless it
\* is n in epoch e.
OthersSame(n, e) ==
    \A m \in Nodes, x \in Nat :
        <<m, x>> \in lease /\ epoch[m] = x /\ <<m, x>> # <<n, e>> =>
            Account(m, x)' = Account(m, x)

\* Permits are on the list of their node, and the node is registered.
Found == \A m \in Nodes : holder[m].count > 0 => <<m, holder[m].ep>> \in members \intersect registry

\* The fields after dead nodes were cleared, and the counter.
LEMMA DeadCleared ==
    ASSUME StoreTypeOK, Balanced, NEW n \in Nodes
    PROVE  /\ Cleared(Dead(n)) \in Fields
           /\ Rest(n) = HeldOf(Cleared(Dead(n)), Nodes)
           /\ Rest(n) \in Nat /\ Rest(n) <= allocated
           /\ Cleared(Dead(n))[n] = holder[n]
           /\ \A m \in Nodes \ {n} :
                 \/ Cleared(Dead(n))[m] = holder[m] /\ m \notin Dead(n)
                 \/ <<m, holder[m].ep>> \notin lease /\ Cleared(Dead(n))[m] = NoHolder
<1>1. holder \in Fields /\ Dead(n) \in SUBSET Nodes /\ Nodes \in SUBSET Nodes
  BY DEF StoreTypeOK, Fields, Dead
<1>2. allocated = HeldOf(holder, Nodes) /\ Held(Dead(n)) = HeldOf(holder, Dead(n))
  BY DEF Balanced, Held, Permits, HeldOf, PermitsOf
<1> DEFINE D == Dead(n)
           g == [m \in Nodes |-> IF m \in D THEN NoHolder ELSE holder[m]]
<1>3. /\ g \in Fields
      /\ HeldOf(g, Nodes) = HeldOf(holder, Nodes) - HeldOf(holder, D)
      /\ HeldOf(g, Nodes) \in Nat
  <2> HIDE DEF D
  <2>1. D \in SUBSET Nodes
    BY <1>1 DEF D
  <2>2. QED
    BY <1>1, <2>1, PermitsCleared
<1>4. g = Cleared(Dead(n))
  BY DEF Cleared
<1>5. HeldOf(holder, Nodes) \in Nat /\ HeldOf(holder, D) \in Nat
  BY <1>1, PermitsFinite
<1>6. Rest(n) = HeldOf(g, Nodes) /\ Rest(n) \in Nat /\ Rest(n) <= allocated
  <2> HIDE DEF g
  <2>1. QED
    BY <1>2, <1>3, <1>5 DEF Rest, Floor
<1>7. /\ g[n] = holder[n]
      /\ \A m \in Nodes \ {n} :
            \/ g[m] = holder[m] /\ m \notin Dead(n)
            \/ <<m, holder[m].ep>> \notin lease /\ g[m] = NoHolder
  BY DEF Dead
<1>8. QED
  BY <1>3, <1>4, <1>6, <1>7

\* What a script that lends permits does.
LEMMA GrantStep ==
    ASSUME StoreTypeOK, Balanced, NEW n \in Nodes, NEW e \in Nat, NEW request \in Nat,
           NEW limit \in Nat, NEW l \in Nat, NEW granted,
           Grant(n, e, request, limit, l, granted)
    PROVE  /\ StoreTypeOK' /\ Balanced' /\ granted \in Nat
           /\ allocated' <= allocated \/ allocated' + l <= limit
           /\ UNCHANGED <<epoch, lease, registry>>
           /\ ~Fenced(n, e)
           /\ Account(n, e)' = Account(n, e) + granted
           /\ ClearsDead(n) /\ KeepsMembers(n, e)
<1> DEFINE c == Cleared(Dead(n))
<1>1. /\ c \in Fields
      /\ Rest(n) = HeldOf(c, Nodes)
      /\ Rest(n) \in Nat /\ Rest(n) <= allocated
      /\ c[n] = holder[n]
      /\ \A m \in Nodes \ {n} :
            \/ c[m] = holder[m] /\ m \notin Dead(n)
            \/ <<m, holder[m].ep>> \notin lease /\ c[m] = NoHolder
  BY DeadCleared
<1>2. /\ holder[n].count \in Nat /\ holder[n].ep \in Nat /\ allocated \in Nat
      /\ n \notin Dead(n) /\ Dead(n) \subseteq Nodes
      /\ \A m \in Nodes : holder[m].ep \in Nat /\ <<m, holder[m].ep>> \in Pairs
      /\ <<n, e>> \in Pairs
  BY DEF StoreTypeOK, Dead, Pairs
<1> HIDE DEF c
<1>3. CASE GrantAdopts(n, e, limit, granted)
  <2>1. /\ ~Fenced(n, e) /\ holder[n].count > 0 /\ holder[n].ep # e
        /\ granted = Lesser(holder[n].count, limit)
        /\ holder' = [c EXCEPT ![n] = [ep |-> e, count |-> granted]]
        /\ allocated' = Floor(Rest(n) - (holder[n].count - granted))
        /\ members' = (members \ Entries(Dead(n) \union {n})) \union {<<n, e>>}
        /\ UNCHANGED <<epoch, lease, registry>>
    BY <1>3 DEF GrantAdopts, Inherits, c
  <2>2. granted \in Nat /\ granted <= holder[n].count
    BY <1>2, <2>1 DEF Lesser
  <2>3. holder' \in Fields /\ holder'[n] = [ep |-> e, count |-> granted]
        /\ \A m \in Nodes \ {n} : holder'[m] = c[m]
    BY <1>1, <2>1, <2>2 DEF Fields
  <2>4. HeldOf(holder', Nodes) = HeldOf(c, Nodes) - c[n].count + granted
    <3>1. HeldOf(holder', Nodes) = HeldOf(c, Nodes) - c[n].count + holder'[n].count
      BY <1>1, <2>3, PermitsChange
    <3>2. QED
      BY <2>3, <3>1
  <2>5. HeldOf(holder', Nodes) \in Nat
    BY <2>3, PermitsFinite
  <2>6. allocated' = HeldOf(holder', Nodes) /\ allocated' <= allocated
    BY <1>1, <1>2, <2>1, <2>2, <2>4, <2>5 DEF Floor
  <2>7. Balanced'
    BY <2>6 DEF Balanced, Held, Permits, HeldOf, PermitsOf
  <2>8. StoreTypeOK'
    BY <1>2, <2>1, <2>3, <2>5, <2>6 DEF StoreTypeOK, Fields
  <2>9. Account(n, e)' = Account(n, e) + granted
    BY <2>1, <2>2, <2>3 DEF Account
  <2>10. ClearsDead(n)
    BY <1>1, <2>3 DEF ClearsDead
  <2>11. KeepsMembers(n, e)
    <3>1. SUFFICES ASSUME NEW m \in Nodes \ {n}, holder'[m].count > 0
                   PROVE  /\ holder'[m] = holder[m]
                          /\ <<m, holder[m].ep>> \in members => <<m, holder[m].ep>> \in members'
      <4>1. holder'[n].ep = e /\ <<n, e>> \in members'
        BY <2>1, <2>3
      <4>2. QED
        BY <4>1 DEF KeepsMembers
    <3>2. holder'[m] = holder[m] /\ m \notin Dead(n) \union {n}
      <4>1. holder'[m] = c[m] /\ c[m] # NoHolder
        BY <2>3, <3>1 DEF NoHolder
      <4>2. QED
        BY <1>1, <4>1
    <3>3. <<m, holder[m].ep>> \notin Entries(Dead(n) \union {n})
      BY <3>2 DEF Entries
    <3>4. QED
      BY <2>1, <3>1, <3>2, <3>3
  <2>12. QED
    BY <2>1, <2>2, <2>6, <2>7, <2>8, <2>9, <2>10, <2>11
<1>4. CASE GrantLends(n, e, request, limit, l, granted)
  <2>1. /\ ~Fenced(n, e) /\ (holder[n].count = 0 \/ holder[n].ep = e)
        /\ granted = Lesser(request, Floor(limit - Rest(n) - l))
        /\ holder' = [c EXCEPT ![n] = IF granted = 0 THEN @ ELSE [ep |-> e, count |-> @.count + granted]]
        /\ allocated' = Rest(n) + granted
        /\ members' = (members \ Entries(Dead(n))) \union (IF granted = 0 THEN {} ELSE {<<n, e>>})
        /\ UNCHANGED <<epoch, lease, registry>>
    BY <1>2, <1>4 DEF GrantLends, Inherits, c
  <2>2. granted \in Nat /\ (granted > 0 => granted <= limit - Rest(n) - l)
    BY <1>1, <2>1 DEF Lesser, Floor
  <2>3. /\ holder' \in Fields
        /\ holder'[n] = IF granted = 0 THEN holder[n] ELSE [ep |-> e, count |-> holder[n].count + granted]
        /\ \A m \in Nodes \ {n} : holder'[m] = c[m]
    <3> DEFINE v == IF granted = 0 THEN c[n] ELSE [ep |-> e, count |-> c[n].count + granted]
    <3>1. v \in [ep : Nat, count : Nat]
      BY <1>1, <1>2, <2>2 DEF Fields
    <3>2. holder' = [c EXCEPT ![n] = v]
      BY <2>1
    <3> HIDE DEF v
    <3>3. holder' \in Fields /\ holder'[n] = v /\ \A m \in Nodes \ {n} : holder'[m] = c[m]
      BY <1>1, <3>1, <3>2 DEF Fields
    <3>4. QED
      BY <1>1, <3>3 DEF v
  <2>4. HeldOf(holder', Nodes) = HeldOf(c, Nodes) - c[n].count + holder'[n].count
    BY <1>1, <2>3, PermitsChange
  <2>5. holder'[n].count = holder[n].count + granted
    BY <1>2, <2>2, <2>3
  <2>6. allocated' = HeldOf(holder', Nodes) /\ allocated' \in Nat
    BY <1>1, <1>2, <2>1, <2>2, <2>4, <2>5
  <2>7. Balanced'
    BY <2>6 DEF Balanced, Held, Permits, HeldOf, PermitsOf
  <2>8. StoreTypeOK'
    BY <1>2, <2>1, <2>3, <2>6 DEF StoreTypeOK, Fields
  <2>9. Account(n, e)' = Account(n, e) + granted
    BY <1>2, <2>1, <2>2, <2>3 DEF Account
  <2>10. ClearsDead(n)
    BY <1>1, <2>3 DEF ClearsDead
  <2>11. KeepsMembers(n, e)
    <3>1. SUFFICES ASSUME NEW m \in Nodes, holder'[m].count > 0, m # n \/ granted = 0
                   PROVE  /\ holder'[m] = holder[m]
                          /\ <<m, holder[m].ep>> \in members => <<m, holder[m].ep>> \in members'
      BY <2>1, <2>3 DEF KeepsMembers
    <3>2. holder'[m] = holder[m] /\ m \notin Dead(n)
      <4>1. CASE m = n
        BY <1>2, <2>3, <3>1, <4>1
      <4>2. CASE m # n
        <5>1. holder'[m] = c[m] /\ c[m] # NoHolder
          BY <2>3, <3>1, <4>2 DEF NoHolder
        <5>2. QED
          BY <1>1, <4>2, <5>1
      <4>3. QED
        BY <4>1, <4>2
    <3>3. <<m, holder[m].ep>> \notin Entries(Dead(n))
      BY <3>2 DEF Entries
    <3>4. QED
      BY <2>1, <3>2, <3>3
  <2>12. allocated' <= allocated \/ allocated' + l <= limit
    BY <1>1, <1>2, <2>1, <2>2
  <2>13. QED
    BY <2>1, <2>2, <2>7, <2>8, <2>9, <2>10, <2>11, <2>12
<1>5. QED
  BY <1>3, <1>4 DEF Grant

\* What follows for the other nodes and for the sweep.
LEMMA GrantOthers ==
    ASSUME StoreTypeOK, StoreTypeOK', NEW n \in Nodes, NEW e \in Nat,
           epoch[n] = e, ClearsDead(n), KeepsMembers(n, e), UNCHANGED registry
    PROVE  /\ OthersSame(n, e)
           /\ Found /\ <<n, e>> \in registry => Found'
<1>1. OthersSame(n, e)
  <2>1. SUFFICES ASSUME NEW m \in Nodes, NEW x \in Nat,
                        <<m, x>> \in lease, epoch[m] = x, <<m, x>> # <<n, e>>
                 PROVE  Account(m, x)' = Account(m, x)
    BY DEF OthersSame
  <2>2. m \in Nodes \ {n}
    BY <2>1
  <2>3. CASE holder'[m] = holder[m]
    BY <2>3 DEF Account
  <2>4. CASE <<m, holder[m].ep>> \notin lease /\ holder'[m] = NoHolder
    BY <2>1, <2>4 DEF Account, NoHolder
  <2>5. QED
    BY <2>2, <2>3, <2>4 DEF ClearsDead
<1>2. ASSUME Found, <<n, e>> \in registry
      PROVE  Found'
  <2>1. SUFFICES ASSUME NEW m \in Nodes, holder'[m].count > 0
                 PROVE  <<m, holder'[m].ep>> \in members' \intersect registry'
    BY DEF Found
  <2>2. CASE m = n /\ holder'[m].ep = e /\ <<n, e>> \in members'
    BY <1>2, <2>2
  <2>3. CASE /\ holder'[m] = holder[m]
             /\ <<m, holder[m].ep>> \in members => <<m, holder[m].ep>> \in members'
    BY <1>2, <2>1, <2>3 DEF Found
  <2>4. QED
    BY <2>1, <2>2, <2>3 DEF KeepsMembers
<1>3. QED
  BY <1>1, <1>2

\* A script that lends permits does not touch those of other live nodes.
LEMMA GrantEffect ==
    ASSUME StoreTypeOK, Balanced, NEW n \in Nodes, NEW e \in Nat, NEW request \in Nat,
           NEW limit \in Nat, NEW l \in Nat, NEW granted,
           Grant(n, e, request, limit, l, granted)
    PROVE  /\ StoreTypeOK' /\ Balanced' /\ granted \in Nat
           /\ allocated' <= allocated \/ allocated' + l <= limit
           /\ UNCHANGED <<epoch, lease, registry>>
           /\ epoch[n] = e /\ <<n, e>> \in lease
           /\ Account(n, e)' = Account(n, e) + granted
           /\ OthersSame(n, e)
           /\ Found /\ <<n, e>> \in registry => Found'
<1>1. /\ StoreTypeOK' /\ Balanced' /\ granted \in Nat
      /\ allocated' <= allocated \/ allocated' + l <= limit
      /\ UNCHANGED <<epoch, lease, registry>>
      /\ ~Fenced(n, e)
      /\ Account(n, e)' = Account(n, e) + granted
      /\ ClearsDead(n) /\ KeepsMembers(n, e)
  BY GrantStep
<1>2. epoch[n] = e /\ <<n, e>> \in lease
  BY <1>1 DEF Fenced
<1>3. OthersSame(n, e) /\ (Found /\ <<n, e>> \in registry => Found')
  BY <1>1, <1>2, GrantOthers
<1>4. QED
  BY <1>1, <1>2, <1>3

\* Nor does one that refuses.
LEMMA FencedEffect ==
    ASSUME StoreTypeOK, Balanced, NEW n \in Nodes, NEW e \in Nat, GrantFenced(n, e)
    PROVE  /\ StoreTypeOK' /\ Balanced'
           /\ allocated' <= allocated
           /\ UNCHANGED <<epoch, lease, registry>>
           /\ Account(n, e)' = Account(n, e)
           /\ OthersSame(n, e)
           /\ Found /\ (<<n, e>> \in registry \/ UNCHANGED store) => Found'
<1>1. CASE UNCHANGED store
  BY <1>1 DEF store, StoreTypeOK, Balanced, Held, Permits, Account, OthersSame, Found
<1>2. CASE ~UNCHANGED store
  <2> DEFINE c == Cleared(Dead(n))
  <2>1. /\ c \in Fields
        /\ Rest(n) = HeldOf(c, Nodes)
        /\ Rest(n) \in Nat /\ Rest(n) <= allocated
        /\ c[n] = holder[n]
        /\ \A m \in Nodes \ {n} :
              \/ c[m] = holder[m] /\ m \notin Dead(n)
              \/ <<m, holder[m].ep>> \notin lease /\ c[m] = NoHolder
    BY DeadCleared
  <2>2. /\ ~Fenced(n, e)
        /\ holder' = c
        /\ allocated' = Rest(n)
        /\ members' = members \ Entries(Dead(n))
        /\ UNCHANGED <<epoch, lease, registry>>
    BY <1>2 DEF GrantFenced
  <2> HIDE DEF c
  <2>3. StoreTypeOK'
    BY <2>1, <2>2 DEF StoreTypeOK, Fields
  <2>4. Balanced'
    BY <2>1, <2>2 DEF Balanced, Held, Permits, HeldOf, PermitsOf
  <2>5. ClearsDead(n)
    BY <2>1, <2>2 DEF ClearsDead
  <2>6. KeepsMembers(n, e)
    <3>1. SUFFICES ASSUME NEW m \in Nodes, holder'[m].count > 0
                   PROVE  /\ holder'[m] = holder[m]
                          /\ <<m, holder[m].ep>> \in members => <<m, holder[m].ep>> \in members'
      BY DEF KeepsMembers
    <3>2. holder'[m] = holder[m] /\ m \notin Dead(n)
      <4>1. CASE m = n
        BY <2>1, <2>2, <4>1 DEF Dead
      <4>2. CASE m # n
        <5>1. holder'[m] = c[m] /\ c[m] # NoHolder
          BY <2>2, <3>1 DEF NoHolder
        <5>2. QED
          BY <2>1, <4>2, <5>1
      <4>3. QED
        BY <4>1, <4>2
    <3>3. <<m, holder[m].ep>> \notin Entries(Dead(n))
      BY <3>2 DEF Entries
    <3>4. QED
      BY <2>2, <3>2, <3>3
  <2>7. epoch[n] = e
    BY <2>2 DEF Fenced
  <2>8. OthersSame(n, e) /\ (Found /\ <<n, e>> \in registry => Found')
    BY <2>2, <2>3, <2>5, <2>6, <2>7, GrantOthers
  <2>9. Account(n, e)' = Account(n, e)
    BY <2>1, <2>2 DEF Account
  <2>10. QED
    BY <1>2, <2>1, <2>2, <2>3, <2>4, <2>8, <2>9
<1>3. QED
  BY <1>1, <1>2

\* Permits are returned once, and only those of the caller's own epoch.
LEMMA ReleaseEffect ==
    ASSUME StoreTypeOK, Balanced, NEW n \in Nodes, NEW e \in Nat, NEW permits \in Nat,
           NEW ok \in BOOLEAN, Release(n, e, permits, ok)
    PROVE  /\ StoreTypeOK' /\ Balanced'
           /\ allocated' <= allocated
           /\ UNCHANGED <<epoch, lease, registry>>
           /\ ok /\ permits <= Account(n, e) => Account(n, e)' = Account(n, e) - permits
           /\ ~ok => UNCHANGED store
           /\ OthersSame(n, e)
           /\ Found => Found'
<1>0. /\ holder[n].count \in Nat /\ allocated \in Nat /\ holder \in Fields
      /\ holder[n] = [ep |-> holder[n].ep, count |-> holder[n].count]
      /\ holder[n].ep \in Nat
  BY DEF StoreTypeOK, Fields
<1>1. CASE UNCHANGED store
  <2>2. ok /\ permits <= Account(n, e) => Account(n, e) = Account(n, e) - permits
    <3>1. CASE holder[n].count = 0 \/ permits = 0
      BY <1>0, <3>1 DEF Account
    <3>2. CASE holder[n].count > 0 /\ permits > 0 /\ ok /\ permits <= Account(n, e)
      <4>1. Lesser(permits, holder[n].count) = permits /\ holder[n].ep = e
        BY <1>0, <3>2 DEF Account, Lesser
      <4>2. holder' = [holder EXCEPT ![n] = IF permits = @.count THEN NoHolder
                                            ELSE [ep |-> e, count |-> @.count - permits]]
        BY <3>2, <4>1 DEF Release
      <4>3. holder'[n].count # holder[n].count
        <5>1. holder'[n] = IF permits = holder[n].count THEN NoHolder
                           ELSE [ep |-> e, count |-> holder[n].count - permits]
          BY <1>0, <4>2 DEF Fields
        <5>2. QED
          BY <1>0, <3>2, <5>1 DEF NoHolder
      <4>4. QED
        BY <1>1, <4>3 DEF store
    <3>3. QED
      BY <1>0, <3>1, <3>2
  <2>3. Account(n, e)' = Account(n, e) /\ OthersSame(n, e) /\ (Found => Found')
    BY <1>1 DEF store, Account, OthersSame, Found
  <2>4. StoreTypeOK' /\ Balanced' /\ allocated' <= allocated
    BY <1>0, <1>1 DEF store, StoreTypeOK, Balanced, Held, Permits
  <2>5. UNCHANGED <<epoch, lease, registry>>
    BY <1>1 DEF store
  <2>6. QED
    BY <1>1, <2>2, <2>3, <2>4, <2>5
<1>2. CASE ~UNCHANGED store
  <2> DEFINE released == Lesser(permits, holder[n].count)
  <2>1. /\ ok /\ epoch[n] = e /\ holder[n].count > 0 /\ holder[n].ep = e
        /\ holder' = [holder EXCEPT ![n] = IF released = @.count THEN NoHolder
                                           ELSE [ep |-> e, count |-> @.count - released]]
        /\ allocated' = Floor(allocated - released)
        /\ members' = IF released = holder[n].count THEN members \ {<<n, e>>} ELSE members
        /\ UNCHANGED <<epoch, lease, registry>>
    BY <1>2 DEF Release
  <2>2. released \in Nat /\ released <= holder[n].count /\ (permits <= holder[n].count => released = permits)
    BY <1>0 DEF Lesser
  <2> HIDE DEF released
  <2> DEFINE v == IF released = holder[n].count THEN NoHolder
                  ELSE [ep |-> e, count |-> holder[n].count - released]
  <2>3. v \in [ep : Nat, count : Nat] /\ v.count = holder[n].count - released
        /\ (v.count > 0 => v.ep = e /\ released # holder[n].count)
    BY <1>0, <2>2 DEF NoHolder
  <2>4. holder' = [holder EXCEPT ![n] = v]
    BY <2>1 DEF v
  <2> HIDE DEF v
  <2>5. holder' \in Fields /\ holder'[n] = v /\ \A m \in Nodes \ {n} : holder'[m] = holder[m]
    BY <1>0, <2>3, <2>4 DEF Fields
  <2>6. HeldOf(holder', Nodes) = HeldOf(holder, Nodes) - holder[n].count + v.count
    <3>1. HeldOf(holder', Nodes) = HeldOf(holder, Nodes) - holder[n].count + holder'[n].count
      BY <1>0, <2>5, PermitsChange
    <3>2. QED
      BY <2>5, <3>1
  <2>7. HeldOf(holder', Nodes) \in Nat /\ HeldOf(holder, Nodes) = allocated
    <3>1. HeldOf(holder', Nodes) \in Nat
      BY <2>5, PermitsFinite
    <3>2. HeldOf(holder, Nodes) = allocated
      BY DEF Balanced, Held, Permits, HeldOf, PermitsOf
    <3>3. QED
      BY <3>1, <3>2
  <2>8. allocated' = HeldOf(holder', Nodes) /\ allocated' <= allocated
    BY <1>0, <2>1, <2>2, <2>3, <2>6, <2>7 DEF Floor
  <2>9. Balanced'
    BY <2>8 DEF Balanced, Held, Permits, HeldOf, PermitsOf
  <2>10. StoreTypeOK'
    BY <2>1, <2>5, <2>7, <2>8 DEF StoreTypeOK, Fields
  <2>11. permits <= Account(n, e) => Account(n, e)' = Account(n, e) - permits
    <3>1. SUFFICES ASSUME permits <= Account(n, e)
                   PROVE  Account(n, e)' = Account(n, e) - permits
      OBVIOUS
    <3>2. Account(n, e) = holder[n].count /\ released = permits
      BY <2>1, <2>2, <3>1 DEF Account
    <3>3. Account(n, e)' = v.count
      BY <1>0, <2>2, <2>3, <2>5 DEF Account
    <3>4. QED
      BY <2>3, <3>2, <3>3
  <2>12. OthersSame(n, e)
    BY <2>1, <2>5 DEF OthersSame, Account
  <2>13. Found => Found'
    <3>1. SUFFICES ASSUME Found, NEW m \in Nodes, holder'[m].count > 0
                   PROVE  <<m, holder'[m].ep>> \in members' \intersect registry'
      BY DEF Found
    <3>2. CASE m = n
      <4>1. holder'[m].ep = e /\ members' = members
        BY <2>1, <2>3, <2>5, <3>1, <3>2
      <4>2. QED
        BY <2>1, <3>1, <3>2, <4>1 DEF Found
    <3>3. CASE m # n
      <4>1. holder'[m] = holder[m] /\ (<<m, holder[m].ep>> \in members => <<m, holder[m].ep>> \in members')
        BY <2>1, <2>5, <3>3
      <4>2. QED
        BY <2>1, <3>1, <4>1 DEF Found
    <3>4. QED
      BY <3>2, <3>3
  <2>14. QED
    BY <2>1, <2>8, <2>9, <2>10, <2>11, <2>12, <2>13
<1>3. QED
  BY <1>1, <1>2

\* The sweep takes away what a node without lease holds, and only that.
LEMMA ReclaimEffect ==
    ASSUME StoreTypeOK, Balanced, NEW n \in Nodes, NEW e \in Nat, NEW dropped \in BOOLEAN,
           Reclaim(n, e, dropped)
    PROVE  /\ StoreTypeOK' /\ Balanced'
           /\ allocated' <= allocated
           /\ UNCHANGED <<epoch, lease>>
           /\ <<n, e>> \notin lease /\ registry \ {<<n, e>>} \subseteq registry'
           /\ OthersSame(n, e)
           /\ Found => Found'
<1>0. /\ holder[n].count \in Nat /\ allocated \in Nat /\ holder \in Fields
      /\ holder[n].ep \in Nat /\ holder[n] \in [ep : Nat, count : Nat]
  BY DEF StoreTypeOK, Fields
<1> DEFINE owned == <<n, e>> \in members /\ holder[n].count > 0 /\ holder[n].ep = e
           v == IF owned THEN NoHolder ELSE holder[n]
<1>1. /\ <<n, e>> \notin lease
      /\ holder' = [holder EXCEPT ![n] = v]
      /\ allocated' = IF owned THEN Floor(allocated - holder[n].count) ELSE allocated
      /\ members' = members \ {<<n, e>>}
      /\ registry' = IF dropped THEN registry \ {<<n, e>>} ELSE registry
      /\ UNCHANGED <<epoch, lease>>
  BY DEF Reclaim
<1>2. v \in [ep : Nat, count : Nat] /\ v.count = IF owned THEN 0 ELSE holder[n].count
  BY <1>0 DEF NoHolder
<1>3. v.count > 0 => ~owned /\ v = holder[n]
  BY DEF NoHolder
<1>4. (v = NoHolder /\ holder[n].ep = e) \/ v = holder[n]
  OBVIOUS
<1> HIDE DEF owned, v
<1>5. holder' \in Fields /\ holder'[n] = v /\ \A m \in Nodes \ {n} : holder'[m] = holder[m]
  BY <1>0, <1>1, <1>2 DEF Fields
<1>6. HeldOf(holder', Nodes) = HeldOf(holder, Nodes) - holder[n].count + v.count
  <2>1. HeldOf(holder', Nodes) = HeldOf(holder, Nodes) - holder[n].count + holder'[n].count
    BY <1>0, <1>5, PermitsChange
  <2>2. QED
    BY <1>5, <2>1
<1>7. HeldOf(holder', Nodes) \in Nat
  BY <1>5, PermitsFinite
<1>8. HeldOf(holder, Nodes) = allocated
  BY DEF Balanced, Held, Permits, HeldOf, PermitsOf
<1>9. allocated' = HeldOf(holder', Nodes) /\ allocated' <= allocated
  BY <1>0, <1>1, <1>2, <1>6, <1>7, <1>8 DEF Floor
<1>10. Balanced'
  BY <1>9 DEF Balanced, Held, Permits, HeldOf, PermitsOf
<1>11. StoreTypeOK'
  BY <1>1, <1>5, <1>7, <1>9 DEF StoreTypeOK, Fields
<1>12. OthersSame(n, e)
  <2>1. SUFFICES ASSUME NEW m \in Nodes, NEW x \in Nat, <<m, x>> # <<n, e>>
                 PROVE  Account(m, x)' = Account(m, x)
    BY DEF OthersSame
  <2>2. CASE m = n
    BY <1>4, <1>5, <2>1, <2>2 DEF Account, NoHolder
  <2>3. CASE m # n
    BY <1>5, <2>3 DEF Account
  <2>4. QED
    BY <2>2, <2>3
<1>13. Found => Found'
  <2>1. SUFFICES ASSUME Found, NEW m \in Nodes, holder'[m].count > 0
                 PROVE  <<m, holder'[m].ep>> \in members' \intersect registry'
    BY DEF Found
  <2>2. holder'[m] = holder[m]
    BY <1>3, <1>5, <2>1
  <2>3. <<m, holder[m].ep>> \in members \intersect registry
    BY <2>1, <2>2 DEF Found
  <2>4. <<m, holder[m].ep>> # <<n, e>>
    <3>1. SUFFICES ASSUME m = n, holder[n].ep = e
                   PROVE  FALSE
      OBVIOUS
    <3>2. owned
      BY <2>1, <2>2, <2>3, <3>1 DEF owned
    <3>3. QED
      BY <1>3, <1>5, <2>1, <3>1, <3>2
  <2>5. QED
    BY <1>1, <2>2, <2>3, <2>4
<1>14. QED
  BY <1>1, <1>9, <1>10, <1>11, <1>12, <1>13

-----------------------------------------------------------------------------
(* The inductive invariant.                                                *)

\* Processes that have an epoch
Started == {"register", "up", "closing"}

\* Requests that hold a permit of p
RunningOn(p) == {r \in Requests : At(r, "running") /\ req[r].proc = p}

\* The permits on the account of p
Own(p) == Account(node[p], ep[p])

\* What is known of one process: its epoch is not newer than that of its node,
\* its stock is empty until it is up, it uses no more than its stock; and while
\* it is the current one of its node, its lease and its registration are
\* there, its stock is on its account, and so are the permits of requests that
\* its object does not count.
ProcInv(p) ==
    /\ ppc[p] \in Started => ep[p] \in 1..epoch[node[p]]
    /\ ppc[p] \in {"new", "register"} => grants[p] = 0
    /\ inUse[p] <= grants[p]
    /\ ~slipped /\ Keeps(p) =>
          /\ <<node[p], ep[p]>> \in lease \intersect registry
          /\ grants[p] <= Own(p)
          /\ Cardinality(RunningOn(p)) + grants[p] <= inUse[p] + Own(p)

\* No two processes have the same epoch of the same node.
Distinct ==
    \A p, q \in Procs :
        ppc[p] \in Started /\ ppc[q] \in Started /\ node[p] = node[q] /\ ep[p] = ep[q] => p = q

\* Requests are on processes that are up.
Hosted == \A r \in Requests : req[r].proc \in Procs => ppc[req[r].proc] = "up"

Inv ==
    /\ TypeOK /\ Balanced /\ Bounded /\ Registered
    /\ Distinct /\ Hosted
    /\ \A p \in Procs : ProcInv(p)

-----------------------------------------------------------------------------
(* Sets of requests.                                                       *)

\* How the sizes of two sets of requests compare.
LEMMA RequestSets ==
    ASSUME NEW A \in SUBSET Requests, NEW C \in SUBSET Requests
    PROVE  /\ Cardinality(A) \in Nat /\ Cardinality(C) \in Nat
           /\ A \subseteq C => Cardinality(A) <= Cardinality(C)
           /\ \A r \in Requests : A \subseteq C \union {r} => Cardinality(A) <= Cardinality(C) + 1
           /\ \A r \in C : A \subseteq C \ {r} => Cardinality(A) + 1 <= Cardinality(C)
<1>1. IsFiniteSet(A) /\ IsFiniteSet(C)
  BY FS_Subset, EscrowAssumption
<1>2. Cardinality(A) \in Nat /\ Cardinality(C) \in Nat
  BY <1>1, FS_CardinalityType
<1>3. A \subseteq C => Cardinality(A) <= Cardinality(C)
  BY <1>1, FS_Subset
<1>4. ASSUME NEW r \in Requests, A \subseteq C \union {r}
      PROVE  Cardinality(A) <= Cardinality(C) + 1
  <2>1. IsFiniteSet(C \union {r}) /\ Cardinality(C \union {r}) = IF r \in C THEN Cardinality(C) ELSE Cardinality(C) + 1
    BY <1>1, FS_AddElement
  <2>2. Cardinality(A) <= Cardinality(C \union {r})
    BY <1>4, <2>1, FS_Subset
  <2>3. QED
    BY <1>2, <2>1, <2>2
<1>5. ASSUME NEW r \in C, A \subseteq C \ {r}
      PROVE  Cardinality(A) + 1 <= Cardinality(C)
  <2>1. IsFiniteSet(C \ {r}) /\ Cardinality(C \ {r}) = Cardinality(C) - 1
    BY <1>1, <1>5, FS_RemoveElement
  <2>2. Cardinality(A) <= Cardinality(C \ {r})
    BY <1>5, <2>1, FS_Subset
  <2>3. QED
    BY <1>2, <2>1, <2>2
<1>6. QED
  BY <1>2, <1>3, <1>4, <1>5

-----------------------------------------------------------------------------
(* What a step leaves alone.                                               *)

\* The records of requests
Record == [at : {"idle", "entered", "stranded", "locked", "running", "fallback", "slot"},
           proc : Procs \union {None}, limit : 1..MaxLimit]

\* The step does nothing with q itself.
Untouched(q) ==
    /\ ppc'[q] = ppc[q] /\ node'[q] = node[q] /\ ep'[q] = ep[q]
    /\ grants'[q] = grants[q] /\ inUse'[q] = inUse[q]
    /\ RunningOn(q)' \subseteq RunningOn(q)

\* A process keeps its epoch no longer than it did.
LEMMA KeptBefore ==
    ASSUME TypeOK, NEW q \in Procs, ProcInv(q), Untouched(q),
           epoch' \in [Nodes -> Nat], \A m \in Nodes : epoch[m] <= epoch'[m], Keeps(q)'
    PROVE  Keeps(q) /\ node[q] \in Nodes /\ ep[q] \in Nat /\ epoch[node[q]] = ep[q]
<1>1. ppc[q] = "up" /\ node[q] \in Nodes /\ ep[q] \in Nat /\ epoch'[node[q]] = ep[q]
  BY DEF TypeOK, Untouched, Keeps
<1>2. ep[q] \in 1..epoch[node[q]]
  BY <1>1 DEF ProcInv, Started
<1>3. epoch[node[q]] \in Nat /\ epoch[node[q]] <= epoch'[node[q]]
  BY <1>1 DEF TypeOK, StoreTypeOK
<1>4. epoch[node[q]] = ep[q]
  BY <1>1, <1>2, <1>3
<1>5. QED
  BY <1>1, <1>4 DEF Keeps

\* What is known of a process that a step does nothing with stays true.
LEMMA UntouchedKept ==
    ASSUME TypeOK, NEW q \in Procs, ProcInv(q), Untouched(q), slipped => slipped',
           epoch' \in [Nodes -> Nat], \A m \in Nodes : epoch[m] <= epoch'[m],
           ~slipped' /\ Keeps(q) /\ Keeps(q)' =>
               <<node[q], ep[q]>> \in lease' \intersect registry' /\ Own(q)' = Own(q)
    PROVE  ProcInv(q)'
<1>1. ppc[q] \in Started => ep[q] \in 1..epoch'[node[q]]
  <2>1. SUFFICES ASSUME ppc[q] \in Started
                 PROVE  ep[q] \in 1..epoch'[node[q]]
    OBVIOUS
  <2>2. node[q] \in Nodes /\ ep[q] \in 1..epoch[node[q]]
    BY <2>1 DEF TypeOK, ProcInv, Started
  <2>3. epoch[node[q]] \in Nat /\ epoch'[node[q]] \in Nat /\ epoch[node[q]] <= epoch'[node[q]]
    BY <2>2 DEF TypeOK, StoreTypeOK
  <2>4. QED
    BY <2>2, <2>3
<1>2. ASSUME ~slipped', Keeps(q)'
      PROVE  /\ <<node[q], ep[q]>> \in lease' \intersect registry'
             /\ grants[q] <= Own(q)'
             /\ Cardinality(RunningOn(q)') + grants[q] <= inUse[q] + Own(q)'
  <2>1. ~slipped /\ Keeps(q) /\ node[q] \in Nodes
    BY <1>2, KeptBefore
  <2>2. <<node[q], ep[q]>> \in lease' \intersect registry' /\ Own(q)' = Own(q)
    BY <1>2, <2>1
  <2>3. grants[q] <= Own(q) /\ Cardinality(RunningOn(q)) + grants[q] <= inUse[q] + Own(q)
    BY <2>1 DEF ProcInv
  <2>4. RunningOn(q)' \subseteq RunningOn(q) /\ RunningOn(q) \in SUBSET Requests
    BY DEF Untouched, RunningOn
  <2>5. /\ Cardinality(RunningOn(q)) \in Nat /\ Cardinality(RunningOn(q)') \in Nat
        /\ Cardinality(RunningOn(q)') <= Cardinality(RunningOn(q))
    BY <2>4, RequestSets
  <2>6. grants[q] \in Nat /\ inUse[q] \in Nat /\ Own(q) \in Nat
    BY <2>1 DEF TypeOK, StoreTypeOK, Own, Account
  <2>7. QED
    BY <2>2, <2>3, <2>5, <2>6
<1>3. QED
  BY <1>1, <1>2 DEF ProcInv, Untouched

\* The other processes, after a script that p has called
LEMMA OthersKept ==
    ASSUME Inv, NEW p \in Procs, NEW n, NEW e, n = node[p], e = ep[p], ppc[p] \in Started,
           UNCHANGED <<epoch, lease, registry>>, OthersSame(n, e), slipped => slipped',
           \A q \in Procs \ {p} : Untouched(q)
    PROVE  \A q \in Procs \ {p} : ProcInv(q)'
<1>1. SUFFICES ASSUME NEW q \in Procs \ {p}
               PROVE  ProcInv(q)'
  OBVIOUS
<1>2. TypeOK /\ ProcInv(q) /\ Untouched(q) /\ epoch' = epoch /\ epoch \in [Nodes -> Nat]
  BY DEF Inv, TypeOK, StoreTypeOK
<1>3. \A m \in Nodes : epoch[m] <= epoch'[m]
  BY <1>2
<1>4. ASSUME ~slipped, Keeps(q)
      PROVE  <<node[q], ep[q]>> \in lease' \intersect registry' /\ Own(q)' = Own(q)
  <2>1. <<node[q], ep[q]>> \in lease \intersect registry
    BY <1>2, <1>4 DEF ProcInv
  <2>2. <<node[q], ep[q]>> # <<n, e>>
    BY <1>4 DEF Inv, Distinct, Keeps, Started
  <2>3. PICK m \in Nodes, x \in Nat : m = node[q] /\ x = ep[q]
    BY <1>2, <1>4 DEF TypeOK, Keeps
  <2>4. epoch[m] = x
    BY <1>4, <2>3 DEF Keeps
  <2>5. Account(m, x)' = Account(m, x)
    BY <2>1, <2>2, <2>3, <2>4 DEF OthersSame
  <2>6. QED
    BY <1>2, <2>1, <2>3, <2>5 DEF Own, Account, Untouched
<1>5. QED
  BY <1>2, <1>3, <1>4, UntouchedKept

\* Nothing changes on a store that stays as it is.
LEMMA StoreSame ==
    ASSUME StoreTypeOK, UNCHANGED store
    PROVE  /\ StoreTypeOK'
           /\ UNCHANGED <<epoch, lease, registry, members, holder, allocated>>
           /\ Balanced => Balanced'
           /\ Found => Found'
           /\ \A n, e : OthersSame(n, e) /\ Account(n, e)' = Account(n, e)
<1>1. UNCHANGED <<epoch, lease, registry, members, holder, allocated>>
  BY DEF store
<1>2. QED
  BY <1>1 DEF StoreTypeOK, Balanced, Held, Permits, Found, OthersSame, Account

\* Processes that keep their node and epoch stay distinct.
LEMMA DistinctKept ==
    ASSUME Distinct,
           \A p \in Procs : ppc'[p] \in Started =>
               ppc[p] \in Started /\ node'[p] = node[p] /\ ep'[p] = ep[p]
    PROVE  Distinct'
  BY DEF Distinct

\* The user slots and the permits stay below the limit.
LEMMA BoundedKept ==
    ASSUME TypeOK, Bounded, live' = live, allocated' \in Nat,
           allocated' <= allocated \/ allocated' + live <= MaxLimit,
           \A r \in Requests : req'[r].at = "slot" => req[r].at = "slot"
    PROVE  Bounded'
<1> DEFINE S == {r \in Requests : req[r].at = "slot"}
<1>1. S \in SUBSET Requests /\ S' \in SUBSET Requests /\ S' \subseteq S
  OBVIOUS
<1>2. Cardinality(S) \in Nat /\ Cardinality(S') \in Nat /\ Cardinality(S') <= Cardinality(S)
  <2> HIDE DEF S
  <2>1. QED
    BY <1>1, RequestSets
<1>3. Regular = Cardinality(S) /\ Regular' = Cardinality(S')
  BY DEF Regular
<1> HIDE DEF S
<1>4. live \in Nat /\ allocated \in Nat /\ MaxLimit \in Nat
  BY EscrowAssumption DEF TypeOK, StoreTypeOK
<1>5. allocated + live <= MaxLimit /\ Regular + live <= MaxLimit
  BY DEF Bounded
<1>6. QED
  BY <1>2, <1>3, <1>4, <1>5 DEF Bounded

-----------------------------------------------------------------------------
(* The steps of processes and of time.                                     *)

\* Requests are known to their processes, and processes to the store.
LEMMA HostFacts ==
    ASSUME Inv, NEW r \in Requests, req[r].at \notin {"idle", "slot"}
    PROVE  /\ req[r].proc \in Procs /\ ppc[req[r].proc] = "up"
           /\ node[req[r].proc] \in Nodes /\ ep[req[r].proc] \in Nat
  BY DEF Inv, TypeOK, Hosted

\* A process that takes a new epoch fences its predecessor, which keeps nothing.
LEMMA RegisterStartStep ==
    ASSUME Inv, NEW p \in Procs, NEW n \in Nodes, RegisterStart(p, n)
    PROVE  Inv'
<1>1. /\ ppc[p] = "new"
      /\ epoch' = [epoch EXCEPT ![n] = epoch[n] + 1]
      /\ UNCHANGED <<lease, registry, members, holder, allocated>>
      /\ node' = [node EXCEPT ![p] = n]
      /\ ep' = [ep EXCEPT ![p] = epoch[n] + 1]
      /\ ppc' = [ppc EXCEPT ![p] = "register"]
      /\ UNCHANGED <<mode, hb, live, grants, inUse, req, faults, slipped>>
  BY DEF RegisterStart, RegisterEpoch, Smooth, object
<1>2. TypeOK /\ epoch[n] \in Nat
  BY DEF Inv, TypeOK, StoreTypeOK
<1>3. StoreTypeOK'
  BY <1>1, <1>2 DEF TypeOK, StoreTypeOK
<1>4. TypeOK'
  <2>1. /\ ppc' \in [Procs -> {"new", "register", "up", "closing", "gone"}]
        /\ node' \in [Procs -> Nodes \union {None}]
        /\ \A q \in Procs : ppc'[q] \notin {"new", "gone"} => node'[q] \in Nodes
        /\ ep' \in [Procs -> Nat]
    BY <1>1, <1>2 DEF TypeOK
  <2>2. QED
    BY <1>1, <1>2, <1>3, <2>1 DEF TypeOK
<1>5. Balanced' /\ Registered'
  BY <1>1 DEF Inv, Balanced, Held, Permits, Registered
<1>6. Bounded'
  BY <1>1 DEF Inv, Bounded, Regular
<1>7. Hosted'
  BY <1>1, <1>2 DEF Inv, Hosted, TypeOK
<1>8. epoch' \in [Nodes -> Nat] /\ \A m \in Nodes : epoch[m] <= epoch'[m]
  BY <1>1, <1>2, <1>3 DEF TypeOK, StoreTypeOK
<1>9. ASSUME NEW q \in Procs \ {p}
      PROVE  ProcInv(q)'
  <2>1. Untouched(q)
    BY <1>1, <1>2 DEF Untouched, TypeOK, RunningOn, At
  <2>2. ASSUME ~slipped, Keeps(q), Keeps(q)'
        PROVE  <<node[q], ep[q]>> \in lease' \intersect registry' /\ Own(q)' = Own(q)
    BY <1>1, <2>1, <2>2 DEF Inv, ProcInv, Own, Account, Untouched
  <2>3. QED
    BY <1>1, <1>2, <1>8, <2>1, <2>2, UntouchedKept DEF Inv
<1>10. ProcInv(p)'
  <2>1. /\ ppc'[p] = "register" /\ node'[p] = n /\ ep'[p] = epoch[n] + 1
        /\ epoch'[n] = epoch[n] + 1 /\ grants'[p] = grants[p] /\ inUse'[p] = inUse[p]
    BY <1>1, <1>2 DEF TypeOK, StoreTypeOK
  <2>2. grants[p] = 0 /\ inUse[p] <= grants[p]
    BY <1>1 DEF Inv, ProcInv
  <2>3. QED
    BY <1>2, <2>1, <2>2 DEF ProcInv, Keeps
<1>11. Distinct'
  <2>1. ASSUME NEW q \in Procs \ {p}, ppc'[q] \in Started, node'[q] = n
        PROVE  ep'[q] # epoch[n] + 1
    <3>1. ppc[q] \in Started /\ node[q] = n /\ ep'[q] = ep[q]
      BY <1>1, <1>2, <2>1 DEF TypeOK
    <3>2. ep[q] \in 1..epoch[n]
      BY <3>1 DEF Inv, ProcInv
    <3>3. QED
      BY <1>2, <3>1, <3>2
  <2>2. node'[p] = n /\ ep'[p] = epoch[n] + 1
    BY <1>1, <1>2 DEF TypeOK
  <2>3. \A q \in Procs \ {p} : ppc'[q] = ppc[q] /\ node'[q] = node[q] /\ ep'[q] = ep[q]
    BY <1>1, <1>2 DEF TypeOK
  <2>4. SUFFICES ASSUME NEW q1 \in Procs, NEW q2 \in Procs, ppc'[q1] \in Started, ppc'[q2] \in Started,
                        node'[q1] = node'[q2], ep'[q1] = ep'[q2]
                 PROVE  q1 = q2
    BY DEF Distinct
  <2>5. CASE q1 = p \/ q2 = p
    BY <2>1, <2>2, <2>4, <2>5
  <2>6. CASE q1 # p /\ q2 # p
    BY <2>3, <2>4, <2>6 DEF Inv, Distinct
  <2>7. QED
    BY <2>5, <2>6
<1>12. QED
  BY <1>4, <1>5, <1>6, <1>7, <1>9, <1>10, <1>11 DEF Inv

\* The lease of the new epoch replaces the one before.
LEMMA RegisterNodeStep ==
    ASSUME Inv, NEW p \in Procs, RegisterNode(p)
    PROVE  Inv'
<1>1. PICK n \in Nodes, e \in Nat \ {0} : n = node[p] /\ e = ep[p] /\ e <= epoch[n]
  <2>1. node[p] \in Nodes /\ ep[p] \in 1..epoch[node[p]] /\ epoch[node[p]] \in Nat
    BY DEF Inv, TypeOK, StoreTypeOK, RegisterNode, ProcInv, Started
  <2>2. QED
    BY <2>1
<1>2. /\ ppc[p] = "register"
      /\ lease' = (lease \ {<<n, e - 1>>}) \union {<<n, e>>}
      /\ registry' = registry \union {<<n, e>>}
      /\ UNCHANGED <<epoch, members, holder, allocated>>
      /\ ppc' = [ppc EXCEPT ![p] = "up"]
      /\ mode' = [mode EXCEPT ![p] = "valid"]
      /\ hb' = [hb EXCEPT ![p] = "runs"]
      /\ UNCHANGED <<node, ep, live, grants, inUse, req, faults, slipped>>
  BY <1>1 DEF RegisterNode, RegisterLease, Smooth, object
<1>3. TypeOK
  BY DEF Inv
<1>4. StoreTypeOK'
  BY <1>1, <1>2, <1>3 DEF TypeOK, StoreTypeOK, Pairs
<1>5. TypeOK'
  <2>1. /\ ppc' \in [Procs -> {"new", "register", "up", "closing", "gone"}]
        /\ \A q \in Procs : ppc'[q] \notin {"new", "gone"} => node'[q] \in Nodes
        /\ mode' \in [Procs -> {"valid", "expired", "degraded"}]
        /\ hb' \in [Procs -> {"runs", "last", "stopped"}]
    BY <1>1, <1>2, <1>3 DEF TypeOK
  <2>2. QED
    BY <1>2, <1>3, <1>4, <2>1 DEF TypeOK
<1>6. Balanced' /\ Registered'
  BY <1>2 DEF Inv, Balanced, Held, Permits, Registered
<1>7. Bounded'
  BY <1>2 DEF Inv, Bounded, Regular
<1>8. Hosted'
  BY <1>2, <1>3 DEF Inv, Hosted, TypeOK
<1>9. Distinct'
  BY <1>2, <1>3, DistinctKept DEF Inv, TypeOK, Started
<1>10. ASSUME NEW q \in Procs \ {p}
       PROVE  ProcInv(q)'
  <2>1. Untouched(q)
    BY <1>2, <1>3 DEF Untouched, TypeOK, RunningOn, At
  <2>2. ASSUME ~slipped, Keeps(q)
        PROVE  <<node[q], ep[q]>> \in lease' \intersect registry' /\ Own(q)' = Own(q)
    <3>1. <<node[q], ep[q]>> \in lease \intersect registry /\ epoch[node[q]] = ep[q]
      BY <2>2 DEF Inv, ProcInv, Keeps
    <3>2. epoch[n] \in Nat
      BY <1>1, <1>3 DEF TypeOK, StoreTypeOK
    <3>3. <<node[q], ep[q]>> # <<n, e - 1>>
      BY <1>1, <3>1, <3>2
    <3>4. QED
      BY <1>2, <2>1, <3>1, <3>3 DEF Own, Account, Untouched
  <2>3. epoch' \in [Nodes -> Nat] /\ \A m \in Nodes : epoch[m] <= epoch'[m]
    BY <1>2, <1>3 DEF TypeOK, StoreTypeOK
  <2>4. QED
    BY <1>2, <1>3, <2>1, <2>2, <2>3, UntouchedKept DEF Inv
<1>11. ProcInv(p)'
  <2>1. /\ ppc'[p] = "up" /\ node'[p] = n /\ ep'[p] = e
        /\ epoch'[n] = epoch[n] /\ grants'[p] = grants[p] /\ inUse'[p] = inUse[p]
    BY <1>1, <1>2, <1>3 DEF TypeOK
  <2>2. grants[p] = 0 /\ inUse[p] <= grants[p]
    BY <1>2 DEF Inv, ProcInv
  <2>3. RunningOn(p)' = {}
    BY <1>2 DEF Inv, Hosted, RunningOn, At
  <2>4. Cardinality(RunningOn(p)') = 0
    BY <2>3, FS_EmptySet
  <2>5. Own(p)' \in Nat
    BY <1>1, <1>4, <2>1 DEF StoreTypeOK, Own, Account
  <2>6. inUse[p] \in Nat /\ epoch[n] \in Nat
    BY <1>1, <1>3 DEF TypeOK, StoreTypeOK
  <2>7. <<n, e>> \in lease' \intersect registry'
    BY <1>2
  <2>8. QED
    BY <1>1, <2>1, <2>2, <2>4, <2>5, <2>6, <2>7 DEF ProcInv
<1>12. QED
  BY <1>5, <1>6, <1>7, <1>8, <1>9, <1>10, <1>11 DEF Inv

\* A step that changes no process and no request but for validTo and heartbeat
LEMMA QuietStep ==
    ASSUME Inv, UNCHANGED <<ppc, node, ep, grants, inUse, req, live, epoch>>,
           StoreTypeOK', Balanced', allocated' <= allocated, Found => Found',
           mode' \in [Procs -> {"valid", "expired", "degraded"}],
           hb' \in [Procs -> {"runs", "last", "stopped"}],
           faults' \in 0..MaxFaults, slipped' \in BOOLEAN, slipped => slipped',
           \A q \in Procs : ~slipped' /\ Keeps(q) =>
               <<node[q], ep[q]>> \in lease' \intersect registry' /\ Own(q)' = Own(q)
    PROVE  Inv'
<1>1. TypeOK'
  BY DEF Inv, TypeOK
<1>2. Bounded'
  BY BoundedKept DEF Inv, StoreTypeOK
<1>3. Registered'
  BY DEF Inv, Registered, Found, TypeOK
<1>4. Distinct' /\ Hosted'
  BY DEF Inv, Distinct, Hosted
<1>5. ASSUME NEW q \in Procs
      PROVE  ProcInv(q)'
  <2>1. Untouched(q)
    BY DEF Untouched, RunningOn, At
  <2>2. epoch' \in [Nodes -> Nat] /\ \A m \in Nodes : epoch[m] <= epoch'[m]
    BY DEF Inv, TypeOK, StoreTypeOK
  <2>3. QED
    BY <2>1, <2>2, UntouchedKept DEF Inv
<1>6. QED
  BY <1>1, <1>2, <1>3, <1>4, <1>5 DEF Inv

\* Failures are counted, and a slip is remembered.
LEMMA FaultFacts ==
    ASSUME TypeOK
    PROVE  /\ Smooth => faults' \in 0..MaxFaults /\ slipped' = slipped /\ slipped' \in BOOLEAN
           /\ \A kind : Fault(kind) => faults' \in 0..MaxFaults /\ slipped' = slipped /\ slipped' \in BOOLEAN
           /\ \A kind : Slip(kind) => faults' \in 0..MaxFaults /\ slipped'
           /\ \A gone \in BOOLEAN : Overdue(gone) =>
                 /\ faults' \in 0..MaxFaults /\ slipped' \in BOOLEAN /\ (slipped => slipped')
                 /\ ~slipped' => gone
<1>1. faults \in 0..MaxFaults /\ slipped \in BOOLEAN /\ MaxFaults \in Nat
  BY EscrowAssumption DEF TypeOK
<1>2. Smooth => faults' \in 0..MaxFaults /\ slipped' = slipped /\ slipped' \in BOOLEAN
  BY <1>1 DEF Smooth
<1>3. \A kind : Fault(kind) => faults' \in 0..MaxFaults /\ slipped' = slipped /\ slipped' \in BOOLEAN
  BY <1>1 DEF Fault
<1>4. \A kind : Slip(kind) => faults' \in 0..MaxFaults /\ slipped'
  BY <1>1 DEF Slip
<1>5. ASSUME NEW gone \in BOOLEAN, Overdue(gone)
      PROVE  /\ faults' \in 0..MaxFaults /\ slipped' \in BOOLEAN /\ (slipped => slipped')
             /\ ~slipped' => gone
  <2>1. CASE gone /\ Smooth
    BY <1>2, <2>1
  <2>2. CASE ~gone /\ Slip("lapse")
    <3>1. faults' \in 0..MaxFaults /\ slipped' = TRUE
      BY <1>1, <2>2 DEF Slip
    <3>2. QED
      BY <3>1
  <2>3. QED
    BY <1>5, <2>1, <2>2 DEF Overdue
<1>6. QED
  BY <1>2, <1>3, <1>4, <1>5

\* validTo and escrowDegraded stay well typed.
LEMMA ValidityType ==
    ASSUME TypeOK, NEW p \in Procs, NEW v \in {"valid", "expired"}, Validity(p, v)
    PROVE  mode' \in [Procs -> {"valid", "expired", "degraded"}]
  BY DEF TypeOK, Validity

\* The heartbeat only adds a lease.
LEMMA HeartbeatStep ==
    ASSUME Inv, NEW p \in Procs, Heartbeat(p)
    PROVE  Inv'
<1>1. TypeOK /\ Balanced
  BY DEF Inv
<1>2. ppc[p] = "up" /\ node[p] \in Nodes /\ ep[p] \in Nat
  BY <1>1 DEF Heartbeat, TypeOK
<1>3. /\ UNCHANGED <<ppc, node, ep, grants, inUse, req, live>>
      /\ Smooth
  BY DEF Heartbeat, object
<1>4. faults' \in 0..MaxFaults /\ slipped' = slipped /\ slipped' \in BOOLEAN
  BY <1>1, <1>3, FaultFacts
<1>5. lease \subseteq lease' /\ lease' \subseteq lease \union {<<node[p], ep[p]>>}
      /\ UNCHANGED <<epoch, registry, members, holder, allocated>>
  BY DEF Heartbeat, SetLease, store
<1>6. mode' \in [Procs -> {"valid", "expired", "degraded"}]
  BY <1>1, ValidityType DEF Heartbeat
<1>7. hb' \in [Procs -> {"runs", "last", "stopped"}]
  BY <1>1 DEF Heartbeat, TypeOK
<1>8. StoreTypeOK' /\ allocated' <= allocated
  BY <1>1, <1>2, <1>5 DEF TypeOK, StoreTypeOK, Pairs
<1>9. Balanced' /\ (Found => Found')
  BY <1>1, <1>5 DEF Balanced, Held, Permits, Found
<1>10. \A q \in Procs : ~slipped' /\ Keeps(q) =>
           <<node[q], ep[q]>> \in lease' \intersect registry' /\ Own(q)' = Own(q)
  BY <1>3, <1>4, <1>5 DEF Inv, ProcInv, Own, Account
<1>11. QED
  BY <1>3, <1>4, <1>5, <1>6, <1>7, <1>8, <1>9, <1>10, QuietStep

\* The end of validTo changes nothing but mode.
LEMMA ValidityExpiresStep ==
    ASSUME Inv, NEW p \in Procs, ValidityExpires(p)
    PROVE  Inv'
<1>1. TypeOK /\ Balanced
  BY DEF Inv
<1>2. /\ UNCHANGED <<ppc, node, ep, grants, inUse, req, live, hb>> /\ UNCHANGED store
      /\ Overdue(<<node[p], ep[p]>> \notin lease)
      /\ Validity(p, "expired")
  BY DEF ValidityExpires, object
<1>3. faults' \in 0..MaxFaults /\ slipped' \in BOOLEAN /\ (slipped => slipped')
  BY <1>1, <1>2, FaultFacts
<1>4. mode' \in [Procs -> {"valid", "expired", "degraded"}] /\ hb' \in [Procs -> {"runs", "last", "stopped"}]
  BY <1>1, <1>2, ValidityType DEF TypeOK
<1>5. /\ StoreTypeOK' /\ Balanced' /\ (Found => Found')
      /\ UNCHANGED <<epoch, lease, registry, members, holder, allocated>>
  BY <1>1, <1>2, StoreSame DEF TypeOK
<1>6. allocated' <= allocated
  BY <1>1, <1>5 DEF TypeOK, StoreTypeOK
<1>7. \A q \in Procs : ~slipped' /\ Keeps(q) =>
          <<node[q], ep[q]>> \in lease' \intersect registry' /\ Own(q)' = Own(q)
  BY <1>2, <1>3, <1>5 DEF Inv, ProcInv, Own, Account
<1>8. QED
  BY <1>2, <1>3, <1>4, <1>5, <1>6, <1>7, QuietStep

\* A lease that expires is that of a process that is gone, or lapses.
LEMMA LeaseExpiresStep ==
    ASSUME Inv, NEW n, NEW e, LeaseExpires(n, e)
    PROVE  Inv'
<1>1. TypeOK /\ Balanced
  BY DEF Inv
<1> DEFINE gone == \A p \in Procs : ~(Keeps(p) /\ node[p] = n /\ ep[p] = e)
<1>2. /\ UNCHANGED <<ppc, node, ep, mode, hb, grants, inUse, req, live>>
      /\ UNCHANGED <<epoch, registry, members, holder, allocated>>
      /\ lease' = lease \ {<<n, e>>}
      /\ Overdue(gone)
  BY DEF LeaseExpires, object, process
<1>3. faults' \in 0..MaxFaults /\ slipped' \in BOOLEAN /\ (slipped => slipped') /\ (~slipped' => gone)
  <2>1. gone \in BOOLEAN
    OBVIOUS
  <2> HIDE DEF gone
  <2>2. QED
    BY <1>1, <1>2, <2>1, FaultFacts
<1>4. StoreTypeOK' /\ allocated' <= allocated
  BY <1>1, <1>2 DEF TypeOK, StoreTypeOK
<1>5. Balanced' /\ (Found => Found')
  BY <1>1, <1>2 DEF Balanced, Held, Permits, Found
<1>6. \A q \in Procs : ~slipped' /\ Keeps(q) =>
          <<node[q], ep[q]>> \in lease' \intersect registry' /\ Own(q)' = Own(q)
  BY <1>2, <1>3 DEF Inv, ProcInv, Own, Account
<1>7. mode' \in [Procs -> {"valid", "expired", "degraded"}] /\ hb' \in [Procs -> {"runs", "last", "stopped"}]
  BY <1>1, <1>2 DEF TypeOK
<1>8. QED
  BY <1>2, <1>3, <1>4, <1>5, <1>6, <1>7, QuietStep

\* The sweep takes back the permits of a node that has no lease.
LEMMA ReclaimStep ==
    ASSUME Inv, NEW n \in Nodes, NEW e \in Nat, ReclaimExpiredNode(n, e)
    PROVE  Inv'
<1>1. TypeOK /\ Balanced /\ StoreTypeOK
  BY DEF Inv, TypeOK
<1>2. PICK dropped \in BOOLEAN : Reclaim(n, e, dropped)
  BY DEF ReclaimExpiredNode
<1>3. UNCHANGED <<ppc, node, ep, mode, hb, grants, inUse, req, live>>
  BY DEF ReclaimExpiredNode, object, process
<1>4. faults' \in 0..MaxFaults /\ slipped' = slipped /\ slipped' \in BOOLEAN
  <2>1. Smooth \/ Fault("error")
    BY DEF ReclaimExpiredNode
  <2>2. QED
    BY <1>1, <2>1, FaultFacts
<1>5. /\ StoreTypeOK' /\ Balanced'
      /\ allocated' <= allocated
      /\ UNCHANGED <<epoch, lease>>
      /\ <<n, e>> \notin lease /\ registry \ {<<n, e>>} \subseteq registry'
      /\ OthersSame(n, e)
      /\ Found => Found'
  BY <1>1, <1>2, ReclaimEffect
<1>6. ASSUME NEW q \in Procs, ~slipped', Keeps(q)
      PROVE  <<node[q], ep[q]>> \in lease' \intersect registry' /\ Own(q)' = Own(q)
  <2>1. PICK m \in Nodes, x \in Nat : m = node[q] /\ x = ep[q] /\ epoch[m] = x
    BY <1>1, <1>6 DEF TypeOK, Keeps
  <2>2. <<m, x>> \in lease \intersect registry
    BY <1>4, <1>6, <2>1 DEF Inv, ProcInv
  <2>3. <<m, x>> # <<n, e>>
    BY <1>5, <2>2
  <2>4. Account(m, x)' = Account(m, x)
    BY <1>5, <2>1, <2>2, <2>3 DEF OthersSame
  <2>5. QED
    BY <1>3, <1>5, <2>1, <2>2, <2>3, <2>4 DEF Own, Account
<1>7. mode' \in [Procs -> {"valid", "expired", "degraded"}] /\ hb' \in [Procs -> {"runs", "last", "stopped"}]
  BY <1>1, <1>3 DEF TypeOK
<1>8. QED
  BY <1>3, <1>4, <1>5, <1>6, <1>7, QuietStep

\* The end of a process
LEMMA ExitStep ==
    ASSUME Inv, NEW p \in Procs, Exit(p),
           StoreTypeOK', Balanced', UNCHANGED <<epoch, holder, allocated>>, ~slipped /\ Found => Found',
           faults' \in 0..MaxFaults, slipped' = slipped,
           \A q \in Procs \ {p} : ~slipped /\ Keeps(q) => <<node[q], ep[q]>> \in lease' \intersect registry'
    PROVE  Inv'
<1>1. /\ TypeOK /\ Idle \in Record /\ Idle.proc = None /\ Idle.at = "idle" /\ None \notin Procs
      /\ slipped' \in BOOLEAN
  BY EscrowAssumption DEF Inv, TypeOK, Idle, Record
<1>2. /\ ppc' = [ppc EXCEPT ![p] = "gone"]
      /\ node' = [node EXCEPT ![p] = None]
      /\ ep' = [ep EXCEPT ![p] = 0]
      /\ hb' = [hb EXCEPT ![p] = "stopped"]
      /\ mode' = [mode EXCEPT ![p] = "expired"]
      /\ grants' = [grants EXCEPT ![p] = 0]
      /\ inUse' = [inUse EXCEPT ![p] = 0]
      /\ req' = [r \in Requests |-> IF req[r].proc = p THEN Idle ELSE req[r]]
      /\ live' = live
  BY DEF Exit
<1>3. req' \in [Requests -> Record]
  BY <1>1, <1>2 DEF TypeOK, Record
<1>4. \A r \in Requests : req'[r] = Idle \/ (req'[r] = req[r] /\ req[r].proc # p)
  BY <1>2
<1>5. TypeOK'
  <2>1. \A r \in Requests : req'[r].at \notin {"idle", "slot"} => req'[r].proc \in Procs
    BY <1>1, <1>4 DEF TypeOK
  <2>2. /\ ppc' \in [Procs -> {"new", "register", "up", "closing", "gone"}]
        /\ node' \in [Procs -> Nodes \union {None}]
        /\ \A q \in Procs : ppc'[q] \notin {"new", "gone"} => node'[q] \in Nodes
        /\ ep' \in [Procs -> Nat]
        /\ mode' \in [Procs -> {"valid", "expired", "degraded"}]
        /\ hb' \in [Procs -> {"runs", "last", "stopped"}]
        /\ grants' \in [Procs -> Nat]
        /\ inUse' \in [Procs -> Nat]
        /\ live' \in Nat
    BY <1>1, <1>2 DEF TypeOK
  <2>3. QED
    BY <1>1, <1>3, <2>1, <2>2 DEF TypeOK, Record
<1>6. Bounded'
  <2>1. \A r \in Requests : req'[r].at = "slot" => req[r].at = "slot"
    BY <1>1, <1>4
  <2>2. allocated' \in Nat /\ allocated' <= allocated
    BY <1>1 DEF TypeOK, StoreTypeOK
  <2>3. QED
    BY <1>1, <1>2, <2>1, <2>2, BoundedKept DEF Inv
<1>7. Registered'
  BY DEF Inv, Registered, Found
<1>8. Distinct'
  BY <1>1, <1>2, DistinctKept DEF Inv, TypeOK, Started
<1>9. Hosted'
  BY <1>1, <1>2, <1>4 DEF Inv, Hosted, TypeOK
<1>10. ASSUME NEW q \in Procs \ {p}
       PROVE  ProcInv(q)'
  <2>1. Untouched(q)
    <3>1. RunningOn(q)' \subseteq RunningOn(q)
      BY <1>1, <1>4 DEF RunningOn, At
    <3>2. QED
      BY <1>1, <1>2, <3>1 DEF Untouched, TypeOK
  <2>2. ASSUME ~slipped', Keeps(q)
        PROVE  <<node[q], ep[q]>> \in lease' \intersect registry' /\ Own(q)' = Own(q)
    BY <2>1, <2>2 DEF Own, Account, Untouched
  <2>3. epoch' \in [Nodes -> Nat] /\ \A m \in Nodes : epoch[m] <= epoch'[m]
    BY <1>1 DEF TypeOK, StoreTypeOK
  <2>4. QED
    BY <1>1, <2>1, <2>2, <2>3, UntouchedKept DEF Inv
<1>11. ProcInv(p)'
  <2>1. ppc'[p] = "gone" /\ grants'[p] = 0 /\ inUse'[p] = 0
    BY <1>1, <1>2 DEF TypeOK
  <2>2. QED
    BY <2>1 DEF ProcInv, Keeps, Started
<1>12. QED
  BY <1>5, <1>6, <1>7, <1>8, <1>9, <1>10, <1>11 DEF Inv

\* A crash leaves permits in the store that no process counts on.
LEMMA CrashStep ==
    ASSUME Inv, NEW p \in Procs, Crash(p)
    PROVE  Inv'
<1>1. TypeOK /\ Balanced /\ StoreTypeOK
  BY DEF Inv, TypeOK
<1>2. Exit(p) /\ Fault("crash") /\ UNCHANGED store
  BY DEF Crash
<1>3. faults' \in 0..MaxFaults /\ slipped' = slipped
  BY <1>1, <1>2, FaultFacts
<1>4. /\ StoreTypeOK' /\ Balanced' /\ (Found => Found')
      /\ UNCHANGED <<epoch, lease, registry, members, holder, allocated>>
  BY <1>1, <1>2, StoreSame
<1>5. \A q \in Procs \ {p} : ~slipped /\ Keeps(q) => <<node[q], ep[q]>> \in lease' \intersect registry'
  BY <1>4 DEF Inv, ProcInv
<1>6. QED
  BY <1>2, <1>3, <1>4, <1>5, ExitStep

\* UnregisterNode drops a node without permits.
LEMMA UnregisterStep ==
    ASSUME Inv, NEW p \in Procs, UnregisterNode(p)
    PROVE  Inv'
<1>1. TypeOK /\ Balanced /\ StoreTypeOK
  BY DEF Inv, TypeOK
<1>2. Exit(p) /\ Smooth /\ ppc[p] = "closing"
  BY DEF UnregisterNode
<1>3. faults' \in 0..MaxFaults /\ slipped' = slipped
  BY <1>1, <1>2, FaultFacts
<1>4. CASE <<node[p], ep[p]>> \in members
  <2>1. /\ StoreTypeOK' /\ Balanced' /\ (Found => Found')
        /\ UNCHANGED <<epoch, lease, registry, members, holder, allocated>>
    BY <1>1, <1>4, StoreSame DEF UnregisterNode
  <2>2. \A q \in Procs \ {p} : ~slipped /\ Keeps(q) => <<node[q], ep[q]>> \in lease' \intersect registry'
    BY <2>1 DEF Inv, ProcInv
  <2>3. QED
    BY <1>2, <1>3, <2>1, <2>2, ExitStep
<1>5. CASE <<node[p], ep[p]>> \notin members
  <2>1. /\ lease' = lease \ {<<node[p], ep[p]>>}
        /\ members' = members \ {<<node[p], ep[p]>>}
        /\ registry' = registry \ {<<node[p], ep[p]>>}
        /\ UNCHANGED <<epoch, holder, allocated>>
    BY <1>5 DEF UnregisterNode, Unregister
  <2>2. StoreTypeOK'
    BY <1>1, <2>1 DEF StoreTypeOK
  <2>3. Balanced'
    BY <1>1, <2>1 DEF Balanced, Held, Permits
  <2>4. Found => Found'
    BY <1>5, <2>1 DEF Found
  <2>5. ASSUME NEW q \in Procs \ {p}, ~slipped, Keeps(q)
        PROVE  <<node[q], ep[q]>> \in lease' \intersect registry'
    <3>1. <<node[q], ep[q]>> \in lease \intersect registry
      BY <2>5 DEF Inv, ProcInv
    <3>2. <<node[q], ep[q]>> # <<node[p], ep[p]>>
      BY <1>2, <2>5 DEF Inv, Distinct, Keeps, Started
    <3>3. QED
      BY <2>1, <3>1, <3>2
  <2>6. QED
    BY <1>2, <1>3, <2>1, <2>2, <2>3, <2>4, <2>5, ExitStep
<1>6. QED
  BY <1>4, <1>5

\* Live leases
LEMMA LiveStep ==
    ASSUME Inv, UNCHANGED <<store, process, object, req>>, Smooth,
           \/ \E limit \in Limits : Regular + live + allocated < limit /\ live' = live + 1
           \/ live > 0 /\ live' = live - 1
    PROVE  Inv'
<1>1. TypeOK /\ Balanced /\ StoreTypeOK
  BY DEF Inv, TypeOK
<1>2. /\ UNCHANGED <<ppc, node, ep, mode, hb, grants, inUse, req, faults, slipped>>
      /\ UNCHANGED <<epoch, lease, registry, members, holder, allocated>>
  BY DEF process, object, Smooth, store
<1>3. live' \in Nat
  BY <1>1 DEF TypeOK
<1>4. TypeOK'
  BY <1>1, <1>2, <1>3 DEF TypeOK, StoreTypeOK
<1>5. Balanced' /\ Registered' /\ Distinct' /\ Hosted'
  BY <1>2 DEF Inv, Balanced, Held, Permits, Registered, Distinct, Hosted
<1>6. \A q \in Procs : ProcInv(q)'
  BY <1>2 DEF Inv, ProcInv, Keeps, Own, Account, RunningOn, At
<1>7. Bounded'
  <2> DEFINE S == {r \in Requests : req[r].at = "slot"}
  <2>1. S \in SUBSET Requests
    OBVIOUS
  <2>2. Cardinality(S) \in Nat
    <3> HIDE DEF S
    <3>1. QED
      BY <2>1, RequestSets
  <2>3. Regular \in Nat /\ Regular' = Regular
    BY <1>2, <2>2 DEF Regular
  <2>4. live \in Nat /\ allocated \in Nat /\ MaxLimit \in Nat /\ \A limit \in Limits : limit \in 1..MaxLimit
    BY <1>1, EscrowAssumption DEF TypeOK, StoreTypeOK
  <2>5. allocated + live <= MaxLimit /\ Regular + live <= MaxLimit
    BY DEF Inv, Bounded
  <2>6. CASE \E limit \in Limits : Regular + live + allocated < limit /\ live' = live + 1
    <3>1. PICK limit \in 1..MaxLimit : Regular + live + allocated < limit /\ live' = live + 1
      BY <2>4, <2>6
    <3>2. allocated + live' <= MaxLimit /\ Regular + live' <= MaxLimit
      BY <2>3, <2>4, <3>1
    <3>3. QED
      BY <1>2, <2>3, <3>2 DEF Bounded
  <2>7. CASE live > 0 /\ live' = live - 1
    <3>1. allocated + live' <= MaxLimit /\ Regular + live' <= MaxLimit
      BY <2>3, <2>4, <2>5, <2>7
    <3>2. QED
      BY <1>2, <2>3, <3>1 DEF Bounded
  <2>8. QED
    BY <2>6, <2>7
<1>8. QED
  BY <1>4, <1>5, <1>6, <1>7 DEF Inv

-----------------------------------------------------------------------------
(* The steps that work on the object of one process.                       *)

FaultsKept == faults' \in 0..MaxFaults /\ slipped' \in BOOLEAN /\ (slipped => slipped')

StoreKept(n, e) ==
    /\ StoreTypeOK' /\ Balanced'
    /\ UNCHANGED <<epoch, lease, registry>>
    /\ OthersSame(n, e)
    /\ ~slipped' /\ Found => Found'

RequestsTyped ==
    /\ req' \in [Requests -> Record]
    /\ \A r \in Requests : req'[r].at \notin {"idle", "slot"} => req'[r].proc \in Procs

\* The object of p and the account that backs it, after the step
ObjectKept(p, n, e) ==
    /\ grants'[p] \in Nat /\ inUse'[p] \in Nat /\ inUse'[p] <= grants'[p]
    /\ ~slipped' /\ Keeps(p) =>
          /\ grants'[p] <= Account(n, e)'
          /\ Cardinality(RunningOn(p)') + grants'[p] <= inUse'[p] + Account(n, e)'

\* A step of one process that changes the account and the object of p together.
LEMMA LocalStep ==
    ASSUME Inv, NEW p \in Procs, NEW n \in Nodes, NEW e \in Nat, n = node[p], e = ep[p],
           ppc[p] = "up", UNCHANGED <<node, ep>>, live' = live,
           NEW s \in {"up", "closing"}, ppc' = [ppc EXCEPT ![p] = s],
           mode' \in [Procs -> {"valid", "expired", "degraded"}],
           hb' \in [Procs -> {"runs", "last", "stopped"}],
           NEW g, NEW u, grants' = [grants EXCEPT ![p] = g], inUse' = [inUse EXCEPT ![p] = u],
           FaultsKept, StoreKept(n, e), RequestsTyped, ObjectKept(p, n, e),
           \A q \in Procs \ {p} : RunningOn(q)' \subseteq RunningOn(q),
           Bounded', Hosted'
    PROVE  Inv'
<1>1. TypeOK
  BY DEF Inv
<1>2. g \in Nat /\ u \in Nat /\ u <= g /\ grants'[p] = g /\ inUse'[p] = u
  BY <1>1 DEF ObjectKept, TypeOK
<1>3. TypeOK'
  <2>1. grants' \in [Procs -> Nat] /\ inUse' \in [Procs -> Nat]
    BY <1>1, <1>2 DEF TypeOK
  <2>2. /\ ppc' \in [Procs -> {"new", "register", "up", "closing", "gone"}]
        /\ \A q \in Procs : ppc'[q] \notin {"new", "gone"} => node'[q] \in Nodes
    BY <1>1 DEF TypeOK
  <2>3. QED
    BY <1>1, <2>1, <2>2 DEF TypeOK, FaultsKept, StoreKept, RequestsTyped, Record
<1>4. Registered'
  BY DEF Inv, Registered, Found, FaultsKept, StoreKept
<1>5. Distinct'
  BY <1>1, DistinctKept DEF Inv, TypeOK, Started
<1>6. \A q \in Procs \ {p} : ProcInv(q)'
  <2>1. \A q \in Procs \ {p} : Untouched(q)
    BY <1>1 DEF Untouched, TypeOK
  <2>2. ppc[p] \in Started
    BY DEF Started
  <2>3. QED
    BY <2>1, <2>2, OthersKept DEF FaultsKept, StoreKept
<1>7. ProcInv(p)'
  <2>1. ppc'[p] = s /\ node'[p] = n /\ ep'[p] = e /\ epoch' = epoch
    BY <1>1 DEF TypeOK, StoreKept
  <2>2. ep[p] \in 1..epoch[node[p]]
    BY DEF Inv, ProcInv, Started
  <2>3. ASSUME ~slipped', Keeps(p)'
        PROVE  /\ <<n, e>> \in lease' \intersect registry'
               /\ g <= Own(p)'
               /\ Cardinality(RunningOn(p)') + g <= u + Own(p)'
    <3>1. Keeps(p) /\ ~slipped
      BY <2>1, <2>3 DEF Keeps, FaultsKept
    <3>2. <<n, e>> \in lease' \intersect registry'
      BY <3>1 DEF Inv, ProcInv, StoreKept
    <3>3. Own(p)' = Account(n, e)'
      BY <2>1 DEF Own, Account
    <3>4. QED
      BY <1>2, <2>3, <3>1, <3>2, <3>3 DEF ObjectKept
  <2>4. QED
    BY <1>2, <2>1, <2>2, <2>3 DEF ProcInv
<1>8. QED
  BY <1>3, <1>4, <1>5, <1>6, <1>7 DEF Inv, StoreKept

\* What is known of a process that is up and of its account.
LEMMA UpFacts ==
    ASSUME Inv, NEW p \in Procs, ppc[p] = "up", NEW n, NEW e, n = node[p], e = ep[p]
    PROVE  /\ n \in Nodes /\ e \in Nat
           /\ grants[p] \in Nat /\ inUse[p] \in Nat /\ inUse[p] <= grants[p]
           /\ Account(n, e) \in Nat /\ Cardinality(RunningOn(p)) \in Nat
           /\ RunningOn(p) \in SUBSET Requests
           /\ ~slipped /\ Keeps(p) =>
                 /\ <<n, e>> \in lease \intersect registry
                 /\ grants[p] <= Account(n, e)
                 /\ Cardinality(RunningOn(p)) + grants[p] <= inUse[p] + Account(n, e)
           /\ ppc = [ppc EXCEPT ![p] = "up"]
           /\ grants = [grants EXCEPT ![p] = grants[p]] /\ inUse = [inUse EXCEPT ![p] = inUse[p]]
<1>1. n \in Nodes /\ e \in Nat /\ grants[p] \in Nat /\ inUse[p] \in Nat
  BY DEF Inv, TypeOK
<1>2. inUse[p] <= grants[p]
  BY DEF Inv, ProcInv
<1>3. Account(n, e) \in Nat /\ Own(p) = Account(n, e)
  BY <1>1 DEF Inv, TypeOK, StoreTypeOK, Account, Own
<1>4. RunningOn(p) \in SUBSET Requests
  BY DEF RunningOn
<1>5. Cardinality(RunningOn(p)) \in Nat
  BY <1>4, RequestSets
<1>6. ~slipped /\ Keeps(p) =>
         /\ <<n, e>> \in lease \intersect registry
         /\ grants[p] <= Account(n, e)
         /\ Cardinality(RunningOn(p)) + grants[p] <= inUse[p] + Account(n, e)
  BY <1>3 DEF Inv, ProcInv
<1>7. /\ ppc = [ppc EXCEPT ![p] = "up"]
      /\ grants = [grants EXCEPT ![p] = grants[p]] /\ inUse = [inUse EXCEPT ![p] = inUse[p]]
  BY DEF Inv, TypeOK
<1>8. QED
  BY <1>1, <1>2, <1>3, <1>4, <1>5, <1>6, <1>7

\* manager.Release
LEMMA ReturnEffect ==
    ASSUME TypeOK, Balanced, NEW p \in Procs, NEW n \in Nodes, NEW e \in Nat, n = node[p], e = ep[p],
           NEW permits \in Nat, NEW a \in Results, Return(p, permits, a)
    PROVE  /\ FaultsKept /\ StoreKept(n, e) /\ allocated' <= allocated /\ allocated' \in Nat
           /\ a = "ok" /\ permits <= Account(n, e) => Account(n, e)' = Account(n, e) - permits
           /\ a # "ok" /\ ~slipped' => Account(n, e)' = Account(n, e)
<1>1. StoreTypeOK /\ allocated \in Nat
  BY DEF TypeOK, StoreTypeOK
<1>2. CASE a = "ok" /\ Release(n, e, permits, TRUE) /\ Smooth
  <2>1. FaultsKept
    BY <1>2, FaultFacts DEF FaultsKept
  <2>2. QED
    BY <1>1, <1>2, <2>1, ReleaseEffect DEF StoreKept, StoreTypeOK
<1>3. CASE a = "fenced" /\ Release(n, e, permits, FALSE) /\ Smooth
  <2>1. FaultsKept
    BY <1>3, FaultFacts DEF FaultsKept
  <2>2. UNCHANGED store
    BY <1>1, <1>3, ReleaseEffect
  <2>3. QED
    BY <1>1, <1>3, <2>1, <2>2, StoreSame DEF StoreKept
<1>4. CASE a = "error" /\ Fault("error") /\ UNCHANGED store
  <2>1. FaultsKept
    BY <1>4, FaultFacts DEF FaultsKept
  <2>2. QED
    BY <1>1, <1>4, <2>1, StoreSame DEF StoreKept
<1>5. CASE a = "error" /\ Slip("late") /\ Release(n, e, permits, TRUE)
  <2>1. faults' \in 0..MaxFaults /\ slipped' = TRUE
    BY <1>5, FaultFacts DEF Slip
  <2>2. FaultsKept
    BY <2>1 DEF FaultsKept
  <2>3. QED
    BY <1>1, <1>5, <2>1, <2>2, ReleaseEffect DEF StoreKept, StoreTypeOK
<1>6. QED
  BY <1>2, <1>3, <1>4, <1>5 DEF Return

\* Requests change their state, not their process, and take no slot in Redis.
RequestsKept ==
    /\ RequestsTyped
    /\ \A x \in Requests : req'[x].at = "slot" => req[x].at = "slot"
    /\ \A x \in Requests : req'[x].proc \in Procs => req'[x].proc = req[x].proc

\* What is known of records and of requests.
LEMMA RecordFacts ==
    ASSUME Inv
    PROVE  /\ req \in [Requests -> Record]
           /\ \A x \in Requests : req[x].at \notin {"idle", "slot"} => req[x].proc \in Procs
           /\ Idle \in Record /\ Idle.proc = None /\ Idle.at = "idle" /\ Idle.limit = MaxLimit
           /\ None \notin Procs /\ MaxLimit \in Nat \ {0}
  BY EscrowAssumption DEF Inv, TypeOK, Idle, Record

\* One request is given a new record.
LEMMA RecordSet ==
    ASSUME Inv, NEW r \in Requests, NEW v \in Record, req' = [req EXCEPT ![r] = v],
           v.at # "slot", v.at # "idle" => v.proc \in Procs,
           v.proc \in Procs => v.proc = req[r].proc
    PROVE  /\ RequestsKept
           /\ v.at # "running" => \A q : RunningOn(q)' \subseteq RunningOn(q) \ {r}
           /\ \A q : RunningOn(q)' \subseteq RunningOn(q) \union {r}
           /\ \A q : q # v.proc => RunningOn(q)' \subseteq RunningOn(q)
<1>1. /\ req \in [Requests -> Record]
      /\ \A x \in Requests : req[x].at \notin {"idle", "slot"} => req[x].proc \in Procs
  BY RecordFacts
<1>2. req'[r] = v /\ \A x \in Requests \ {r} : req'[x] = req[x]
  BY <1>1
<1>3. req' \in [Requests -> Record]
  BY <1>1
<1>4. RequestsTyped
  BY <1>1, <1>2, <1>3 DEF RequestsTyped
<1>5. RequestsKept
  BY <1>1, <1>2, <1>4 DEF RequestsKept
<1>6. QED
  BY <1>2, <1>5 DEF RunningOn, At

\* A request that goes on to another state of Acquire.
LEMMA GoEffect ==
    ASSUME Inv, NEW r \in Requests, req[r].proc \in Procs, NEW s \in {"locked", "fallback"}, Go(r, s)
    PROVE  RequestsKept /\ \A q : RunningOn(q)' \subseteq RunningOn(q)
<1> DEFINE v == [at |-> s, proc |-> req[r].proc, limit |-> req[r].limit]
<1>1. req[r] \in Record
  BY RecordFacts
<1>2. v \in Record /\ v.at = s /\ v.proc = req[r].proc
  BY <1>1 DEF Record
<1>3. req' = [req EXCEPT ![r] = v]
  <2>1. [req[r] EXCEPT !.at = s] = v
    BY <1>1 DEF Record
  <2>2. req' = [req EXCEPT ![r] = [req[r] EXCEPT !.at = s]]
    BY DEF Go
  <2>3. QED
    BY <2>1, <2>2
<1> HIDE DEF v
<1>4. QED
  BY <1>2, <1>3, RecordSet

\* A request that ends.
LEMMA DoneEffect ==
    ASSUME Inv, NEW r \in Requests, Done(r)
    PROVE  RequestsKept /\ \A q : RunningOn(q)' \subseteq RunningOn(q) \ {r}
<1>1. Idle \in Record /\ Idle.proc \notin Procs /\ Idle.at = "idle"
  BY RecordFacts
<1>2. req' = [req EXCEPT ![r] = Idle]
  BY DEF Done
<1>3. QED
  BY <1>1, <1>2, RecordSet

\* A request that is admitted runs on its process.
LEMMA AdmittedEffect ==
    ASSUME Inv, NEW r \in Requests, req[r].proc \in Procs, Admitted(r)
    PROVE  /\ RequestsKept
           /\ \A q : RunningOn(q)' \subseteq RunningOn(q) \union {r}
           /\ \A q : q # req[r].proc => RunningOn(q)' \subseteq RunningOn(q)
<1> DEFINE v == [at |-> "running", proc |-> req[r].proc, limit |-> MaxLimit]
<1>1. MaxLimit \in 1..MaxLimit
  BY EscrowAssumption
<1>2. v \in Record /\ v.at = "running" /\ v.proc = req[r].proc
  BY <1>1 DEF Record
<1>3. req' = [req EXCEPT ![r] = v]
  BY DEF Admitted
<1> HIDE DEF v
<1>4. QED
  BY <1>2, <1>3, RecordSet

\* Eviction strands the requests that have fetched the object.
LEMMA EvictEffect ==
    ASSUME Inv, NEW p \in Procs, Evict(p)
    PROVE  RequestsKept /\ \A q : RunningOn(q)' \subseteq RunningOn(q)
<1>1. /\ req \in [Requests -> Record]
      /\ \A x \in Requests : req[x].at \notin {"idle", "slot"} => req[x].proc \in Procs
  BY RecordFacts
<1>2. ASSUME NEW x \in Requests
      PROVE  /\ req'[x] \in Record
             /\ req'[x].proc = req[x].proc
             /\ \/ req'[x].at = req[x].at
                \/ req[x].at = "entered" /\ req'[x].at = "stranded"
  <2>1. req[x] \in Record
    BY <1>1
  <2>2. /\ [req[x] EXCEPT !.at = "stranded"] \in Record
        /\ [req[x] EXCEPT !.at = "stranded"].proc = req[x].proc
        /\ [req[x] EXCEPT !.at = "stranded"].at = "stranded"
    BY <2>1 DEF Record
  <2>3. req'[x] = req[x] \/ (req[x].at = "entered" /\ req'[x] = [req[x] EXCEPT !.at = "stranded"])
    BY DEF Evict, At
  <2>4. QED
    BY <2>1, <2>2, <2>3
<1>3. req' \in [Requests -> Record]
  <2> DEFINE F(x) == IF At(x, "entered") /\ req[x].proc = p THEN [req[x] EXCEPT !.at = "stranded"] ELSE req[x]
  <2>1. req' = [x \in Requests |-> F(x)]
    BY DEF Evict
  <2>2. \A x \in Requests : F(x) \in Record
    <3> HIDE DEF F
    <3>1. \A x \in Requests : req'[x] = F(x)
      BY <2>1
    <3>2. QED
      BY <1>2, <3>1
  <2> HIDE DEF F
  <2>3. QED
    BY <2>1, <2>2
<1>4. RequestsKept
  BY <1>1, <1>2, <1>3 DEF RequestsKept, RequestsTyped
<1>5. \A q : RunningOn(q)' \subseteq RunningOn(q)
  BY <1>2 DEF RunningOn, At
<1>6. QED
  BY <1>4, <1>5

\* Requests that stay as they are
LEMMA SameRequests ==
    ASSUME Inv, UNCHANGED req
    PROVE  RequestsKept /\ \A q : RunningOn(q)' \subseteq RunningOn(q)
<1>1. /\ req \in [Requests -> Record]
      /\ \A x \in Requests : req[x].at \notin {"idle", "slot"} => req[x].proc \in Procs
  BY RecordFacts
<1>2. QED
  BY <1>1 DEF RequestsKept, RequestsTyped, RunningOn, At

\* Requests stay on processes that are up.
LEMMA HostsKept ==
    ASSUME Inv, RequestsKept, \A p \in Procs : ppc[p] = "up" /\ Busy(p) => ppc'[p] = "up"
    PROVE  Hosted'
  BY DEF Inv, Hosted, RequestsKept, Busy

\* Fewer requests hold a permit.
LEMMA FewerRunning ==
    ASSUME NEW p, RunningOn(p)' \subseteq RunningOn(p)
    PROVE  /\ Cardinality(RunningOn(p)') \in Nat /\ Cardinality(RunningOn(p)) \in Nat
           /\ Cardinality(RunningOn(p)') <= Cardinality(RunningOn(p))
<1>1. RunningOn(p) \in SUBSET Requests /\ RunningOn(p)' \in SUBSET Requests
  BY DEF RunningOn
<1>2. QED
  BY <1>1, RequestSets

\* A process returns permits that it does not use.
LEMMA ReturnStep ==
    ASSUME Inv, NEW p \in Procs, ppc[p] = "up", UNCHANGED <<node, ep, live, inUse>>,
           NEW s \in {"up", "closing"}, ppc' = [ppc EXCEPT ![p] = s], s = "closing" => ~Busy(p),
           mode' \in [Procs -> {"valid", "expired", "degraded"}],
           hb' \in [Procs -> {"runs", "last", "stopped"}],
           NEW permits \in Nat, permits <= grants[p] - inUse[p],
           NEW a \in Results, Return(p, permits, a),
           grants' = [grants EXCEPT ![p] = grants'[p]],
           grants'[p] = grants[p] - permits \/ (a # "ok" /\ grants'[p] = grants[p]),
           RequestsKept, \A q : RunningOn(q)' \subseteq RunningOn(q)
    PROVE  Inv'
<1>1. PICK n, e : n = node[p] /\ e = ep[p]
  OBVIOUS
<1> DEFINE g == grants'[p]
<1>2. /\ n \in Nodes /\ e \in Nat
      /\ grants[p] \in Nat /\ inUse[p] \in Nat /\ inUse[p] <= grants[p]
      /\ Account(n, e) \in Nat /\ Cardinality(RunningOn(p)) \in Nat
      /\ ~slipped /\ Keeps(p) =>
            /\ grants[p] <= Account(n, e)
            /\ Cardinality(RunningOn(p)) + grants[p] <= inUse[p] + Account(n, e)
      /\ inUse = [inUse EXCEPT ![p] = inUse[p]]
  BY <1>1, UpFacts
<1>3. TypeOK /\ Balanced
  BY DEF Inv
<1>4. /\ FaultsKept /\ StoreKept(n, e) /\ allocated' <= allocated /\ allocated' \in Nat
      /\ a = "ok" /\ permits <= Account(n, e) => Account(n, e)' = Account(n, e) - permits
      /\ a # "ok" /\ ~slipped' => Account(n, e)' = Account(n, e)
  BY <1>1, <1>2, <1>3, ReturnEffect
<1>5. Bounded'
  BY <1>3, <1>4, BoundedKept DEF Inv, RequestsKept
<1>6. Hosted'
  <2>1. \A q \in Procs : ppc[q] = "up" /\ Busy(q) => ppc'[q] = "up"
    BY <1>3 DEF TypeOK
  <2>2. QED
    BY <2>1, HostsKept
<1>7. ObjectKept(p, n, e)
  <2>1. grants'[p] = g /\ inUse'[p] = inUse[p]
    OBVIOUS
  <2>2. g \in Nat /\ inUse[p] <= g
    BY <1>2
  <2>3. Cardinality(RunningOn(p)') \in Nat /\ Cardinality(RunningOn(p)') <= Cardinality(RunningOn(p))
    BY FewerRunning
  <2>4. ASSUME ~slipped', Keeps(p)
        PROVE  /\ g <= Account(n, e)'
               /\ Cardinality(RunningOn(p)') + g <= inUse[p] + Account(n, e)'
    <3>1. ~slipped
      BY <1>4, <2>4 DEF FaultsKept
    <3>2. QED
      BY <1>2, <1>4, <2>3, <2>4, <3>1
  <2>5. QED
    BY <1>2, <2>1, <2>2, <2>4 DEF ObjectKept
<1>8. QED
  BY <1>1, <1>2, <1>4, <1>5, <1>6, <1>7, LocalStep DEF RequestsKept

\* The permits could not be returned.
LEMMA ReturnFailedStep ==
    ASSUME Inv, NEW p \in Procs, ppc[p] = "up", UNCHANGED <<ppc, node, ep, hb, live, inUse, grants>>,
           mode' \in [Procs -> {"valid", "expired", "degraded"}],
           NEW permits \in Nat, permits <= grants[p] - inUse[p],
           NEW a \in Results, Return(p, permits, a), a # "ok",
           RequestsKept, \A q : RunningOn(q)' \subseteq RunningOn(q)
    PROVE  Inv'
<1>1. /\ ppc' = [ppc EXCEPT ![p] = "up"] /\ grants' = [grants EXCEPT ![p] = grants'[p]]
      /\ hb' \in [Procs -> {"runs", "last", "stopped"}] /\ grants'[p] = grants[p]
  BY DEF Inv, TypeOK
<1>2. QED
  BY <1>1, ReturnStep

\* Unused permits are returned for a live call.
LEMMA ReturnUnusedStep ==
    ASSUME Inv, NEW p \in Procs, ReturnUnusedForLive(p)
    PROVE  Inv'
<1>1. ppc[p] = "up" /\ grants[p] - inUse[p] > 0 /\ UNCHANGED <<ppc, node, ep, mode, hb, live, inUse, req>>
  BY DEF ReturnUnusedForLive, process
<1>2. TypeOK /\ grants[p] \in Nat /\ inUse[p] \in Nat /\ ppc' = [ppc EXCEPT ![p] = "up"]
  BY <1>1 DEF Inv, TypeOK
<1> DEFINE unused == grants[p] - inUse[p]
<1>3. unused \in Nat /\ unused <= grants[p] - inUse[p]
  BY <1>1, <1>2
<1>4. PICK a \in Results :
          /\ Return(p, unused, a)
          /\ grants' = [grants EXCEPT ![p] = IF a = "ok" THEN grants[p] - unused ELSE grants[p]]
  BY DEF ReturnUnusedForLive
<1> HIDE DEF unused
<1>5. RequestsKept /\ \A q : RunningOn(q)' \subseteq RunningOn(q)
  BY <1>1, SameRequests
<1>6. mode' \in [Procs -> {"valid", "expired", "degraded"}] /\ hb' \in [Procs -> {"runs", "last", "stopped"}]
  BY <1>1, <1>2 DEF TypeOK
<1>7. /\ grants' = [grants EXCEPT ![p] = grants'[p]]
      /\ grants'[p] = grants[p] - unused \/ (a # "ok" /\ grants'[p] = grants[p])
  BY <1>2, <1>4 DEF TypeOK
<1>8. QED
  BY <1>1, <1>2, <1>3, <1>4, <1>5, <1>6, <1>7, ReturnStep

\* A step that changes nothing but the requests and the mode of a process
LEMMA RequestStep ==
    ASSUME Inv, UNCHANGED store, UNCHANGED <<ppc, node, ep, hb, live, grants, inUse>>,
           mode' \in [Procs -> {"valid", "expired", "degraded"}],
           FaultsKept, RequestsTyped, Bounded', Hosted', \A q : RunningOn(q)' \subseteq RunningOn(q)
    PROVE  Inv'
<1>1. TypeOK /\ Balanced /\ StoreTypeOK
  BY DEF Inv, TypeOK
<1>2. /\ StoreTypeOK' /\ Balanced' /\ (Found => Found')
      /\ UNCHANGED <<epoch, lease, registry, members, holder, allocated>>
  BY <1>1, StoreSame
<1>3. TypeOK'
  BY <1>1, <1>2 DEF TypeOK, FaultsKept, RequestsTyped, Record
<1>4. Registered' /\ Distinct'
  BY <1>2 DEF Inv, Registered, Distinct, FaultsKept
<1>5. ASSUME NEW q \in Procs
      PROVE  ProcInv(q)'
  <2>1. Untouched(q)
    BY DEF Untouched
  <2>2. epoch' \in [Nodes -> Nat] /\ \A m \in Nodes : epoch[m] <= epoch'[m]
    BY <1>1, <1>2 DEF StoreTypeOK
  <2>3. ASSUME ~slipped', Keeps(q)
        PROVE  <<node[q], ep[q]>> \in lease' \intersect registry' /\ Own(q)' = Own(q)
    <3>1. <<node[q], ep[q]>> \in lease \intersect registry
      BY <2>3 DEF Inv, ProcInv, FaultsKept
    <3>2. QED
      BY <1>2, <3>1 DEF Own, Account
  <2>4. QED
    BY <1>1, <2>1, <2>2, <2>3, UntouchedKept DEF Inv, FaultsKept
<1>6. QED
  BY <1>2, <1>3, <1>4, <1>5 DEF Inv

\* The same, if no request gets a slot or another process
LEMMA RequestKeptStep ==
    ASSUME Inv, UNCHANGED store, UNCHANGED <<ppc, node, ep, hb, live, grants, inUse>>,
           mode' \in [Procs -> {"valid", "expired", "degraded"}],
           FaultsKept, RequestsKept, \A q : RunningOn(q)' \subseteq RunningOn(q)
    PROVE  Inv'
<1>1. TypeOK /\ allocated' = allocated /\ allocated \in Nat
  BY DEF Inv, TypeOK, StoreTypeOK, store
<1>2. Bounded'
  BY <1>1, BoundedKept DEF Inv, RequestsKept
<1>3. Hosted'
  BY HostsKept
<1>4. QED
  BY <1>2, <1>3, RequestStep DEF RequestsKept

\* An idle object is returned and evicted.
LEMMA ReleaseIdleStep ==
    ASSUME Inv, NEW p \in Procs, ReleaseIdleState(p)
    PROVE  Inv'
<1>1. ppc[p] = "up" /\ inUse[p] = 0 /\ UNCHANGED <<ppc, node, ep, mode, hb, live, inUse>>
  BY DEF ReleaseIdleState, process
<1>2. TypeOK /\ grants[p] \in Nat /\ ppc' = [ppc EXCEPT ![p] = "up"]
  BY <1>1 DEF Inv, TypeOK
<1>3. mode' \in [Procs -> {"valid", "expired", "degraded"}] /\ hb' \in [Procs -> {"runs", "last", "stopped"}]
  BY <1>1, <1>2 DEF TypeOK
<1>4. CASE grants[p] = 0 /\ Smooth /\ Evict(p) /\ UNCHANGED <<store, grants>>
  <2>1. RequestsKept /\ \A q : RunningOn(q)' \subseteq RunningOn(q)
    BY <1>4, EvictEffect
  <2>2. FaultsKept
    BY <1>2, <1>4, FaultFacts DEF FaultsKept
  <2>3. QED
    BY <1>1, <1>3, <1>4, <2>1, <2>2, RequestKeptStep
<1>5. ASSUME NEW a \in Results, Return(p, grants[p], a), a = "ok",
             grants' = [grants EXCEPT ![p] = 0], Evict(p)
      PROVE  Inv'
  <2>1. RequestsKept /\ \A q : RunningOn(q)' \subseteq RunningOn(q)
    BY <1>5, EvictEffect
  <2>2. /\ grants' = [grants EXCEPT ![p] = grants'[p]] /\ grants'[p] = grants[p] - grants[p]
        /\ grants[p] <= grants[p] - inUse[p]
    BY <1>1, <1>2, <1>5 DEF TypeOK
  <2>3. QED
    BY <1>1, <1>2, <1>3, <1>5, <2>1, <2>2, ReturnStep
<1>6. ASSUME NEW a \in Results, Return(p, grants[p], a), a # "ok", UNCHANGED <<grants, req>>
      PROVE  Inv'
  <2>1. RequestsKept /\ \A q : RunningOn(q)' \subseteq RunningOn(q)
    BY <1>6, SameRequests
  <2>2. grants[p] <= grants[p] - inUse[p]
    BY <1>1, <1>2
  <2>3. QED
    BY <1>1, <1>2, <1>3, <1>6, <2>1, <2>2, ReturnFailedStep
<1>7. QED
  BY <1>4, <1>5, <1>6 DEF ReleaseIdleState

\* The object of p changes, and its account with it.
LEMMA ObjectStep ==
    ASSUME Inv, NEW p \in Procs, ppc[p] = "up", UNCHANGED <<node, ep>>, live' = live,
           NEW n, NEW e, n = node[p], e = ep[p],
           NEW s \in {"up", "closing"}, ppc' = [ppc EXCEPT ![p] = s], s = "closing" => ~Busy(p),
           mode' \in [Procs -> {"valid", "expired", "degraded"}],
           hb' \in [Procs -> {"runs", "last", "stopped"}],
           grants' = [grants EXCEPT ![p] = grants'[p]], inUse' = [inUse EXCEPT ![p] = inUse'[p]],
           FaultsKept, StoreKept(n, e), allocated' <= allocated \/ allocated' + live <= MaxLimit,
           RequestsKept, \A q \in Procs \ {p} : RunningOn(q)' \subseteq RunningOn(q),
           ObjectKept(p, n, e)
    PROVE  Inv'
<1>1. n \in Nodes /\ e \in Nat
  BY UpFacts
<1>2. TypeOK /\ allocated' \in Nat
  BY DEF Inv, StoreKept, StoreTypeOK
<1>3. Bounded'
  BY <1>2, BoundedKept DEF Inv, RequestsKept
<1>4. Hosted'
  <2>1. \A q \in Procs : ppc[q] = "up" /\ Busy(q) => ppc'[q] = "up"
    BY <1>2 DEF TypeOK
  <2>2. QED
    BY <2>1, HostsKept
<1>5. QED
  BY <1>1, <1>3, <1>4, LocalStep DEF RequestsKept

\* A store that stays as it is
LEMMA StoreUntouched ==
    ASSUME TypeOK, Balanced, UNCHANGED store, NEW n, NEW e
    PROVE  /\ StoreKept(n, e) /\ Account(n, e)' = Account(n, e)
           /\ allocated' = allocated /\ allocated \in Nat /\ allocated' <= allocated
<1>1. StoreTypeOK /\ allocated \in Nat
  BY DEF TypeOK, StoreTypeOK
<1>2. QED
  BY <1>1, StoreSame DEF StoreKept

\* Close returns the surplus, whatever the answer.
LEMMA CloseStep ==
    ASSUME Inv, NEW p \in Procs, Close(p)
    PROVE  Inv'
<1> DEFINE surplus == grants[p] - inUse[p]
<1>1. /\ ppc[p] = "up" /\ ~Busy(p) /\ ppc' = [ppc EXCEPT ![p] = "closing"]
      /\ hb' = [hb EXCEPT ![p] = "stopped"]
      /\ UNCHANGED <<node, ep, mode, live, inUse, req>>
  BY DEF Close
<1>2. TypeOK /\ Balanced /\ grants[p] \in Nat /\ inUse[p] \in Nat /\ inUse[p] <= grants[p]
  BY DEF Inv, TypeOK, ProcInv
<1>3. mode' \in [Procs -> {"valid", "expired", "degraded"}] /\ hb' \in [Procs -> {"runs", "last", "stopped"}]
  BY <1>1, <1>2 DEF TypeOK
<1>4. RequestsKept /\ \A q : RunningOn(q)' \subseteq RunningOn(q)
  BY <1>1, SameRequests
<1>5. CASE surplus <= 0 /\ Smooth /\ UNCHANGED <<store, grants>>
  <2>1. PICK n, e : n = node[p] /\ e = ep[p]
    OBVIOUS
  <2>2. FaultsKept
    BY <1>2, <1>5, FaultFacts DEF FaultsKept
  <2>3. /\ StoreKept(n, e) /\ Account(n, e)' = Account(n, e) /\ allocated' <= allocated
    BY <1>2, <1>5, StoreUntouched
  <2>4. grants' = [grants EXCEPT ![p] = grants'[p]] /\ inUse' = [inUse EXCEPT ![p] = inUse'[p]]
    BY <1>1, <1>2, <1>5 DEF TypeOK
  <2>5. ObjectKept(p, n, e)
    <3>1. Cardinality(RunningOn(p)') \in Nat /\ Cardinality(RunningOn(p)') <= Cardinality(RunningOn(p))
      BY <1>4, FewerRunning
    <3>2. /\ Account(n, e) \in Nat /\ Cardinality(RunningOn(p)) \in Nat
          /\ ~slipped /\ Keeps(p) =>
                /\ grants[p] <= Account(n, e)
                /\ Cardinality(RunningOn(p)) + grants[p] <= inUse[p] + Account(n, e)
      BY <1>1, <2>1, UpFacts
    <3>3. grants'[p] = grants[p] /\ inUse'[p] = inUse[p] /\ (~slipped' => ~slipped)
      BY <1>1, <1>5, <2>2 DEF FaultsKept
    <3>4. QED
      BY <1>2, <2>3, <3>1, <3>2, <3>3 DEF ObjectKept
  <2>6. QED
    BY <1>1, <1>3, <1>4, <2>1, <2>2, <2>3, <2>4, <2>5, ObjectStep
<1>6. ASSUME surplus > 0, NEW a \in Results, Return(p, surplus, a),
             grants' = [grants EXCEPT ![p] = grants[p] - surplus]
      PROVE  Inv'
  <2>1. surplus \in Nat /\ surplus <= grants[p] - inUse[p]
    BY <1>2, <1>6
  <2>2. grants' = [grants EXCEPT ![p] = grants'[p]] /\ grants'[p] = grants[p] - surplus
    BY <1>2, <1>6 DEF TypeOK
  <2> HIDE DEF surplus
  <2>3. QED
    BY <1>1, <1>3, <1>4, <1>6, <2>1, <2>2, ReturnStep
<1>7. QED
  BY <1>5, <1>6 DEF Close

-----------------------------------------------------------------------------
(* The steps of requests.                                                  *)

\* What Acquire knows of the object it has locked.
LEMMA LockedFacts ==
    ASSUME Inv, NEW r \in Requests, At(r, "entered") \/ Locked(r)
    PROVE  /\ req[r].proc \in Procs /\ ppc[req[r].proc] = "up"
           /\ req[r].limit \in 1..MaxLimit
           /\ Stock(r) \in Nat /\ Used(r) \in Nat
           /\ At(r, "stranded") => Stock(r) = 0 /\ Used(r) = 0
           /\ ~At(r, "stranded") => Stock(r) = grants[req[r].proc] /\ Used(r) = inUse[req[r].proc]
<1>1. req[r].at \notin {"idle", "slot"}
  BY DEF At, Locked
<1>2. req[r].proc \in Procs /\ ppc[req[r].proc] = "up"
  BY <1>1, HostFacts
<1>3. req[r] \in Record
  BY RecordFacts
<1>4. req[r].limit \in 1..MaxLimit
  BY <1>3 DEF Record
<1>5. grants[req[r].proc] \in Nat /\ inUse[req[r].proc] \in Nat
  BY <1>2 DEF Inv, TypeOK
<1>6. QED
  BY <1>2, <1>4, <1>5 DEF Stock, Used

\* Slots in Redis are taken below the limit.
LEMMA LegacyStep ==
    ASSUME Inv, NEW r \in Requests, NEW limit \in 1..MaxLimit, Legacy(r, limit),
           UNCHANGED store, UNCHANGED <<ppc, node, ep, hb, live, grants, inUse>>, Smooth,
           mode' \in [Procs -> {"valid", "expired", "degraded"}]
    PROVE  Inv'
<1>1. TypeOK
  BY DEF Inv
<1>2. FaultsKept
  BY <1>1, FaultFacts DEF FaultsKept
<1>3. /\ req \in [Requests -> Record]
      /\ \A x \in Requests : req[x].at \notin {"idle", "slot"} => req[x].proc \in Procs
      /\ Idle \in Record /\ Idle.proc = None /\ Idle.at = "idle" /\ Idle.limit = MaxLimit
      /\ None \notin Procs /\ MaxLimit \in Nat \ {0}
  BY RecordFacts
<1> DEFINE slot == [Idle EXCEPT !.at = "slot"]
           v == IF Regular + live < limit THEN slot ELSE Idle
<1>4. slot \in Record /\ slot.at = "slot" /\ slot.proc = None
  BY <1>3 DEF Record
<1>5. req' = [req EXCEPT ![r] = v]
  BY DEF Legacy
<1>6. v \in Record /\ v.at \in {"idle", "slot"} /\ v.proc = None /\ (v.at = "slot" => Regular + live < limit)
  BY <1>3, <1>4
<1> HIDE DEF v, slot
<1>7. req' \in [Requests -> Record] /\ req'[r] = v /\ \A x \in Requests \ {r} : req'[x] = req[x]
  BY <1>3, <1>5, <1>6
<1>8. RequestsTyped
  BY <1>3, <1>6, <1>7 DEF RequestsTyped
<1>9. Hosted'
  BY <1>3, <1>6, <1>7 DEF Inv, Hosted
<1>10. \A q : RunningOn(q)' \subseteq RunningOn(q)
  BY <1>6, <1>7 DEF RunningOn, At
<1>11. Bounded'
  <2> DEFINE S == {x \in Requests : req[x].at = "slot"}
  <2>1. S \in SUBSET Requests /\ S' \in SUBSET Requests /\ S' \subseteq S \union {r}
    BY <1>7
  <2>2. v.at = "idle" => S' \subseteq S
    BY <1>7
  <2>3. Regular = Cardinality(S) /\ Regular' = Cardinality(S')
    BY DEF Regular
  <2> HIDE DEF S
  <2>4. /\ Cardinality(S) \in Nat /\ Cardinality(S') \in Nat
        /\ Cardinality(S') <= Cardinality(S) + 1
        /\ v.at = "idle" => Cardinality(S') <= Cardinality(S)
    BY <2>1, <2>2, RequestSets
  <2>5. live \in Nat /\ allocated \in Nat /\ allocated' = allocated /\ limit \in Nat /\ limit <= MaxLimit
    BY <1>1, <1>3 DEF TypeOK, StoreTypeOK, store
  <2>6. allocated + live <= MaxLimit /\ Regular + live <= MaxLimit
    BY DEF Inv, Bounded
  <2>7. Regular' + live <= MaxLimit
    BY <1>3, <1>6, <2>3, <2>4, <2>5, <2>6
  <2>8. QED
    BY <2>5, <2>6, <2>7 DEF Bounded
<1>12. QED
  BY <1>2, <1>8, <1>9, <1>10, <1>11, RequestStep

\* degradeEscrow
LEMMA DegradeType ==
    ASSUME TypeOK, NEW p \in Procs, Degrade(p)
    PROVE  mode' \in [Procs -> {"valid", "expired", "degraded"}]
  BY DEF TypeOK, Degrade

\* A request enters, or falls back to a slot in Redis.
LEMMA AcquireUserSlotStep ==
    ASSUME Inv, NEW r \in Requests, NEW p \in Procs, NEW limit \in Limits, AcquireUserSlot(r, p, limit)
    PROVE  Inv'
<1>1. TypeOK /\ limit \in 1..MaxLimit
  BY EscrowAssumption DEF Inv
<1>2. /\ At(r, "idle") /\ ppc[p] = "up" /\ Smooth /\ UNCHANGED store
      /\ UNCHANGED <<ppc, node, ep, hb, live, grants, inUse>>
  BY DEF AcquireUserSlot
<1>3. CASE Degrade(p) /\ Legacy(r, limit)
  BY <1>1, <1>2, <1>3, DegradeType, LegacyStep
<1>4. CASE /\ req' = [req EXCEPT ![r] = [at |-> "entered", proc |-> p, limit |-> limit]]
           /\ UNCHANGED mode
  <2> DEFINE v == [at |-> "entered", proc |-> p, limit |-> limit]
  <2>1. v \in Record /\ v.at = "entered" /\ v.proc = p
    BY <1>1 DEF Record
  <2>2. req' = [req EXCEPT ![r] = v]
    BY <1>4
  <2> HIDE DEF v
  <2>3. /\ req \in [Requests -> Record]
        /\ \A x \in Requests : req[x].at \notin {"idle", "slot"} => req[x].proc \in Procs
    BY RecordFacts
  <2>4. req' \in [Requests -> Record] /\ req'[r] = v /\ \A x \in Requests \ {r} : req'[x] = req[x]
    BY <2>1, <2>2, <2>3
  <2>5. RequestsTyped
    BY <2>1, <2>3, <2>4 DEF RequestsTyped
  <2>6. Hosted'
    BY <1>2, <2>1, <2>4 DEF Inv, Hosted
  <2>7. \A q : RunningOn(q)' \subseteq RunningOn(q)
    BY <2>1, <2>4 DEF RunningOn, At
  <2>8. Bounded'
    <3>1. \A x \in Requests : req'[x].at = "slot" => req[x].at = "slot"
      BY <2>1, <2>4
    <3>2. allocated' \in Nat /\ allocated' <= allocated
      BY <1>1, <1>2 DEF TypeOK, StoreTypeOK, store
    <3>3. QED
      BY <1>1, <1>2, <3>1, <3>2, BoundedKept DEF Inv
  <2>9. FaultsKept /\ mode' \in [Procs -> {"valid", "expired", "degraded"}]
    BY <1>1, <1>2, <1>4, FaultFacts DEF FaultsKept, TypeOK
  <2>10. QED
    BY <1>2, <2>5, <2>6, <2>7, <2>8, <2>9, RequestStep
<1>5. QED
  BY <1>3, <1>4 DEF AcquireUserSlot

\* The fallback after a fenced call.
LEMMA AcquireLegacyStep ==
    ASSUME Inv, NEW r \in Requests, AcquireLegacy(r)
    PROVE  Inv'
<1>1. /\ Legacy(r, req[r].limit) /\ Smooth /\ UNCHANGED store
      /\ UNCHANGED <<ppc, node, ep, mode, hb, live, grants, inUse>>
  BY DEF AcquireLegacy, process, object
<1>2. req[r] \in Record
  BY RecordFacts
<1>3. PICK limit \in 1..MaxLimit : limit = req[r].limit
  BY <1>2 DEF Record
<1>4. mode' \in [Procs -> {"valid", "expired", "degraded"}]
  BY <1>1 DEF Inv, TypeOK
<1>5. QED
  BY <1>1, <1>3, <1>4, LegacyStep

\* A refusal changes the request only.
LEMMA AcquireRefusesStep ==
    ASSUME Inv, NEW r \in Requests, AcquireRefuses(r)
    PROVE  Inv'
<1>1. /\ Done(r) /\ Smooth /\ UNCHANGED store
      /\ UNCHANGED <<ppc, node, ep, mode, hb, live, grants, inUse>>
  BY DEF AcquireRefuses, process, object
<1>2. FaultsKept /\ mode' \in [Procs -> {"valid", "expired", "degraded"}]
  BY <1>1, FaultFacts DEF Inv, FaultsKept, TypeOK
<1>3. RequestsKept /\ \A q : RunningOn(q)' \subseteq RunningOn(q)
  BY <1>1, DoneEffect
<1>4. QED
  BY <1>1, <1>2, <1>3, RequestKeptStep

\* Permits above a reduced limit are returned, or the call fails.
LEMMA AcquireReturnsExcessStep ==
    ASSUME Inv, NEW r \in Requests, AcquireReturnsExcess(r)
    PROVE  Inv'
<1>1. PICK p \in Procs : p = req[r].proc /\ ppc[p] = "up"
  BY LockedFacts DEF AcquireReturnsExcess
<1>2. /\ At(r, "entered") /\ Excess(r) > 0 /\ UNCHANGED <<ppc, node, ep, hb, live, inUse>>
  BY DEF AcquireReturnsExcess
<1>3. /\ TypeOK /\ grants[p] \in Nat /\ inUse[p] \in Nat /\ inUse[p] <= grants[p]
      /\ ppc' = [ppc EXCEPT ![p] = "up"]
  BY <1>1, <1>2 DEF Inv, TypeOK, ProcInv
<1>4. Excess(r) \in Nat /\ Excess(r) <= grants[p] - inUse[p]
  <2>1. Stock(r) = grants[p] /\ Used(r) = inUse[p] /\ req[r].limit \in 1..MaxLimit
    BY <1>1, <1>2, LockedFacts DEF At
  <2>2. QED
    BY <1>2, <1>3, <2>1 DEF Excess
<1>5. PICK permits \in Nat : permits = Excess(r) /\ permits <= grants[p] - inUse[p]
  BY <1>4
<1>6. hb' \in [Procs -> {"runs", "last", "stopped"}]
  BY <1>2, <1>3 DEF TypeOK
<1>7. ASSUME NEW a \in Results, Return(p, permits, a), a = "ok", Go(r, "locked"),
             grants' = [grants EXCEPT ![p] = grants[p] - permits], UNCHANGED mode
      PROVE  Inv'
  <2>1. RequestsKept /\ \A q : RunningOn(q)' \subseteq RunningOn(q)
    BY <1>1, <1>7, GoEffect
  <2>2. mode' \in [Procs -> {"valid", "expired", "degraded"}]
    BY <1>3, <1>7 DEF TypeOK
  <2>3. grants' = [grants EXCEPT ![p] = grants'[p]] /\ grants'[p] = grants[p] - permits
    BY <1>3, <1>7 DEF TypeOK
  <2>4. Return(p, permits, a) /\ UNCHANGED <<node, ep, live, inUse>>
    BY <1>2, <1>7
  <2>5. QED
    BY <1>1, <1>3, <1>5, <1>6, <2>1, <2>2, <2>3, <2>4, ReturnStep
<1>8. ASSUME NEW a \in Results, Return(p, permits, a), a = "fenced", Degrade(p), Go(r, "fallback"),
             UNCHANGED grants
      PROVE  Inv'
  <2>1. RequestsKept /\ \A q : RunningOn(q)' \subseteq RunningOn(q)
    BY <1>1, <1>8, GoEffect
  <2>2. mode' \in [Procs -> {"valid", "expired", "degraded"}]
    BY <1>3, <1>8, DegradeType
  <2>3. a # "ok" /\ Return(p, permits, a) /\ UNCHANGED <<ppc, node, ep, hb, live, inUse, grants>>
    BY <1>2, <1>8
  <2>4. QED
    BY <1>1, <1>5, <2>1, <2>2, <2>3, ReturnFailedStep
<1>9. ASSUME NEW a \in Results, Return(p, permits, a), a = "error", Done(r), UNCHANGED <<mode, grants>>
      PROVE  Inv'
  <2>1. RequestsKept /\ \A q : RunningOn(q)' \subseteq RunningOn(q)
    BY <1>9, DoneEffect
  <2>2. mode' \in [Procs -> {"valid", "expired", "degraded"}]
    BY <1>3, <1>9 DEF TypeOK
  <2>3. a # "ok" /\ Return(p, permits, a) /\ UNCHANGED <<ppc, node, ep, hb, live, inUse, grants>>
    BY <1>2, <1>9
  <2>4. QED
    BY <1>1, <1>5, <2>1, <2>2, <2>3, ReturnFailedStep
<1>10. PICK a \in Results :
          /\ Return(p, permits, a)
          /\ \/ /\ a = "ok" /\ Go(r, "locked")
                /\ grants' = [grants EXCEPT ![p] = grants[p] - permits]
                /\ UNCHANGED mode
             \/ a = "fenced" /\ Degrade(p) /\ Go(r, "fallback") /\ UNCHANGED grants
             \/ a = "error" /\ Done(r) /\ UNCHANGED <<mode, grants>>
  BY <1>1, <1>5 DEF AcquireReturnsExcess
<1>11. QED
  BY <1>7, <1>8, <1>9, <1>10

\* The object when Acquire has finished with it
LEMMA SetObjectEffect ==
    ASSUME Inv, NEW r \in Requests, Locked(r), NEW stock \in Nat, NEW use \in Nat,
           SetObject(r, stock, use), NEW p \in Procs, p = req[r].proc
    PROVE  /\ grants' = [grants EXCEPT ![p] = grants'[p]] /\ inUse' = [inUse EXCEPT ![p] = inUse'[p]]
           /\ At(r, "stranded") => grants'[p] = grants[p] /\ inUse'[p] = inUse[p]
           /\ ~At(r, "stranded") => grants'[p] = stock /\ inUse'[p] = use
<1>1. grants \in [Procs -> Nat] /\ inUse \in [Procs -> Nat]
  BY DEF Inv, TypeOK
<1>2. CASE At(r, "stranded") /\ UNCHANGED object
  BY <1>1, <1>2 DEF object
<1>3. CASE /\ ~At(r, "stranded")
           /\ grants' = [grants EXCEPT ![p] = stock]
           /\ inUse' = [inUse EXCEPT ![p] = use]
  BY <1>1, <1>3
<1>4. QED
  BY <1>2, <1>3 DEF SetObject

\* One more request holds a permit, at most.
LEMMA OneMoreRunning ==
    ASSUME NEW p, NEW r \in Requests, RunningOn(p)' \subseteq RunningOn(p) \union {r}
    PROVE  /\ Cardinality(RunningOn(p)') \in Nat /\ Cardinality(RunningOn(p)) \in Nat
           /\ Cardinality(RunningOn(p)') <= Cardinality(RunningOn(p)) + 1
<1>1. RunningOn(p) \in SUBSET Requests /\ RunningOn(p)' \in SUBSET Requests
  BY DEF RunningOn
<1>2. QED
  BY <1>1, RequestSets

\* A request is admitted from the stock of its process.
LEMMA AcquireAdmitsStep ==
    ASSUME Inv, NEW r \in Requests, AcquireAdmits(r)
    PROVE  Inv'
<1>1. PICK p, n, e : p \in Procs /\ p = req[r].proc /\ ppc[p] = "up" /\ n = node[p] /\ e = ep[p]
  BY LockedFacts DEF AcquireAdmits
<1>2. /\ Locked(r) /\ Used(r) < Usable(r) /\ SetObject(r, Stock(r), Used(r) + 1)
      /\ Admitted(r) /\ Smooth /\ UNCHANGED store /\ UNCHANGED <<ppc, node, ep, mode, hb, live>>
  BY DEF AcquireAdmits, process
<1>3. /\ TypeOK /\ Balanced
      /\ mode' \in [Procs -> {"valid", "expired", "degraded"}] /\ hb' \in [Procs -> {"runs", "last", "stopped"}]
      /\ ppc' = [ppc EXCEPT ![p] = "up"]
  BY <1>1, <1>2 DEF Inv, TypeOK
<1>4. FaultsKept
  BY <1>2, <1>3, FaultFacts DEF FaultsKept
<1>5. StoreKept(n, e) /\ Account(n, e)' = Account(n, e) /\ allocated' <= allocated
  BY <1>2, <1>3, StoreUntouched
<1>6. /\ RequestsKept
      /\ \A q \in Procs \ {p} : RunningOn(q)' \subseteq RunningOn(q)
      /\ RunningOn(p)' \subseteq RunningOn(p) \union {r}
  BY <1>1, <1>2, AdmittedEffect
<1>7. /\ req[r].limit \in 1..MaxLimit
      /\ Stock(r) \in Nat /\ Used(r) \in Nat
      /\ At(r, "stranded") => Stock(r) = 0 /\ Used(r) = 0
      /\ ~At(r, "stranded") => Stock(r) = grants[p] /\ Used(r) = inUse[p]
  BY <1>1, <1>2, LockedFacts
<1>8. ~At(r, "stranded") /\ inUse[p] < grants[p]
  BY <1>2, <1>7 DEF Usable, Lesser
<1>9. /\ grants' = [grants EXCEPT ![p] = grants'[p]] /\ inUse' = [inUse EXCEPT ![p] = inUse'[p]]
      /\ grants'[p] = grants[p] /\ inUse'[p] = inUse[p] + 1
  BY <1>1, <1>2, <1>7, <1>8, SetObjectEffect
<1>10. ObjectKept(p, n, e)
  <2>1. /\ Cardinality(RunningOn(p)') \in Nat
        /\ Cardinality(RunningOn(p)') <= Cardinality(RunningOn(p)) + 1
    BY <1>6, OneMoreRunning
  <2>2. /\ grants[p] \in Nat /\ inUse[p] \in Nat
        /\ Account(n, e) \in Nat /\ Cardinality(RunningOn(p)) \in Nat
        /\ ~slipped /\ Keeps(p) =>
              /\ grants[p] <= Account(n, e)
              /\ Cardinality(RunningOn(p)) + grants[p] <= inUse[p] + Account(n, e)
    BY <1>1, UpFacts
  <2>3. ~slipped' => ~slipped
    BY <1>4 DEF FaultsKept
  <2>4. QED
    BY <1>5, <1>8, <1>9, <2>1, <2>2, <2>3 DEF ObjectKept
<1>11. QED
  BY <1>1, <1>2, <1>3, <1>4, <1>5, <1>6, <1>9, <1>10, ObjectStep

\* The end of a request, of whichever object is in the map.
LEMMA ReleaseUserSlotStep ==
    ASSUME Inv, NEW r \in Requests, ReleaseUserSlot(r)
    PROVE  Inv'
<1>1. Done(r) /\ Smooth /\ UNCHANGED store /\ UNCHANGED <<ppc, node, ep, mode, hb, live, grants>>
  BY DEF ReleaseUserSlot, process
<1>2. /\ TypeOK /\ Balanced
      /\ mode' \in [Procs -> {"valid", "expired", "degraded"}] /\ hb' \in [Procs -> {"runs", "last", "stopped"}]
  BY <1>1 DEF Inv, TypeOK
<1>3. FaultsKept
  BY <1>1, <1>2, FaultFacts DEF FaultsKept
<1>4. RequestsKept /\ \A q : RunningOn(q)' \subseteq RunningOn(q) \ {r}
  BY <1>1, DoneEffect
<1>5. CASE UNCHANGED inUse
  <2>1. \A q : RunningOn(q)' \subseteq RunningOn(q)
    BY <1>4
  <2>2. QED
    BY <1>1, <1>2, <1>3, <1>4, <1>5, <2>1, RequestKeptStep
<1>6. CASE At(r, "running") /\ inUse' = [inUse EXCEPT ![req[r].proc] = Floor(@ - 1)]
  <2>1. PICK p, n, e : p \in Procs /\ p = req[r].proc /\ ppc[p] = "up" /\ n = node[p] /\ e = ep[p]
    BY <1>6, HostFacts DEF At
  <2>2. StoreKept(n, e) /\ Account(n, e)' = Account(n, e) /\ allocated' <= allocated
    BY <1>1, <1>2, StoreUntouched
  <2>3. /\ grants[p] \in Nat /\ inUse[p] \in Nat /\ inUse[p] <= grants[p]
        /\ Account(n, e) \in Nat /\ Cardinality(RunningOn(p)) \in Nat
        /\ ~slipped /\ Keeps(p) =>
              /\ grants[p] <= Account(n, e)
              /\ Cardinality(RunningOn(p)) + grants[p] <= inUse[p] + Account(n, e)
    BY <2>1, UpFacts
  <2>4. /\ grants' = [grants EXCEPT ![p] = grants'[p]] /\ inUse' = [inUse EXCEPT ![p] = inUse'[p]]
        /\ grants'[p] = grants[p] /\ inUse'[p] = Floor(inUse[p] - 1)
        /\ ppc' = [ppc EXCEPT ![p] = "up"]
    <3>1. PICK u : u = Floor(inUse[p] - 1)
      OBVIOUS
    <3>2. inUse' = [inUse EXCEPT ![p] = u]
      BY <1>6, <2>1, <3>1
    <3>3. inUse'[p] = u /\ inUse' = [inUse EXCEPT ![p] = inUse'[p]]
      BY <2>1, <1>2, <3>2 DEF TypeOK
    <3>4. /\ grants' = [grants EXCEPT ![p] = grants'[p]] /\ grants'[p] = grants[p]
          /\ ppc' = [ppc EXCEPT ![p] = "up"]
      BY <1>1, <1>2, <2>1 DEF TypeOK
    <3>5. QED
      BY <3>1, <3>3, <3>4
  <2>5. Cardinality(RunningOn(p)') \in Nat /\ Cardinality(RunningOn(p)') + 1 <= Cardinality(RunningOn(p))
    <3>1. r \in RunningOn(p) /\ RunningOn(p)' \subseteq RunningOn(p) \ {r}
      BY <1>4, <1>6, <2>1 DEF RunningOn
    <3>2. RunningOn(p) \in SUBSET Requests /\ RunningOn(p)' \in SUBSET Requests
      BY DEF RunningOn
    <3>3. QED
      BY <3>1, <3>2, RequestSets
  <2>6. ObjectKept(p, n, e)
    <3>1. ~slipped' => ~slipped
      BY <1>3 DEF FaultsKept
    <3>2. inUse'[p] \in Nat /\ inUse'[p] <= inUse[p] /\ inUse[p] <= inUse'[p] + 1
      BY <2>3, <2>4 DEF Floor
    <3>3. QED
      BY <2>2, <2>3, <2>4, <2>5, <3>1, <3>2 DEF ObjectKept
  <2>7. \A q \in Procs \ {p} : RunningOn(q)' \subseteq RunningOn(q)
    BY <1>4
  <2>8. QED
    BY <1>1, <1>2, <1>3, <1>4, <2>1, <2>2, <2>4, <2>6, <2>7, ObjectStep
<1>7. QED
  BY <1>5, <1>6 DEF ReleaseUserSlot

\* A script has lent permits to p: its object takes them, or it never learns.
LEMMA GrantedStep ==
    ASSUME Inv, NEW r \in Requests, Locked(r), NEW p \in Procs, p = req[r].proc,
           NEW request \in Nat, NEW granted,
           Grant(node[p], ep[p], request, req[r].limit, live, granted),
           FaultsKept, UNCHANGED <<ppc, node, ep, mode, hb, live>>,
           grants' = [grants EXCEPT ![p] = grants'[p]], inUse' = [inUse EXCEPT ![p] = inUse'[p]],
           grants'[p] \in Nat, inUse'[p] \in Nat, inUse'[p] <= grants'[p],
           grants'[p] <= grants[p] + granted,
           \/ /\ Done(r) /\ grants'[p] - grants[p] <= inUse'[p] - inUse[p] + granted
           \/ /\ Admitted(r) /\ 1 + grants'[p] - grants[p] <= inUse'[p] - inUse[p] + granted
    PROVE  Inv'
<1>1. PICK n, e : n = node[p] /\ e = ep[p]
  OBVIOUS
<1>2. PICK limit \in 1..MaxLimit : limit = req[r].limit
  BY LockedFacts
<1>3. /\ TypeOK /\ Balanced /\ StoreTypeOK /\ live \in Nat /\ limit \in Nat /\ limit <= MaxLimit
      /\ ppc[p] = "up" /\ ppc' = [ppc EXCEPT ![p] = "up"]
      /\ mode' \in [Procs -> {"valid", "expired", "degraded"}] /\ hb' \in [Procs -> {"runs", "last", "stopped"}]
  <2>1. ppc[p] = "up"
    BY LockedFacts
  <2>2. QED
    BY <1>2, <2>1 DEF Inv, TypeOK
<1>4. /\ n \in Nodes /\ e \in Nat
      /\ grants[p] \in Nat /\ inUse[p] \in Nat /\ inUse[p] <= grants[p]
      /\ Account(n, e) \in Nat /\ Cardinality(RunningOn(p)) \in Nat
      /\ ~slipped /\ Keeps(p) =>
            /\ <<n, e>> \in lease \intersect registry
            /\ grants[p] <= Account(n, e)
            /\ Cardinality(RunningOn(p)) + grants[p] <= inUse[p] + Account(n, e)
  BY <1>1, <1>3, UpFacts
<1>5. Grant(n, e, request, limit, live, granted)
  BY <1>1, <1>2
<1>6. /\ StoreTypeOK' /\ Balanced' /\ granted \in Nat
      /\ allocated' <= allocated \/ allocated' + live <= limit
      /\ UNCHANGED <<epoch, lease, registry>>
      /\ epoch[n] = e /\ <<n, e>> \in lease
      /\ Account(n, e)' = Account(n, e) + granted
      /\ OthersSame(n, e)
      /\ Found /\ <<n, e>> \in registry => Found'
  BY <1>3, <1>4, <1>5, GrantEffect
<1>7. StoreKept(n, e)
  <2>1. Keeps(p)
    BY <1>1, <1>3, <1>6 DEF Keeps
  <2>2. QED
    BY <1>4, <1>6, <2>1 DEF StoreKept, FaultsKept
<1>8. allocated' <= allocated \/ allocated' + live <= MaxLimit
  <2>1. live \in Nat /\ limit \in Nat /\ limit <= MaxLimit /\ allocated' \in Nat /\ MaxLimit \in Nat
    BY <1>3, <1>6, EscrowAssumption DEF StoreTypeOK
  <2>2. PICK a \in Nat, v \in Nat : a = allocated' /\ v = live
    BY <2>1
  <2>3. CASE allocated' + live <= limit
    <3>1. a + v <= limit
      BY <2>2, <2>3
    <3>2. a + v <= MaxLimit
      BY ONLY <2>1, <3>1
    <3>3. QED
      BY <2>2, <3>2
  <2>4. QED
    BY <1>6, <2>3
<1>9. CASE Done(r) /\ grants'[p] - grants[p] <= inUse'[p] - inUse[p] + granted
  <2>1. RequestsKept /\ \A q : RunningOn(q)' \subseteq RunningOn(q)
    BY <1>9, DoneEffect
  <2>2. Cardinality(RunningOn(p)') \in Nat /\ Cardinality(RunningOn(p)') <= Cardinality(RunningOn(p))
    BY <2>1, FewerRunning
  <2>3. ~slipped' => ~slipped
    BY DEF FaultsKept
  <2>4. ObjectKept(p, n, e)
    BY <1>4, <1>6, <1>9, <2>2, <2>3 DEF ObjectKept
  <2>5. QED
    BY <1>1, <1>3, <1>7, <1>8, <2>1, <2>4, ObjectStep
<1>10. CASE Admitted(r) /\ 1 + grants'[p] - grants[p] <= inUse'[p] - inUse[p] + granted
  <2>1. /\ RequestsKept
        /\ \A q \in Procs \ {p} : RunningOn(q)' \subseteq RunningOn(q)
        /\ RunningOn(p)' \subseteq RunningOn(p) \union {r}
    BY <1>10, AdmittedEffect
  <2>2. Cardinality(RunningOn(p)') \in Nat /\ Cardinality(RunningOn(p)') <= Cardinality(RunningOn(p)) + 1
    BY <2>1, OneMoreRunning
  <2>3. ~slipped' => ~slipped
    BY DEF FaultsKept
  <2>4. ObjectKept(p, n, e)
    BY <1>4, <1>6, <1>10, <2>2, <2>3 DEF ObjectKept
  <2>5. QED
    BY <1>1, <1>3, <1>7, <1>8, <2>1, <2>4, ObjectStep
<1>11. QED
  BY <1>9, <1>10

\* Acquire asks the store: it is lent permits, fenced, or gets no answer.
LEMMA AcquireGrantsStep ==
    ASSUME Inv, NEW r \in Requests, AcquireGrants(r)
    PROVE  Inv'
<1>1. PICK p, n, e : p \in Procs /\ p = req[r].proc /\ ppc[p] = "up" /\ n = node[p] /\ e = ep[p]
  BY LockedFacts DEF AcquireGrants
<1>2. /\ Locked(r) /\ Request(r) > 0 /\ UNCHANGED <<ppc, node, ep, hb, live>>
  BY DEF AcquireGrants
<1>3. /\ req[r].limit \in 1..MaxLimit
      /\ Stock(r) \in Nat /\ Used(r) \in Nat
      /\ At(r, "stranded") => Stock(r) = 0 /\ Used(r) = 0
      /\ ~At(r, "stranded") => Stock(r) = grants[p] /\ Used(r) = inUse[p]
  BY <1>1, <1>2, LockedFacts
<1>4. PICK request \in Nat : request = Request(r)
  BY <1>2, <1>3, EscrowAssumption DEF Request, Lesser
<1>5. /\ TypeOK /\ Balanced /\ StoreTypeOK
      /\ grants[p] \in Nat /\ inUse[p] \in Nat /\ inUse[p] <= grants[p]
      /\ hb' \in [Procs -> {"runs", "last", "stopped"}]
  BY <1>1, <1>2 DEF Inv, TypeOK, ProcInv
<1>6. ASSUME NEW granted \in 0..MaxLimit,
             Grant(node[p], ep[p], request, req[r].limit, live, granted), Smooth,
             Used(r) < Lesser(Stock(r) + granted, req[r].limit),
             SetObject(r, Stock(r) + granted, Used(r) + 1), Admitted(r), UNCHANGED mode
      PROVE  Inv'
  <2>1. FaultsKept
    BY <1>5, <1>6, FaultFacts DEF FaultsKept
  <2>2. granted \in Nat /\ Stock(r) + granted \in Nat /\ Used(r) + 1 \in Nat /\ Used(r) < Stock(r) + granted
    BY <1>3, <1>6, EscrowAssumption DEF Lesser
  <2>3. /\ grants' = [grants EXCEPT ![p] = grants'[p]] /\ inUse' = [inUse EXCEPT ![p] = inUse'[p]]
        /\ At(r, "stranded") => grants'[p] = grants[p] /\ inUse'[p] = inUse[p]
        /\ ~At(r, "stranded") => grants'[p] = Stock(r) + granted /\ inUse'[p] = Used(r) + 1
    BY <1>1, <1>2, <1>6, <2>2, SetObjectEffect
  <2>4. /\ grants'[p] \in Nat /\ inUse'[p] \in Nat /\ inUse'[p] <= grants'[p]
        /\ grants'[p] <= grants[p] + granted
        /\ 1 + grants'[p] - grants[p] <= inUse'[p] - inUse[p] + granted
    BY <1>3, <1>5, <2>2, <2>3
  <2>5. UNCHANGED <<ppc, node, ep, mode, hb, live>>
    BY <1>2, <1>6
  <2>6. QED
    BY <1>1, <1>2, <1>6, <2>1, <2>3, <2>4, <2>5, GrantedStep
<1>7. ASSUME NEW granted \in 0..MaxLimit,
             Grant(node[p], ep[p], request, req[r].limit, live, granted), Smooth,
             SetObject(r, Stock(r) + granted, Used(r)), Done(r), UNCHANGED mode
      PROVE  Inv'
  <2>1. FaultsKept
    BY <1>5, <1>7, FaultFacts DEF FaultsKept
  <2>2. granted \in Nat /\ Stock(r) + granted \in Nat
    BY <1>3, <1>7, EscrowAssumption
  <2>3. /\ grants' = [grants EXCEPT ![p] = grants'[p]] /\ inUse' = [inUse EXCEPT ![p] = inUse'[p]]
        /\ At(r, "stranded") => grants'[p] = grants[p] /\ inUse'[p] = inUse[p]
        /\ ~At(r, "stranded") => grants'[p] = Stock(r) + granted /\ inUse'[p] = Used(r)
    BY <1>1, <1>2, <1>3, <1>7, <2>2, SetObjectEffect
  <2>4. /\ grants'[p] \in Nat /\ inUse'[p] \in Nat /\ inUse'[p] <= grants'[p]
        /\ grants'[p] <= grants[p] + granted
        /\ grants'[p] - grants[p] <= inUse'[p] - inUse[p] + granted
    BY <1>3, <1>5, <2>2, <2>3
  <2>5. UNCHANGED <<ppc, node, ep, mode, hb, live>>
    BY <1>2, <1>7
  <2>6. QED
    BY <1>1, <1>2, <1>7, <2>1, <2>3, <2>4, <2>5, GrantedStep
<1>8. ASSUME NEW granted \in 0..MaxLimit,
             Grant(node[p], ep[p], request, req[r].limit, live, granted), Fault("late"),
             Done(r), UNCHANGED <<object, mode>>
      PROVE  Inv'
  <2>1. FaultsKept
    BY <1>5, <1>8, FaultFacts DEF FaultsKept
  <2>2. granted \in Nat
    BY <1>8, EscrowAssumption
  <2>3. /\ grants' = [grants EXCEPT ![p] = grants'[p]] /\ inUse' = [inUse EXCEPT ![p] = inUse'[p]]
        /\ grants'[p] = grants[p] /\ inUse'[p] = inUse[p]
    BY <1>5, <1>8 DEF object, TypeOK
  <2>4. /\ grants'[p] \in Nat /\ inUse'[p] \in Nat /\ inUse'[p] <= grants'[p]
        /\ grants'[p] <= grants[p] + granted
        /\ grants'[p] - grants[p] <= inUse'[p] - inUse[p] + granted
    BY <1>5, <2>2, <2>3
  <2>5. UNCHANGED <<ppc, node, ep, mode, hb, live>>
    BY <1>2, <1>8
  <2>6. QED
    BY <1>1, <1>2, <1>8, <2>1, <2>3, <2>4, <2>5, GrantedStep
<1>9. CASE UNCHANGED store /\ Fault("error") /\ Done(r) /\ UNCHANGED <<object, mode>>
  <2>1. FaultsKept
    BY <1>5, <1>9, FaultFacts DEF FaultsKept
  <2>2. RequestsKept /\ \A q : RunningOn(q)' \subseteq RunningOn(q)
    BY <1>9, DoneEffect
  <2>3. /\ mode' \in [Procs -> {"valid", "expired", "degraded"}]
        /\ UNCHANGED <<ppc, node, ep, hb, live, grants, inUse>>
    BY <1>2, <1>5, <1>9 DEF TypeOK, object
  <2>4. QED
    BY <1>9, <2>1, <2>2, <2>3, RequestKeptStep
<1>10. CASE GrantFenced(n, e) /\ Smooth /\ Degrade(p) /\ Go(r, "fallback") /\ UNCHANGED object
  <2>1. FaultsKept
    BY <1>5, <1>10, FaultFacts DEF FaultsKept
  <2>2. RequestsKept /\ \A q : RunningOn(q)' \subseteq RunningOn(q)
    BY <1>1, <1>10, GoEffect
  <2>3. mode' \in [Procs -> {"valid", "expired", "degraded"}]
    BY <1>1, <1>5, <1>10, DegradeType
  <2>4. /\ n \in Nodes /\ e \in Nat
        /\ Account(n, e) \in Nat /\ Cardinality(RunningOn(p)) \in Nat
        /\ ~slipped /\ Keeps(p) =>
              /\ <<n, e>> \in lease \intersect registry
              /\ grants[p] <= Account(n, e)
              /\ Cardinality(RunningOn(p)) + grants[p] <= inUse[p] + Account(n, e)
    BY <1>1, UpFacts
  <2>5. /\ StoreTypeOK' /\ Balanced'
        /\ allocated' <= allocated
        /\ UNCHANGED <<epoch, lease, registry>>
        /\ Account(n, e)' = Account(n, e)
        /\ OthersSame(n, e)
        /\ Found /\ (<<n, e>> \in registry \/ UNCHANGED store) => Found'
    BY <1>5, <1>10, <2>4, FencedEffect
  <2>6. StoreKept(n, e)
    <3>1. UNCHANGED store \/ Keeps(p)
      BY <1>1, <1>10 DEF GrantFenced, Fenced, Keeps
    <3>2. QED
      BY <2>1, <2>4, <2>5, <3>1 DEF StoreKept, FaultsKept
  <2>7. /\ grants' = [grants EXCEPT ![p] = grants'[p]] /\ inUse' = [inUse EXCEPT ![p] = inUse'[p]]
        /\ grants'[p] = grants[p] /\ inUse'[p] = inUse[p]
        /\ ppc' = [ppc EXCEPT ![p] = "up"]
    BY <1>1, <1>2, <1>5, <1>10 DEF object, TypeOK
  <2>8. ObjectKept(p, n, e)
    <3>1. Cardinality(RunningOn(p)') \in Nat /\ Cardinality(RunningOn(p)') <= Cardinality(RunningOn(p))
      BY <2>2, FewerRunning
    <3>2. ~slipped' => ~slipped
      BY <2>1 DEF FaultsKept
    <3>3. QED
      BY <1>5, <2>4, <2>5, <2>7, <3>1, <3>2 DEF ObjectKept
  <2>9. QED
    BY <1>1, <1>2, <1>5, <2>1, <2>2, <2>3, <2>5, <2>6, <2>7, <2>8, ObjectStep
<1>11. \/ \E granted \in 0..MaxLimit :
             /\ Grant(node[p], ep[p], request, req[r].limit, live, granted) /\ Smooth
             /\ IF Used(r) < Lesser(Stock(r) + granted, req[r].limit)
                THEN SetObject(r, Stock(r) + granted, Used(r) + 1) /\ Admitted(r)
                ELSE SetObject(r, Stock(r) + granted, Used(r)) /\ Done(r)
             /\ UNCHANGED mode
       \/ /\ GrantFenced(n, e) /\ Smooth
          /\ Degrade(p) /\ Go(r, "fallback") /\ UNCHANGED object
       \/ UNCHANGED store /\ Fault("error") /\ Done(r) /\ UNCHANGED <<object, mode>>
       \/ \E granted \in 0..MaxLimit :
             /\ Grant(node[p], ep[p], request, req[r].limit, live, granted)
             /\ Fault("late") /\ Done(r) /\ UNCHANGED <<object, mode>>
  BY <1>1, <1>4 DEF AcquireGrants
<1>12. QED
  BY <1>6, <1>7, <1>8, <1>9, <1>10, <1>11

-----------------------------------------------------------------------------
(* The invariant holds in every state.                                     *)

\* The invariant holds initially.
LEMMA InitInv ==
    ASSUME Init
    PROVE  Inv
<1>1. MaxLimit \in Nat \ {0} /\ MaxFaults \in Nat
  BY EscrowAssumption
<1>2. StoreTypeOK
  BY DEF Init, StoreTypeOK, Pairs, NoHolder
<1>3. TypeOK
  <2>1. \A p \in Procs : ppc[p] = "new"
    BY DEF Init
  <2>2. Idle \in Record
    BY <1>1 DEF Idle, Record
  <2>3. req \in [Requests -> Record] /\ \A r \in Requests : req[r].at = "idle"
    BY <2>2 DEF Init, Idle
  <2>4. /\ live \in Nat /\ ppc \in [Procs -> {"new", "register", "up", "closing", "gone"}]
        /\ node \in [Procs -> Nodes \union {None}] /\ ep \in [Procs -> Nat]
        /\ mode \in [Procs -> {"valid", "expired", "degraded"}]
        /\ hb \in [Procs -> {"runs", "last", "stopped"}]
        /\ grants \in [Procs -> Nat] /\ inUse \in [Procs -> Nat]
        /\ faults \in 0..MaxFaults
    BY <1>1 DEF Init
  <2>5. slipped \in BOOLEAN
    BY Zenon DEF Init
  <2>6. QED
    BY <1>2, <2>1, <2>3, <2>4, <2>5 DEF TypeOK, Record
<1>4. Balanced
  <2>1. holder \in Fields /\ Nodes \in SUBSET Nodes /\ \A n \in Nodes : holder[n].count = 0
    BY <1>2 DEF Init, NoHolder, StoreTypeOK, Fields
  <2>2. HeldOf(holder, Nodes) = 0
    BY <2>1, PermitsNone
  <2>3. QED
    BY <2>2 DEF Init, Balanced, Held, Permits, HeldOf, PermitsOf
<1>5. Bounded
  <2>1. {r \in Requests : req[r].at = "slot"} = {}
    BY DEF Init, Idle
  <2>2. Regular = 0
    BY <2>1, FS_EmptySet DEF Regular
  <2>3. QED
    BY <1>1, <2>2 DEF Init, Bounded
<1>6. Registered
  BY DEF Init, NoHolder, Registered
<1>7. Distinct
  BY DEF Init, Distinct, Started
<1>8. Hosted
  BY EscrowAssumption DEF Init, Idle, Hosted
<1>9. \A p \in Procs : ProcInv(p)
  BY DEF Init, ProcInv, Started, Keeps
<1>10. QED
  BY <1>3, <1>4, <1>5, <1>6, <1>7, <1>8, <1>9 DEF Inv

\* Every step preserves the invariant.
LEMMA NextInv ==
    ASSUME Inv, [Next]_vars
    PROVE  Inv'
<1>1. ASSUME NEW p \in Procs, ProcNext(p)
      PROVE  Inv'
  <2>1. ASSUME NEW n \in Nodes, RegisterStart(p, n)
        PROVE  Inv'
    BY <2>1, RegisterStartStep
  <2>2. CASE RegisterNode(p)
    BY <2>2, RegisterNodeStep
  <2>3. CASE Heartbeat(p)
    BY <2>3, HeartbeatStep
  <2>4. CASE ValidityExpires(p)
    BY <2>4, ValidityExpiresStep
  <2>5. CASE ReturnUnusedForLive(p)
    BY <2>5, ReturnUnusedStep
  <2>6. CASE ReleaseIdleState(p)
    BY <2>6, ReleaseIdleStep
  <2>7. CASE Close(p)
    BY <2>7, CloseStep
  <2>8. CASE UnregisterNode(p)
    BY <2>8, UnregisterStep
  <2>9. CASE Crash(p)
    BY <2>9, CrashStep
  <2>10. QED
    BY <1>1, <2>1, <2>2, <2>3, <2>4, <2>5, <2>6, <2>7, <2>8, <2>9 DEF ProcNext
<1>2. ASSUME NEW r \in Requests, RequestNext(r)
      PROVE  Inv'
  <2>1. ASSUME NEW p \in Procs, NEW limit \in Limits, AcquireUserSlot(r, p, limit)
        PROVE  Inv'
    BY <2>1, AcquireUserSlotStep
  <2>2. CASE AcquireReturnsExcess(r)
    BY <2>2, AcquireReturnsExcessStep
  <2>3. CASE AcquireAdmits(r)
    BY <2>3, AcquireAdmitsStep
  <2>4. CASE AcquireRefuses(r)
    BY <2>4, AcquireRefusesStep
  <2>5. CASE AcquireGrants(r)
    BY <2>5, AcquireGrantsStep
  <2>6. CASE AcquireLegacy(r)
    BY <2>6, AcquireLegacyStep
  <2>7. CASE ReleaseUserSlot(r)
    BY <2>7, ReleaseUserSlotStep
  <2>8. QED
    BY <1>2, <2>1, <2>2, <2>3, <2>4, <2>5, <2>6, <2>7 DEF RequestNext
<1>3. ASSUME NEW n, NEW e, LeaseExpires(n, e)
      PROVE  Inv'
  BY <1>3, LeaseExpiresStep
<1>4. ASSUME NEW x \in registry, ReclaimExpiredNode(x[1], x[2])
      PROVE  Inv'
  <2>1. PICK n \in Nodes, e \in Nat : x = <<n, e>>
    BY DEF Inv, TypeOK, StoreTypeOK, Pairs
  <2>2. ReclaimExpiredNode(n, e)
    BY <1>4, <2>1
  <2>3. QED
    BY <2>2, ReclaimStep
<1>5. ASSUME NEW limit \in Limits, AcquireLiveTenantLease(limit)
      PROVE  Inv'
  BY <1>5, LiveStep DEF AcquireLiveTenantLease
<1>6. CASE ReleaseLiveTenantLease
  BY <1>6, LiveStep DEF ReleaseLiveTenantLease
<1>7. CASE UNCHANGED vars
  <2>1. UNCHANGED store /\ TypeOK /\ StoreTypeOK /\ Balanced
    BY <1>7 DEF vars, Inv, TypeOK
  <2>2. /\ UNCHANGED <<ppc, node, ep, grants, inUse, req, live, mode, hb, faults, slipped>>
    BY <1>7 DEF vars, process, object
  <2>3. RequestsKept /\ \A q : RunningOn(q)' \subseteq RunningOn(q)
    BY <2>2, SameRequests
  <2>4. FaultsKept
    BY <2>1, <2>2 DEF FaultsKept, TypeOK
  <2>5. mode' \in [Procs -> {"valid", "expired", "degraded"}]
    BY <2>1, <2>2 DEF TypeOK
  <2>6. QED
    BY <2>1, <2>2, <2>3, <2>4, <2>5, RequestKeptStep
<1>8. QED
  BY <1>1, <1>2, <1>3, <1>4, <1>5, <1>6, <1>7 DEF Next

-----------------------------------------------------------------------------
(* Requests in flight, counted against the permits.                        *)

\* A finite set that is small enough can be numbered.
LEMMA Numbering ==
    ASSUME NEW S, IsFiniteSet(S), NEW n \in Nat, Cardinality(S) <= n
    PROVE  \E f \in [S -> 1..n] : \A a, b \in S : f[a] = f[b] => a = b
<1>1. Cardinality(S) \in Nat /\ ExistsBijection(1..Cardinality(S), S)
  BY FS_CardinalityType
<1>2. ExistsBijection(S, 1..Cardinality(S))
  BY <1>1, Fun_ExistsBijSymmetric
<1>3. PICK f : f \in Bijection(S, 1..Cardinality(S))
  BY <1>2 DEF ExistsBijection
<1>4. f \in [S -> 1..Cardinality(S)] /\ \A a, b \in S : f[a] = f[b] => a = b
  BY <1>3 DEF Bijection, Injection, IsInjective
<1>5. f \in [S -> 1..n]
  BY <1>1, <1>4
<1>6. QED
  BY <1>4, <1>5

\* A process that keeps its lease has a permit for each of its requests.
LEMMA Covered ==
    ASSUME Inv, ~slipped, NEW p \in Procs, Keeps(p)
    PROVE  /\ node[p] \in Nodes /\ IsFiniteSet(RunningOn(p))
           /\ holder[node[p]].count \in Nat
           /\ Cardinality(RunningOn(p)) <= holder[node[p]].count
<1>1. /\ node[p] \in Nodes /\ ep[p] \in Nat /\ grants[p] \in Nat /\ inUse[p] \in Nat
      /\ holder[node[p]].count \in Nat
  BY DEF Inv, TypeOK, StoreTypeOK, Keeps
<1>2. /\ inUse[p] <= grants[p]
      /\ Cardinality(RunningOn(p)) + grants[p] <= inUse[p] + Own(p)
  BY DEF Inv, ProcInv
<1>3. Own(p) \in Nat /\ Own(p) <= holder[node[p]].count
  BY <1>1 DEF Own, Account
<1>4. IsFiniteSet(RunningOn(p)) /\ Cardinality(RunningOn(p)) \in Nat
  BY FS_Subset, FS_CardinalityType, EscrowAssumption DEF RunningOn
<1>5. QED
  BY <1>1, <1>2, <1>3, <1>4

\* Each request in flight is given a permit of its own.
LEMMA RunningWithinAllocated ==
    ASSUME Inv, ~slipped
    PROVE  Cardinality(Running) <= allocated
<1> DEFINE Injective(p, f) ==
               /\ f \in [RunningOn(p) -> 1..holder[node[p]].count]
               /\ \A a, b \in RunningOn(p) : f[a] = f[b] => a = b
           number(p) == CHOOSE f : Injective(p, f)
           F == [r \in Running |-> <<node[req[r].proc], number(req[r].proc)[r]>>]
<1>1. ASSUME NEW p \in Procs, Keeps(p)
      PROVE  Injective(p, number(p))
  <2>1. \E f : Injective(p, f)
    BY <1>1, Covered, Numbering
  <2>2. QED
    BY <2>1
<1> HIDE DEF Injective, number
<1>2. ASSUME NEW r \in Running
      PROVE  /\ req[r].proc \in Procs /\ Keeps(req[r].proc) /\ r \in RunningOn(req[r].proc)
             /\ node[req[r].proc] \in Nodes
             /\ Injective(req[r].proc, number(req[r].proc))
             /\ number(req[r].proc)[r] \in 1..holder[node[req[r].proc]].count
  <2>1. r \in Requests /\ At(r, "running") /\ Keeps(req[r].proc)
    BY DEF Running
  <2>2. req[r].proc \in Procs /\ node[req[r].proc] \in Nodes
    BY <2>1, HostFacts DEF At
  <2>3. r \in RunningOn(req[r].proc)
    BY <2>1 DEF RunningOn
  <2>4. Injective(req[r].proc, number(req[r].proc))
    BY <1>1, <2>1, <2>2
  <2>5. QED
    BY <2>1, <2>2, <2>3, <2>4 DEF Injective
<1>3. F \in [Running -> PermitsOf(holder, Nodes)]
  <2>1. ASSUME NEW r \in Running
        PROVE  F[r] \in PermitsOf(holder, Nodes)
    BY <1>2 DEF PermitsOf
  <2>2. QED
    BY <2>1
<1>4. ASSUME NEW a \in Running, NEW b \in Running, F[a] = F[b]
      PROVE  a = b
  <2>1. node[req[a].proc] = node[req[b].proc] /\ number(req[a].proc)[a] = number(req[b].proc)[b]
    BY <1>4
  <2>2. req[a].proc = req[b].proc
    <3>1. /\ ppc[req[a].proc] \in Started /\ ppc[req[b].proc] \in Started
          /\ ep[req[a].proc] = ep[req[b].proc]
      BY <1>2, <2>1 DEF Keeps, Started
    <3>2. QED
      BY <1>2, <2>1, <3>1 DEF Inv, Distinct
  <2>3. QED
    BY <1>2, <2>1, <2>2 DEF Injective
<1>5. /\ holder \in Fields /\ allocated = HeldOf(holder, Nodes)
      /\ IsFiniteSet(PermitsOf(holder, Nodes))
  <2>1. holder \in Fields /\ Nodes \in SUBSET Nodes
    BY DEF Inv, TypeOK, StoreTypeOK, Fields
  <2>2. QED
    BY <2>1, PermitsFinite DEF Inv, Balanced, Held, Permits, HeldOf, PermitsOf
<1> HIDE DEF F
<1>6. F \in Injection(Running, PermitsOf(holder, Nodes))
  BY <1>3, <1>4 DEF Injection, IsInjective
<1>7. QED
  BY <1>5, <1>6, FS_Injection DEF HeldOf

-----------------------------------------------------------------------------
(* The theorems.                                                           *)

\* The inductive invariant holds in every behaviour.
THEOREM Invariant == Spec => []Inv
<1>1. Init => Inv
  BY InitInv
<1>2. Inv /\ [Next]_vars => Inv'
  BY NextInv
<1>3. QED
  BY <1>1, <1>2, PTL DEF Spec

\* Type correctness of the store, the processes and the requests.
THEOREM TypeCorrect == Spec => []TypeOK
<1>1. Inv => TypeOK
  BY DEF Inv
<1>2. QED
  BY <1>1, Invariant, PTL

\* The counter of lent permits is always the sum of what the nodes hold: no
\* script, in any order and with any failure, forgets or invents a permit.
THEOREM PermitsBalance == Spec => []Balanced
<1>1. Inv => Balanced
  BY DEF Inv
<1>2. QED
  BY <1>1, Invariant, PTL

\* Permits and live leases stay within the largest limit, and so do the user
\* slots of fenced processes and live leases, whatever fails.
THEOREM LimitBounds == Spec => []Bounded
<1>1. Inv => Bounded
  BY DEF Inv
<1>2. QED
  BY <1>1, Invariant, PTL

\* The stock of a process that keeps its lease is on its account in the store.
THEOREM StockIsBacked == Spec => []LocalBacked
<1>1. Inv => LocalBacked
  BY DEF Inv, ProcInv, LocalBacked, Own, Account
<1>2. QED
  BY <1>1, Invariant, PTL

\* The sweep of dead nodes can find every permit that is lent.
THEOREM SweepFindsPermits == Spec => []Registered
<1>1. Inv => Registered
  BY DEF Inv
<1>2. QED
  BY <1>1, Invariant, PTL

\* Requests in flight and live leases stay within the limit as long as no lease
\* lapsed under a process at work: each request has a permit of its own.
THEOREM NeverOversold == Spec => []NoOversell
<1>1. Inv => NoOversell
  <2>1. SUFFICES ASSUME Inv, ~slipped
                 PROVE  Cardinality(Running) + live <= MaxLimit
    BY DEF NoOversell
  <2>2. Cardinality(Running) <= allocated
    BY <2>1, RunningWithinAllocated
  <2>3. allocated + live <= MaxLimit /\ allocated \in Nat /\ live \in Nat /\ MaxLimit \in Nat
    BY <2>1, EscrowAssumption DEF Inv, Bounded, TypeOK, StoreTypeOK
  <2>4. Cardinality(Running) \in Nat
    BY FS_Subset, FS_CardinalityType, EscrowAssumption DEF Running
  <2>5. QED
    BY <2>2, <2>3, <2>4
<1>2. QED
  BY <1>1, Invariant, PTL

-----------------------------------------------------------------------------
(* What a lease guards.                                                    *)

\* The permits of n are under a live lease.
Leased(n) == holder[n].count > 0 /\ <<n, holder[n].ep>> \in lease

\* They stay, or the epoch that holds them and is the current one changes them.
Guarded(n) ==
    \/ holder'[n] = holder[n]
    \/ epoch[n] = holder[n].ep /\ (holder'[n].count > 0 => holder'[n].ep = holder[n].ep)

\* A grant clears only nodes whose lease is gone, adopts only without one, and
\* lends only to the current epoch.
LEMMA GrantGuarded ==
    ASSUME StoreTypeOK, NEW n \in Nodes, Leased(n), NEW m, NEW e,
           NEW request, NEW limit, NEW calls, NEW granted,
           Grant(m, e, request, limit, calls, granted) \/ GrantFenced(m, e)
    PROVE  Guarded(n)
<1>1. n \notin Dead(m)
  BY DEF Dead, Leased
<1>2. Cleared(Dead(m))[n] = holder[n] /\ DOMAIN Cleared(Dead(m)) = Nodes
  BY <1>1 DEF Cleared
<1>3. CASE GrantFenced(m, e)
  BY <1>2, <1>3 DEF GrantFenced, Guarded, store
<1>4. CASE GrantAdopts(m, e, limit, granted)
  BY <1>2, <1>4 DEF GrantAdopts, Guarded, Leased
<1>5. CASE GrantLends(m, e, request, limit, calls, granted)
  <2>1. CASE m = n
    BY <1>2, <1>5, <2>1 DEF GrantLends, Guarded, Leased, Fenced, Inherits, StoreTypeOK
  <2>2. CASE m # n
    BY <1>2, <1>5, <2>2 DEF GrantLends, Guarded
  <2>3. QED
    BY <2>1, <2>2
<1>6. QED
  BY <1>3, <1>4, <1>5 DEF Grant

\* Only the current epoch returns permits, and only its own.
LEMMA ReturnGuarded ==
    ASSUME StoreTypeOK, NEW n \in Nodes, Leased(n), NEW p, NEW permits, NEW r,
           Return(p, permits, r)
    PROVE  Guarded(n)
<1>1. ASSUME NEW ok, Release(node[p], ep[p], permits, ok)
      PROVE  Guarded(n)
  <2>1. CASE UNCHANGED store
    BY <2>1 DEF store, Guarded
  <2>2. CASE node[p] # n
    BY <1>1, <2>2 DEF Release, store, Guarded, StoreTypeOK
  <2>3. CASE node[p] = n /\ epoch[n] = ep[p] /\ holder[n].ep = ep[p]
    BY <1>1, <2>3 DEF Release, store, Guarded, Leased, StoreTypeOK, NoHolder
  <2>4. QED
    BY <1>1, <2>1, <2>2, <2>3 DEF Release
<1>2. QED
  BY <1>1 DEF Return, store, Guarded

\* The sweep reclaims nothing that has a lease.
LEMMA ReclaimGuarded ==
    ASSUME StoreTypeOK, NEW n \in Nodes, Leased(n), NEW m, NEW e, NEW dropped,
           Reclaim(m, e, dropped)
    PROVE  Guarded(n)
BY DEF Reclaim, Guarded, Leased, StoreTypeOK

\* One step per process, request and timer.
LEMMA StepGuarded ==
    ASSUME Inv, [Next]_vars, NEW n \in Nodes, Leased(n)
    PROVE  Guarded(n)
<1>0. StoreTypeOK
  BY DEF Inv, TypeOK
<1>1. ASSUME NEW p \in Procs, ProcNext(p)
      PROVE  Guarded(n)
  <2>1. CASE \/ \E m \in Nodes : RegisterStart(p, m)
             \/ RegisterNode(p) \/ Heartbeat(p) \/ ValidityExpires(p)
             \/ UnregisterNode(p) \/ Crash(p)
    BY <2>1 DEF RegisterStart, RegisterEpoch, RegisterNode, RegisterLease, Heartbeat, SetLease,
       ValidityExpires, UnregisterNode, Unregister, Crash, store, Guarded
  <2>2. CASE ReturnUnusedForLive(p) \/ ReleaseIdleState(p) \/ Close(p)
    BY <1>0, <2>2, ReturnGuarded DEF ReturnUnusedForLive, ReleaseIdleState, Close, store, Guarded
  <2>3. QED
    BY <1>1, <2>1, <2>2 DEF ProcNext
<1>2. ASSUME NEW r \in Requests, RequestNext(r)
      PROVE  Guarded(n)
  <2>1. CASE AcquireGrants(r)
    BY <1>0, <2>1, GrantGuarded DEF AcquireGrants, store, Guarded
  <2>2. CASE AcquireReturnsExcess(r)
    BY <1>0, <2>2, ReturnGuarded DEF AcquireReturnsExcess
  <2>3. CASE \/ \E p \in Procs, limit \in Limits : AcquireUserSlot(r, p, limit)
             \/ AcquireAdmits(r) \/ AcquireRefuses(r) \/ AcquireLegacy(r) \/ ReleaseUserSlot(r)
    BY <2>3 DEF AcquireUserSlot, AcquireAdmits, AcquireRefuses, AcquireLegacy, ReleaseUserSlot,
       store, Guarded
  <2>4. QED
    BY <1>2, <2>1, <2>2, <2>3 DEF RequestNext
<1>3. ASSUME NEW m, NEW e, ReclaimExpiredNode(m, e)
      PROVE  Guarded(n)
  BY <1>0, <1>3, ReclaimGuarded DEF ReclaimExpiredNode
<1>4. CASE \/ \E x \in lease : LeaseExpires(x[1], x[2])
           \/ \E limit \in Limits : AcquireLiveTenantLease(limit)
           \/ ReleaseLiveTenantLease \/ UNCHANGED vars
  BY <1>4 DEF LeaseExpires, AcquireLiveTenantLease, ReleaseLiveTenantLease, vars, store, Guarded
<1>5. QED
  BY <1>1, <1>2, <1>3, <1>4 DEF Next

\* Permits under a live lease are changed only by the epoch that holds them, while
\* it is the current one of its node: for any number of nodes and processes, no
\* grant to another node, no sweep, no successor between the two commands of its
\* registration and no late call of a predecessor touches them.
THEOREM LeasesGuard == Spec => LeaseGuards
<1>1. Inv /\ [Next]_vars =>
        [\A n \in Nodes :
            holder[n].count > 0 /\ <<n, holder[n].ep>> \in lease =>
                \/ holder'[n] = holder[n]
                \/ epoch[n] = holder[n].ep
                       /\ (holder'[n].count > 0 => holder'[n].ep = holder[n].ep)]_vars
  BY StepGuarded DEF Leased, Guarded
<1>2. QED
  BY <1>1, Invariant, PTL DEF Spec, LeaseGuards
=============================================================================
