------------------------ MODULE ConnectionPoolProofs ------------------------
(***************************************************************************)
(* Proofs about ConnectionPool for any number of tasks, any size of the    *)
(* pools and any number of them.                                           *)
(***************************************************************************)
EXTENDS ConnectionPool, FiniteSetTheorems, TLAPS

USE PoolAssumption

LEMMA PoolsAreNumbers == Pools \subseteq Nat \ {0} /\ Null \notin Pools
BY DEF Pools

-----------------------------------------------------------------------------
(* Counting the holders of connections.                                    *)

Holdings == [Tasks -> Pools \cup {Null}]
Places   == {"idle", "creating", "acquiring", "subscribed", "starting", "open", "streaming"}

LEMMA TasksAreFinite == IsFiniteSet(Tasks)
BY FS_Union DEF Tasks

LEMMA HoldingIsNat ==
  ASSUME NEW f, NEW p PROVE Holding(f, p) \in Nat
<1>1. IsFiniteSet({t \in Tasks : f[t] = p})
  BY TasksAreFinite, FS_Subset
<1> QED
  BY <1>1, FS_CardinalityType DEF Holding

\* A task that takes a connection of pool q.
LEMMA HoldingTaken ==
  ASSUME NEW f \in Holdings, NEW t \in Tasks, f[t] = Null, NEW q \in Pools, NEW p \in Pools
  PROVE  Holding([f EXCEPT ![t] = q], p) = IF p = q THEN Holding(f, p) + 1 ELSE Holding(f, p)
<1> DEFINE g == [f EXCEPT ![t] = q]
           F == {u \in Tasks : f[u] = p}
           G == {u \in Tasks : g[u] = p}
<1>1. IsFiniteSet(F)
  BY TasksAreFinite, FS_Subset
<1>2. G = IF p = q THEN F \cup {t} ELSE F
  BY PoolsAreNumbers DEF Holdings
<1>3. t \notin F
  BY PoolsAreNumbers
<1>4. Cardinality(F \cup {t}) = Cardinality(F) + 1
  BY <1>1, <1>3, FS_AddElement
<1>5. Cardinality(G) = IF p = q THEN Cardinality(F) + 1 ELSE Cardinality(F)
  BY <1>2, <1>4
<1> QED
  BY <1>5 DEF Holding

\* A task that gives its connection away.
LEMMA HoldingDropped ==
  ASSUME NEW f \in Holdings, NEW t \in Tasks, NEW p \in Pools
  PROVE  Holding([f EXCEPT ![t] = Null], p) = IF p = f[t] THEN Holding(f, p) - 1 ELSE Holding(f, p)
<1> DEFINE g == [f EXCEPT ![t] = Null]
           F == {u \in Tasks : f[u] = p}
           G == {u \in Tasks : g[u] = p}
<1>1. IsFiniteSet(F)
  BY TasksAreFinite, FS_Subset
<1>2. G = F \ {t}
  BY PoolsAreNumbers DEF Holdings
<1>3. Cardinality(F \ {t}) = IF t \in F THEN Cardinality(F) - 1 ELSE Cardinality(F)
  BY <1>1, FS_RemoveElement
<1>4. Cardinality(G) = IF p = f[t] THEN Cardinality(F) - 1 ELSE Cardinality(F)
  BY <1>2, <1>3
<1> QED
  BY <1>4 DEF Holding

LEMMA CreatingIsNat == IsFiniteSet(Creating) /\ Cardinality(Creating) \in Nat
<1>1. Creating \in SUBSET Tasks
  BY DEF Creating
<1>2. IsFiniteSet(Creating)
  BY <1>1, TasksAreFinite, FS_Subset
<1> QED
  BY <1>2, FS_CardinalityType

\* The pools being created, when a task begins to and when it has done.
LEMMA CreatingGrows ==
  ASSUME NEW t \in Tasks, pc \in [Tasks -> Places], pc[t] # "creating",
         pc' = [pc EXCEPT ![t] = "creating"]
  PROVE  Cardinality(Creating') = Cardinality(Creating) + 1
<1>1. IsFiniteSet(Creating) /\ t \notin Creating
  BY CreatingIsNat DEF Creating
<1>2. Creating' = Creating \cup {t}
  BY DEF Creating
<1> QED
  BY <1>1, <1>2, FS_AddElement

LEMMA CreatingShrinks ==
  ASSUME NEW t \in Tasks, pc \in [Tasks -> Places], NEW c, c # "creating",
         pc' = [pc EXCEPT ![t] = c]
  PROVE  Cardinality(Creating') = IF pc[t] = "creating" THEN Cardinality(Creating) - 1
                                  ELSE Cardinality(Creating)
<1>1. IsFiniteSet(Creating)
  BY CreatingIsNat
<1>2. Creating' = Creating \ {t}
  BY DEF Creating
<1>3. t \in Creating <=> pc[t] = "creating"
  BY DEF Creating
<1> QED
  BY <1>1, <1>2, <1>3, FS_RemoveElement

LEMMA OneMore ==
  ASSUME NEW f \in [Pools -> Nat], NEW p \in Pools
  PROVE  [f EXCEPT ![p] = f[p] + 1] \in [Pools -> Nat]
OBVIOUS

-----------------------------------------------------------------------------
(* The inductive invariant.                                                *)

PoolTypes ==
  /\ pools \in Nat
  /\ pool_cache \in Pools \cup {Null}
  /\ free \in [Pools -> Nat]
  /\ leaked \in [Pools -> Nat]
  /\ pc \in [Tasks -> Places]
  /\ via \in Holdings
  /\ outer \in Holdings
  /\ active \in Holdings

\* There is room for the pools that are being created.
Bounded == pools + Cardinality(Creating) <= MaxPools

\* No connection comes from a pool that does not exist.
Existing ==
  /\ pool_cache # Null => pool_cache <= pools
  /\ pools # 0 => pool_cache # Null
  /\ \A t \in Tasks :
       /\ via[t] # Null => via[t] <= pools
       /\ outer[t] # Null => outer[t] <= pools
       /\ active[t] # Null => active[t] <= pools
  /\ \A p \in Pools : p > pools => free[p] = 0 /\ leaked[p] = 0

\* What a task holds where.
Stages ==
  \A t \in Tasks :
    /\ via[t] # Null <=> pc[t] = "acquiring"
    /\ active[t] # Null <=> pc[t] \in {"starting", "open"}
    /\ pc[t] = "idle" => outer[t] = Null
    /\ pc[t] \in {"subscribed", "streaming"} => outer[t] # Null
    /\ outer[t] # Null => t \in Streams
    /\ pc[t] \in {"starting", "open"} /\ t \in Streams => outer[t] # Null

PoolInv == PoolTypes /\ Bounded /\ Existing /\ Stages /\ Conserved

LEMMA PoolInvInit == Init => PoolInv
<1> SUFFICES ASSUME Init PROVE PoolInv
  OBVIOUS
<1>1. PoolTypes /\ Existing /\ Stages /\ Conserved
  BY DEF Init, PoolTypes, Existing, Stages, Conserved, Places, Holdings, Pools
<1>2. Creating = {}
  BY DEF Init, Creating
<1>3. Bounded
  BY <1>2, FS_EmptySet DEF Init, Bounded
<1> QED
  BY <1>1, <1>3 DEF PoolInv

LEMMA PoolInvNext == PoolInv /\ [Next]_vars => PoolInv'
<1> SUFFICES ASSUME PoolInv, [Next]_vars PROVE PoolInv'
  OBVIOUS
<1> USE PoolsAreNumbers DEF PoolInv
<1>a. free \in [Pools -> Nat] /\ leaked \in [Pools -> Nat]
  BY DEF PoolTypes
<1>0. pc \in [Tasks -> Places] /\ pools \in Nat /\ Cardinality(Creating) \in Nat
  BY CreatingIsNat DEF PoolTypes
<1>1. ASSUME NEW t \in Tasks, Begin(t) PROVE PoolInv'
  <2>1. PoolTypes'
    BY <1>1 DEF PoolTypes, Places, Holdings, Existing, Stages, Begin, Lookup
  <2>2. Bounded'
    <3>1. CASE pool_cache = Null
      <4>1. Cardinality(Creating') = Cardinality(Creating) + 1
        BY <1>1, <1>0, <3>1, CreatingGrows DEF Begin, Lookup
      <4> QED
        BY <1>1, <1>0, <3>1, <4>1 DEF Begin, Bounded, PoolTypes
    <3>2. CASE pool_cache # Null
      <4>1. Cardinality(Creating') = Cardinality(Creating)
        BY <1>1, <1>0, <3>2, CreatingShrinks DEF Begin, Lookup
      <4> QED
        BY <1>1, <4>1 DEF Begin, Bounded
    <3> QED
      BY <3>1, <3>2
  <2>3. Existing'
    BY <1>1 DEF PoolTypes, Places, Holdings, Existing, Stages, Begin, Lookup
  <2>4. Stages'
    BY <1>1 DEF PoolTypes, Places, Holdings, Existing, Stages, Begin, Lookup
  <2>5. Conserved'
    BY <1>1 DEF Conserved, Begin, Holding
  <2> QED
    BY <2>1, <2>2, <2>3, <2>4, <2>5
<1>2. ASSUME NEW t \in Tasks, Created(t) PROVE PoolInv'
  <2>0. pools + 1 \in Pools
    <3>1. t \in Creating
      BY <1>2 DEF Created, Creating
    <3>2. Cardinality(Creating) # 0
      BY <3>1, CreatingIsNat, FS_EmptySet
    <3> QED
      BY <1>0, <3>2, CreatingIsNat DEF Bounded, Pools
  <2>1. PoolTypes'
    BY <1>2, <2>0 DEF PoolTypes, Places, Holdings, Existing, Stages, Created
  <2>2. Bounded'
    <3>1. Cardinality(Creating') = Cardinality(Creating) - 1
      BY <1>2, <1>0, CreatingShrinks DEF Created
    <3> QED
      BY <1>2, <1>0, <3>1 DEF Created, Bounded
  <2>3. Existing'
    <3>1. \A p \in Pools : p > pools' => free'[p] = 0 /\ leaked'[p] = 0
      BY <1>2, <1>0, <1>a, <2>0 DEF Created, Existing
    <3>2. ASSUME NEW u \in Tasks, via'[u] # Null PROVE via'[u] <= pools'
      <4>1. CASE u = t
        BY <1>2, <1>0, <4>1 DEF Created, PoolTypes, Holdings
      <4>2. CASE u # t
        <5>1. via[u] \in Pools /\ via[u] <= pools /\ via'[u] = via[u]
          BY <1>2, <3>2, <4>2 DEF Created, Existing, PoolTypes, Holdings
        <5> QED
          BY <1>2, <1>0, <5>1 DEF Created, Pools
      <4> QED
        BY <4>1, <4>2
    <3>3. ASSUME NEW f \in Holdings, NEW u \in Tasks, f[u] # Null, f[u] <= pools PROVE f[u] <= pools'
      <4>1. f[u] \in Nat
        BY <3>3 DEF Holdings
      <4> QED
        BY <1>2, <1>0, <3>3, <4>1 DEF Created
    <3> QED
      BY <1>2, <1>0, <3>1, <3>2, <3>3 DEF Created, Existing, PoolTypes
  <2>4. Stages'
    BY <1>2, <2>0 DEF PoolTypes, Places, Holdings, Existing, Stages, Created
  <2>5. Conserved'
    <3> SUFFICES ASSUME NEW p \in 1 .. pools + 1
                 PROVE  free'[p] + leaked[p] + Holding(outer, p) + Holding(active, p) = PoolSize
      BY <1>2 DEF Created, Conserved, Holding
    <3>1. pools + 1 \in Pools
      BY <2>0
    <3>2. CASE p = pools + 1
      <4>1. \A u \in Tasks : outer[u] # p /\ active[u] # p
        BY <3>2, <3>1 DEF Existing, PoolTypes, Holdings
      <4>2. Holding(outer, p) = 0 /\ Holding(active, p) = 0
        BY <4>1, FS_EmptySet DEF Holding
      <4>3. free'[p] = PoolSize /\ leaked[p] = 0
        BY <1>2, <3>1, <3>2 DEF Created, Existing, PoolTypes
      <4> QED
        BY <4>2, <4>3
    <3>3. CASE p # pools + 1
      <4>1. p \in 1 .. pools /\ p \in Pools
        BY <1>0, <3>1, <3>3 DEF Pools
      <4>2. free'[p] = free[p]
        BY <1>2, <1>a, <3>1, <3>3, <4>1 DEF Created
      <4> QED
        BY <4>1, <4>2 DEF Conserved
    <3> QED
      BY <3>2, <3>3
  <2> QED
    BY <2>1, <2>2, <2>3, <2>4, <2>5
<1>3. ASSUME NEW t \in Tasks, Acquire(t) PROVE PoolInv'
  <2>0. via[t] \in Pools /\ via[t] <= pools
    BY <1>3 DEF Acquire, Stages, Existing, PoolTypes, Holdings
  <2>1. PoolTypes'
    <3>1. free' \in [Pools -> Nat]
      BY <1>3, <2>0 DEF Acquire, PoolTypes
    <3>2. outer' \in Holdings /\ active' \in Holdings
      BY <1>3, <2>0 DEF Acquire, PoolTypes, Holdings
    <3>3. via' \in Holdings
      BY <1>3 DEF Acquire, PoolTypes, Holdings
    <3>4. pc' \in [Tasks -> Places]
      BY <1>3 DEF Acquire, PoolTypes, Places
    <3> QED
      BY <1>3, <3>1, <3>2, <3>3, <3>4 DEF Acquire, PoolTypes
  <2>2. Bounded'
    <3>1. Cardinality(Creating') = Cardinality(Creating)
      BY <1>3, <1>0, CreatingShrinks DEF Acquire
    <3> QED
      BY <1>3, <3>1 DEF Acquire, Bounded
  <2>3. Existing'
    BY <1>3, <2>0 DEF PoolTypes, Places, Holdings, Existing, Stages, Acquire, NeedsOuter
  <2>4. Stages'
    BY <1>3, <2>0 DEF PoolTypes, Places, Holdings, Existing, Stages, Acquire, NeedsOuter
  <2>5. Conserved'
    <3> SUFFICES ASSUME NEW p \in 1 .. pools
                 PROVE  free'[p] + leaked[p] + Holding(outer', p) + Holding(active', p) = PoolSize
      BY <1>3 DEF Acquire, Conserved, Holding
    <3>1. p \in Pools /\ Holding(outer, p) \in Nat /\ Holding(active, p) \in Nat
      BY <1>0, HoldingIsNat DEF Bounded, Pools
    <3>4. free'[p] = IF p = via[t] THEN free[p] - 1 ELSE free[p]
      BY <1>3, <2>0, <3>1 DEF Acquire, PoolTypes
    <3>2. CASE NeedsOuter(t)
      <4>1. Holding(outer', p) = IF p = via[t] THEN Holding(outer, p) + 1 ELSE Holding(outer, p)
        BY <1>3, <2>0, <3>1, <3>2, HoldingTaken DEF Acquire, NeedsOuter, PoolTypes
      <4> QED
        BY <1>3, <3>1, <3>2, <3>4, <4>1 DEF Acquire, Conserved, PoolTypes
    <3>3. CASE ~NeedsOuter(t)
      <4>1. active[t] = Null
        BY <1>3 DEF Acquire, Stages
      <4>2. Holding(active', p) = IF p = via[t] THEN Holding(active, p) + 1 ELSE Holding(active, p)
        BY <1>3, <2>0, <3>1, <3>3, <4>1, HoldingTaken DEF Acquire, PoolTypes
      <4> QED
        BY <1>3, <3>1, <3>3, <3>4, <4>2 DEF Acquire, Conserved, PoolTypes
    <3> QED
      BY <3>2, <3>3
  <2> QED
    BY <2>1, <2>2, <2>3, <2>4, <2>5
<1>4. ASSUME NEW t \in Tasks, Snapshot(t) PROVE PoolInv'
  <2>1. PoolTypes'
    BY <1>4 DEF PoolTypes, Places, Holdings, Existing, Stages, Snapshot, Lookup
  <2>2. Bounded'
    <3>1. outer[t] \in Pools /\ outer[t] <= pools
      BY <1>4 DEF Snapshot, Stages, Existing, PoolTypes, Holdings
    <3>2. pool_cache # Null
      BY <1>0, <3>1 DEF Existing, Pools
    <3> QED
      BY <1>4, <1>0, <3>2, CreatingShrinks DEF Snapshot, Lookup, Bounded
  <2>3. Existing'
    BY <1>4 DEF PoolTypes, Places, Holdings, Existing, Stages, Snapshot, Lookup
  <2>4. Stages'
    BY <1>4 DEF PoolTypes, Places, Holdings, Existing, Stages, Snapshot, Lookup
  <2>5. Conserved'
    BY <1>4 DEF Conserved, Snapshot, Holding
  <2> QED
    BY <2>1, <2>2, <2>3, <2>4, <2>5
<1>5. ASSUME NEW t \in Tasks, Started(t) PROVE PoolInv'
  <2>1. PoolTypes'
    BY <1>5 DEF PoolTypes, Places, Holdings, Existing, Stages, Started
  <2>2. Bounded'
    <3>1. Cardinality(Creating') = Cardinality(Creating)
      BY <1>5, <1>0, CreatingShrinks DEF Started
    <3> QED
      BY <1>5, <3>1 DEF Started, Bounded
  <2>3. Existing'
    BY <1>5 DEF PoolTypes, Places, Holdings, Existing, Stages, Started
  <2>4. Stages'
    BY <1>5 DEF PoolTypes, Places, Holdings, Existing, Stages, Started
  <2>5. Conserved'
    BY <1>5 DEF Conserved, Started, Holding
  <2> QED
    BY <2>1, <2>2, <2>3, <2>4, <2>5
<1>6. ASSUME NEW t \in Tasks, StartFails(t) PROVE PoolInv'
  <2>0. active[t] \in Pools /\ active[t] <= pools
    BY <1>6 DEF StartFails, Stages, Existing, PoolTypes, Holdings
  <2>1. PoolTypes'
    <3>1. leaked' \in [Pools -> Nat]
      BY <1>6, <1>a, <2>0, OneMore DEF StartFails
    <3>2. free' \in [Pools -> Nat]
      <4>1. CASE outer[t] = Null
        BY <1>6, <1>a, <4>1 DEF StartFails
      <4>2. CASE outer[t] # Null
        <5>1. outer[t] \in Pools
          BY <4>2 DEF PoolTypes, Holdings
        <5> QED
          BY <1>6, <1>a, <4>2, <5>1, OneMore DEF StartFails
      <4> QED
        BY <4>1, <4>2
    <3>3. outer' \in Holdings /\ active' \in Holdings
      BY <1>6 DEF StartFails, PoolTypes, Holdings
    <3>4. pc' \in [Tasks -> Places]
      BY <1>6 DEF StartFails, PoolTypes, Places
    <3> QED
      BY <1>6, <3>1, <3>2, <3>3, <3>4 DEF StartFails, PoolTypes
  <2>2. Bounded'
    <3>1. Cardinality(Creating') = Cardinality(Creating)
      BY <1>6, <1>0, CreatingShrinks DEF StartFails
    <3> QED
      BY <1>6, <3>1 DEF StartFails, Bounded
  <2>3. Existing'
    BY <1>6, <2>0 DEF PoolTypes, Places, Holdings, Existing, Stages, StartFails
  <2>4. Stages'
    BY <1>6, <2>0 DEF PoolTypes, Places, Holdings, Existing, Stages, StartFails
  <2>5. Conserved'
    <3> SUFFICES ASSUME NEW p \in 1 .. pools
                 PROVE  free'[p] + leaked'[p] + Holding(outer', p) + Holding(active', p) = PoolSize
      BY <1>6 DEF StartFails, Conserved, Holding
    <3>1. p \in Pools /\ Holding(outer, p) \in Nat /\ Holding(active, p) \in Nat
      BY <1>0, HoldingIsNat DEF Bounded, Pools
    <3>2. Holding(active', p) = IF p = active[t] THEN Holding(active, p) - 1 ELSE Holding(active, p)
      <4>1. active \in Holdings /\ active' = [active EXCEPT ![t] = Null]
        BY <1>6 DEF StartFails, PoolTypes
      <4> QED
        BY <3>1, <4>1, HoldingDropped
    <3>3. Holding(outer', p) = IF p = outer[t] THEN Holding(outer, p) - 1 ELSE Holding(outer, p)
      <4>1. outer \in Holdings /\ outer' = [outer EXCEPT ![t] = Null]
        BY <1>6 DEF StartFails, PoolTypes
      <4> QED
        BY <3>1, <4>1, HoldingDropped
    <3>4. leaked'[p] = IF p = active[t] THEN leaked[p] + 1 ELSE leaked[p]
      BY <1>6, <3>1 DEF StartFails, PoolTypes
    <3>5. free'[p] = IF p = outer[t] THEN free[p] + 1 ELSE free[p]
      BY <1>6, <3>1 DEF StartFails, PoolTypes
    <3> QED
      BY <3>1, <3>2, <3>3, <3>4, <3>5 DEF Conserved, PoolTypes
  <2> QED
    BY <2>1, <2>2, <2>3, <2>4, <2>5
<1>7. ASSUME NEW t \in Tasks, Exit(t) PROVE PoolInv'
  <2>0. active[t] \in Pools /\ active[t] <= pools
    BY <1>7 DEF Exit, Stages, Existing, PoolTypes, Holdings
  <2>1. PoolTypes'
    <3>1. leaked' \in [Pools -> Nat] /\ free' \in [Pools -> Nat]
      BY <1>7, <2>0 DEF Exit, PoolTypes
    <3>2. active' \in Holdings
      BY <1>7 DEF Exit, PoolTypes, Holdings
    <3>3. pc' \in [Tasks -> Places]
      BY <1>7 DEF Exit, PoolTypes, Places
    <3> QED
      BY <1>7, <3>1, <3>2, <3>3 DEF Exit, PoolTypes
  <2>2. Bounded'
    <3>1. Cardinality(Creating') = Cardinality(Creating)
      BY <1>7, <1>0, CreatingShrinks DEF Exit
    <3> QED
      BY <1>7, <3>1 DEF Exit, Bounded
  <2>3. Existing'
    BY <1>7, <2>0 DEF PoolTypes, Places, Holdings, Existing, Stages, Exit
  <2>4. Stages'
    BY <1>7 DEF PoolTypes, Holdings, Stages, Exit
  <2>5. Conserved'
    <3> SUFFICES ASSUME NEW p \in 1 .. pools
                 PROVE  free'[p] + leaked'[p] + Holding(outer, p) + Holding(active', p) = PoolSize
      BY <1>7 DEF Exit, Conserved, Holding
    <3>1. p \in Pools /\ Holding(outer, p) \in Nat /\ Holding(active, p) \in Nat
      BY <1>0, HoldingIsNat DEF Bounded, Pools
    <3>2. Holding(active', p) = IF p = active[t] THEN Holding(active, p) - 1 ELSE Holding(active, p)
      <4>1. active \in Holdings /\ active' = [active EXCEPT ![t] = Null]
        BY <1>7 DEF Exit, PoolTypes
      <4> QED
        BY <3>1, <4>1, HoldingDropped
    <3>3. free'[p] + leaked'[p] = IF p = active[t] THEN free[p] + leaked[p] + 1 ELSE free[p] + leaked[p]
      BY <1>7, <3>1 DEF Exit, PoolTypes
    <3> QED
      BY <3>1, <3>2, <3>3 DEF Conserved, PoolTypes
  <2> QED
    BY <2>1, <2>2, <2>3, <2>4, <2>5
<1>8. ASSUME NEW t \in Tasks, StreamEnds(t) PROVE PoolInv'
  <2>0. outer[t] \in Pools /\ outer[t] <= pools
    BY <1>8 DEF StreamEnds, Stages, Existing, PoolTypes, Holdings
  <2>1. PoolTypes'
    <3>1. free' \in [Pools -> Nat]
      BY <1>8, <1>a, <2>0, OneMore DEF StreamEnds
    <3>2. outer' \in Holdings
      BY <1>8 DEF StreamEnds, PoolTypes, Holdings
    <3>3. pc' \in [Tasks -> Places]
      BY <1>8 DEF StreamEnds, PoolTypes, Places
    <3> QED
      BY <1>8, <3>1, <3>2, <3>3 DEF StreamEnds, PoolTypes
  <2>2. Bounded'
    <3>1. Cardinality(Creating') = Cardinality(Creating)
      BY <1>8, <1>0, CreatingShrinks DEF StreamEnds
    <3> QED
      BY <1>8, <3>1 DEF StreamEnds, Bounded
  <2>3. Existing'
    BY <1>8, <2>0 DEF PoolTypes, Places, Holdings, Existing, Stages, StreamEnds
  <2>4. Stages'
    BY <1>8, <2>0 DEF PoolTypes, Places, Holdings, Existing, Stages, StreamEnds
  <2>5. Conserved'
    <3> SUFFICES ASSUME NEW p \in 1 .. pools
                 PROVE  free'[p] + leaked[p] + Holding(outer', p) + Holding(active, p) = PoolSize
      BY <1>8 DEF StreamEnds, Conserved, Holding
    <3>1. p \in Pools /\ Holding(outer, p) \in Nat /\ Holding(active, p) \in Nat
      BY <1>0, HoldingIsNat DEF Bounded, Pools
    <3>2. Holding(outer', p) = IF p = outer[t] THEN Holding(outer, p) - 1 ELSE Holding(outer, p)
      <4>1. outer \in Holdings /\ outer' = [outer EXCEPT ![t] = Null]
        BY <1>8 DEF StreamEnds, PoolTypes
      <4> QED
        BY <3>1, <4>1, HoldingDropped
    <3>3. free'[p] = IF p = outer[t] THEN free[p] + 1 ELSE free[p]
      BY <1>8, <3>1 DEF StreamEnds, PoolTypes
    <3> QED
      BY <3>1, <3>2, <3>3 DEF Conserved, PoolTypes
  <2> QED
    BY <2>1, <2>2, <2>3, <2>4, <2>5
<1>9. CASE UNCHANGED vars
  BY <1>9 DEF vars, PoolTypes, Bounded, Creating, Existing, Stages, Conserved, Holding
<1> QED
  BY <1>1, <1>2, <1>3, <1>4, <1>5, <1>6, <1>7, <1>8, <1>9 DEF Next, Step

\* No count of connections can leave 0 .. PoolSize.
LEMMA PoolInvTypeOK == PoolInv => TypeOK
<1> SUFFICES ASSUME PoolInv PROVE TypeOK
  OBVIOUS
<1>1. pools <= MaxPools
  <2>1. Cardinality(Creating) \in Nat
    BY TasksAreFinite, FS_Subset, FS_CardinalityType DEF Creating
  <2> QED
    BY <2>1 DEF PoolInv, PoolTypes, Bounded
<1>2. ASSUME NEW p \in Pools PROVE free[p] <= PoolSize /\ leaked[p] <= PoolSize
  <2>1. CASE p <= pools
    BY <2>1, PoolsAreNumbers, HoldingIsNat DEF PoolInv, PoolTypes, Conserved, Pools
  <2>2. CASE p > pools
    BY <2>2, PoolsAreNumbers DEF PoolInv, Existing
  <2> QED
    BY <2>1, <2>2, PoolsAreNumbers DEF PoolInv, PoolTypes
<1> QED
  BY <1>1, <1>2 DEF PoolInv, PoolTypes, Places, Holdings, TypeOK

LEMMA PoolInvAlways == Spec => []PoolInv
BY PoolInvInit, PoolInvNext, PTL DEF Spec

\* The variables of ConnectionPool keep their types: acquire and release
\* never hand out or take back more connections than a pool has.
THEOREM PoolTypeCorrect == Spec => []TypeOK
BY PoolInvAlways, PoolInvTypeOK, PTL

\* Every connection is free, lost or held once, in any number of pools.
THEOREM ConnectionsAreConserved == Spec => []Conserved
<1>1. PoolInv => Conserved
  BY DEF PoolInv
<1> QED
  BY PoolInvAlways, <1>1, PTL

-----------------------------------------------------------------------------
(* What RequestsEnd and SecondConnectionComes rest on: who waits for a     *)
(* connection waits for one that will come back.                           *)

\* A task that waits at an empty pool waits for a unit of work, whose next
\* step waits for no connection, unless the pool is exhausted.
WaitersAreServed ==
  \A t \in Tasks :
    pc[t] = "acquiring" /\ free[via[t]] = 0 =>
      Exhausted(via[t]) \/ \E u \in Tasks : active[u] = via[t] /\ pc[u] \in {"starting", "open"}

\* A pool gets exhausted only by losses or by as many streams as connections
\* (as in the run pool_exhausted).
FewStreamsSuffice ==
  \A p \in 1 .. pools : leaked[p] = 0 /\ Cardinality(Streams) < PoolSize => ~Exhausted(p)

LEMMA PoolInvServes == PoolInv => WaitersAreServed
<1> SUFFICES ASSUME PoolInv, NEW t \in Tasks, pc[t] = "acquiring", free[via[t]] = 0, ~Exhausted(via[t])
             PROVE  \E u \in Tasks : active[u] = via[t] /\ pc[u] \in {"starting", "open"}
  BY DEF WaitersAreServed
<1> DEFINE p == via[t]
           H == {u \in Tasks : active[u] = p}
<1>1. p \in Pools /\ p \in 1 .. pools /\ p # Null
  <2>1. p \in Pools /\ p # Null
    BY PoolsAreNumbers DEF PoolInv, PoolTypes, Holdings, Stages
  <2>2. p <= pools /\ pools \in Nat
    BY <2>1 DEF PoolInv, PoolTypes, Existing
  <2> QED
    BY <2>1, <2>2, PoolsAreNumbers DEF Pools
<1>2. leaked[p] + Holding(outer, p) + Holding(active, p) = PoolSize
  BY <1>1, HoldingIsNat DEF PoolInv, PoolTypes, Conserved
<1>3. Holding(active, p) # 0
  BY <1>1, <1>2, HoldingIsNat DEF Exhausted, PoolInv, PoolTypes
<1>4. H # {}
  BY <1>3, FS_EmptySet DEF Holding
<1> QED
  BY <1>1, <1>4 DEF PoolInv, Stages

LEMMA PoolInvSuffices == PoolInv => FewStreamsSuffice
<1> SUFFICES ASSUME PoolInv, NEW p \in 1 .. pools, leaked[p] = 0, Cardinality(Streams) < PoolSize
             PROVE  ~Exhausted(p)
  BY DEF FewStreamsSuffice
<1> DEFINE O == {u \in Tasks : outer[u] = p}
<1>1. p # Null
  BY PoolAssumption DEF PoolInv, PoolTypes
<1>2. O \subseteq Streams
  BY <1>1 DEF PoolInv, Stages
<1>3. Holding(outer, p) <= Cardinality(Streams) /\ Holding(outer, p) \in Nat /\ Cardinality(Streams) \in Nat
  BY <1>2, FS_Subset, FS_CardinalityType, PoolAssumption DEF Holding
<1> QED
  BY <1>3, PoolAssumption DEF Exhausted

\* A task that waits for a connection waits for one that will be returned,
\* unless its pool is exhausted; as long as there are fewer streams than
\* connections, only losses exhaust it.
THEOREM NobodyWaitsForStreams == Spec => [](WaitersAreServed /\ FewStreamsSuffice)
BY PoolInvAlways, PoolInvServes, PoolInvSuffices, PTL
=============================================================================
