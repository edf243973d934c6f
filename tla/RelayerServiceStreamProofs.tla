-------------------- MODULE RelayerServiceStreamProofs --------------------
(***************************************************************************)
(* The block cache for every capacity: its two maps stay each other's      *)
(* inverse, it never grows past its capacity and loses the lowest first.   *)
(* The service behind its bounded channel, for every tree, window, channel *)
(* capacity, verification policy and schedule: blocked sends, failed RPCs, *)
(* skipped blocks and head updates lose, repeat or reorder no output; the  *)
(* horizon observer closes; and at every await the shared cache holds the  *)
(* newest part of the chain fed so far, entry for entry and without a hole.*)
(***************************************************************************)
EXTENDS RelayerServiceStream, ReorgEngineProofs

-----------------------------------------------------------------------------
(* Eviction leaves at most Capacity heights *)

\* insert's eviction loop: the heights it leaves are told apart by how many
\* heights lie above them, and that number is less than Capacity.
LEMMA ExcessSpec ==
    ASSUME NEW bh, IsFiniteSet(DOMAIN bh), DOMAIN bh \subseteq Nat
    PROVE  /\ IsFiniteSet(DOMAIN bh \ Excess(bh))
           /\ Cardinality(DOMAIN bh \ Excess(bh)) <= Capacity
<1> DEFINE D == DOMAIN bh
           R == D \ Excess(bh)
           Above(m) == {k \in D : k > m}
           rank == [m \in R |-> Cardinality(Above(m))]
           T == 0 .. Capacity - 1
<1>1. \A m : Above(m) \in SUBSET D
  OBVIOUS
<1>2. \A m : IsFiniteSet(Above(m)) /\ Cardinality(Above(m)) \in Nat
  BY <1>1, FS_Subset, FS_CardinalityType
<1>3. \A m \in R : Cardinality(Above(m)) < Capacity
  BY <1>2, CacheAssumption DEF Excess
<1>4. rank \in [R -> T]
  <2>1. \A m \in R : Cardinality(Above(m)) \in T
    BY <1>2, <1>3, CacheAssumption
  <2> QED
    BY <2>1
<1>5. ASSUME NEW m \in R, NEW n \in R, m < n
      PROVE  rank[m] # rank[n]
  <2>1. Above(n) \in SUBSET Above(m) /\ n \in Above(m) /\ n \notin Above(n)
    BY <1>5
  <2>2. Cardinality(Above(m)) # Cardinality(Above(n))
    <3> HIDE DEF Above, R, D
    <3> QED
      BY <1>2, <2>1, FS_Subset
  <2> QED
    BY <2>2
<1>6. ASSUME NEW m \in R, NEW n \in R, rank[m] = rank[n]
      PROVE  m = n
  <2>1. m \in Nat /\ n \in Nat
    OBVIOUS
  <2>2. m = n \/ m < n \/ n < m
    BY <2>1
  <2> QED
    BY <1>5, <1>6, <2>2
<1>7. rank \in Injection(R, T)
  <2> HIDE DEF rank, R, T
  <2> QED
    BY <1>4, <1>6 DEF Injection, IsInjective
<1>8. IsFiniteSet(T) /\ Cardinality(T) = Capacity
  BY FS_Interval, CacheAssumption
<1> HIDE DEF R, T, rank
<1>9. IsFiniteSet(R) /\ Cardinality(R) <= Cardinality(T)
  BY <1>7, <1>8, FS_Injection
<1> QED
  BY <1>8, <1>9 DEF R

\* The eviction loop takes the lowest heights.
LEMMA ExcessIsLowest ==
    ASSUME NEW bh, IsFiniteSet(DOMAIN bh), DOMAIN bh \subseteq Nat,
           NEW h \in Excess(bh), NEW k \in DOMAIN bh \ Excess(bh)
    PROVE  h < k
<1> DEFINE D == DOMAIN bh
           Above(m) == {x \in D : x > m}
<1>1. h \in D /\ h \in Nat /\ k \in D /\ k \in Nat /\ h # k
  BY DEF Excess
<1>2. Cardinality(Above(h)) >= Capacity /\ ~ (Cardinality(Above(k)) >= Capacity)
  BY DEF Excess
<1>3. \A m : IsFiniteSet(Above(m)) /\ Cardinality(Above(m)) \in Nat
  <2>1. \A m : Above(m) \in SUBSET D
    OBVIOUS
  <2> QED
    BY <2>1, FS_Subset, FS_CardinalityType
<1>4. SUFFICES ASSUME k < h PROVE FALSE
  BY <1>1
<1>5. Above(h) \in SUBSET Above(k)
  BY <1>1, <1>4
<1>6. Cardinality(Above(h)) <= Cardinality(Above(k))
  <2> HIDE DEF Above
  <2> QED
    BY <1>3, <1>5, FS_Subset
<1>7. Cardinality(Above(h)) \in Nat /\ Cardinality(Above(k)) \in Nat
  BY <1>3
<1> HIDE DEF Above
<1> QED
  BY <1>2, <1>6, <1>7, CacheAssumption

\* It takes nothing from a map within the capacity.
LEMMA ExcessOfFew ==
    ASSUME NEW bh, IsFiniteSet(DOMAIN bh), Cardinality(DOMAIN bh) <= Capacity,
           DOMAIN bh \subseteq Nat
    PROVE  Excess(bh) = {}
<1> SUFFICES ASSUME NEW h \in Excess(bh) PROVE FALSE
  OBVIOUS
<1> DEFINE D == DOMAIN bh
           A == {x \in D : x > h}
<1>1. h \in D /\ h \notin A /\ A \in SUBSET D /\ Cardinality(A) >= Capacity
  BY DEF Excess
<1>2. Cardinality(D) \in Nat /\ Cardinality(A) \in Nat
      /\ Cardinality(A) <= Cardinality(D) /\ (Cardinality(D) = Cardinality(A) => D = A)
  BY <1>1, FS_Subset, FS_CardinalityType
<1> HIDE DEF A
<1> QED
  BY <1>1, <1>2, CacheAssumption

-----------------------------------------------------------------------------
(* Both maps, for one cache value *)

\* The two maps of cache c are finite, keyed by heights and inverse to each other.
Agree(c) ==
    /\ \A h \in DOMAIN c.by_height :
          /\ c.by_height[h].id \in DOMAIN c.by_id
          /\ c.by_id[c.by_height[h].id] = h
    /\ \A id \in DOMAIN c.by_id :
          /\ c.by_id[id] \in DOMAIN c.by_height
          /\ c.by_height[c.by_id[id]].id = id

\* Heights are CacheHeights and finitely many, entries are typed.
Typed(c) ==
    /\ DOMAIN c = {"by_height", "by_id"}
    /\ DOMAIN c.by_height \subseteq CacheHeight
    /\ IsFiniteSet(DOMAIN c.by_height)
    /\ \A h \in DOMAIN c.by_height : c.by_height[h] \in [id : CacheId, value : CacheValue]
    /\ DOMAIN c.by_id \subseteq CacheId

\* The inductive invariant: typed, inverse maps, within capacity.
CacheInv ==
    /\ Typed(cache)
    /\ Agree(cache)
    /\ Cardinality(DOMAIN cache.by_height) <= Capacity

\* Dropping heights with the ids they hold keeps the maps inverse.
LEMMA DropHeightsSpec ==
    ASSUME NEW c, Typed(c), Agree(c), NEW H \in SUBSET (DOMAIN c.by_height)
    PROVE  /\ Typed(DropHeights(c, H))
           /\ Agree(DropHeights(c, H))
           /\ DOMAIN DropHeights(c, H).by_height = DOMAIN c.by_height \ H
<1> DEFINE d == DropHeights(c, H)
           gone == {c.by_height[h].id : h \in H}
<1>1. /\ DOMAIN d = {"by_height", "by_id"}
      /\ DOMAIN d.by_height = DOMAIN c.by_height \ H
      /\ \A h \in DOMAIN d.by_height : d.by_height[h] = c.by_height[h]
      /\ DOMAIN d.by_id = DOMAIN c.by_id \ gone
      /\ \A id \in DOMAIN d.by_id : d.by_id[id] = c.by_id[id]
  BY DEF DropHeights, Without
<1>2. IsFiniteSet(DOMAIN d.by_height)
  BY <1>1, FS_Subset DEF Typed
<1> HIDE DEF d
<1>3. Typed(d)
  BY <1>1, <1>2 DEF Typed
<1>4. ASSUME NEW h \in DOMAIN d.by_height
      PROVE  /\ d.by_height[h].id \in DOMAIN d.by_id
             /\ d.by_id[d.by_height[h].id] = h
  <2>1. h \in DOMAIN c.by_height /\ h \notin H /\ d.by_height[h] = c.by_height[h]
    BY <1>1
  <2>2. c.by_height[h].id \notin gone
    BY <2>1 DEF Agree
  <2> QED
    BY <1>1, <2>1, <2>2 DEF Agree
<1>5. ASSUME NEW id \in DOMAIN d.by_id
      PROVE  /\ d.by_id[id] \in DOMAIN d.by_height
             /\ d.by_height[d.by_id[id]].id = id
  <2>1. id \in DOMAIN c.by_id /\ id \notin gone /\ d.by_id[id] = c.by_id[id]
    BY <1>1
  <2>2. c.by_id[id] \in DOMAIN c.by_height /\ c.by_height[c.by_id[id]].id = id
    BY <2>1 DEF Agree
  <2>3. c.by_id[id] \notin H
    BY <2>1, <2>2
  <2> QED
    BY <1>1, <2>1, <2>2, <2>3
<1>6. Agree(d)
  BY <1>4, <1>5 DEF Agree
<1> QED
  BY <1>1, <1>3, <1>6 DEF d

-----------------------------------------------------------------------------
(* The three calls *)

\* insert, before the eviction loop: a block that replaces another at its height,
\* or moves between heights, leaves no stale key in either map.
LEMMA PutSpec ==
    ASSUME NEW c, Typed(c), Agree(c),
           NEW h \in CacheHeight, NEW id \in CacheId, NEW v \in CacheValue,
           NEW put,
           put = [by_height |-> With(Without(c.by_height, Moved(c, h, id)),
                                     h, [id |-> id, value |-> v]),
                  by_id     |-> With(Without(c.by_id, Displaced(c, h, id)), id, h)]
    PROVE  Typed(put) /\ Agree(put)
<1>1. /\ DOMAIN put = {"by_height", "by_id"}
      /\ DOMAIN put.by_height = (DOMAIN c.by_height \ Moved(c, h, id)) \cup {h}
      /\ put.by_height[h] = [id |-> id, value |-> v]
      /\ \A k \in DOMAIN put.by_height : k # h => put.by_height[k] = c.by_height[k]
      /\ DOMAIN put.by_id = (DOMAIN c.by_id \ Displaced(c, h, id)) \cup {id}
      /\ put.by_id[id] = h
      /\ \A j \in DOMAIN put.by_id : j # id => put.by_id[j] = c.by_id[j]
  BY DEF With, Without
<1>2. IsFiniteSet(DOMAIN put.by_height)
  <2>1. IsFiniteSet(DOMAIN c.by_height \ Moved(c, h, id))
    BY FS_Subset DEF Typed
  <2> QED
    BY <1>1, <2>1, FS_AddElement
<1>3. Typed(put)
  <2>1. \A k \in DOMAIN put.by_height : put.by_height[k] \in [id : CacheId, value : CacheValue]
    BY <1>1 DEF Typed
  <2> QED
    BY <1>1, <1>2, <2>1 DEF Typed
<1>4. ASSUME NEW k \in DOMAIN put.by_height
      PROVE  /\ put.by_height[k].id \in DOMAIN put.by_id
             /\ put.by_id[put.by_height[k].id] = k
  <2>1. CASE k = h
    BY <1>1, <2>1
  <2>2. CASE k # h
    <3>1. k \in DOMAIN c.by_height /\ k \notin Moved(c, h, id)
      BY <1>1, <2>2
    <3>2. /\ c.by_height[k].id \in DOMAIN c.by_id
          /\ c.by_id[c.by_height[k].id] = k
      BY <3>1 DEF Agree
    <3>3. c.by_height[k].id # id
      BY <2>2, <3>1, <3>2 DEF Moved
    <3>4. c.by_height[k].id \notin Displaced(c, h, id)
      BY <2>2, <3>2 DEF Displaced, Agree
    <3> QED
      BY <1>1, <2>2, <3>2, <3>3, <3>4
  <2> QED
    BY <2>1, <2>2
<1>5. ASSUME NEW j \in DOMAIN put.by_id
      PROVE  /\ put.by_id[j] \in DOMAIN put.by_height
             /\ put.by_height[put.by_id[j]].id = j
  <2>1. CASE j = id
    BY <1>1, <2>1
  <2>2. CASE j # id
    <3>1. j \in DOMAIN c.by_id /\ j \notin Displaced(c, h, id)
      BY <1>1, <2>2
    <3>2. /\ c.by_id[j] \in DOMAIN c.by_height
          /\ c.by_height[c.by_id[j]].id = j
      BY <3>1 DEF Agree
    <3>3. c.by_id[j] # h
      BY <2>2, <3>1, <3>2 DEF Displaced
    <3>4. c.by_id[j] \notin Moved(c, h, id)
      BY <2>2, <3>2 DEF Moved, Agree
    <3> QED
      BY <1>1, <2>2, <3>2, <3>3, <3>4
  <2> QED
    BY <2>1, <2>2
<1> QED
  BY <1>3, <1>4, <1>5 DEF Agree

\* BlockCache::insert keeps the invariant.
LEMMA InsertKeeps ==
    ASSUME CacheInv, NEW h \in CacheHeight, NEW id \in CacheId, NEW v \in CacheValue,
           cache' = Insert(cache, h, id, v)
    PROVE  CacheInv'
<1> DEFINE put == [by_height |-> With(Without(cache.by_height, Moved(cache, h, id)),
                                      h, [id |-> id, value |-> v]),
                   by_id     |-> With(Without(cache.by_id, Displaced(cache, h, id)), id, h)]
<1>1. cache' = DropHeights(put, Excess(put.by_height))
  BY DEF Insert
<1>2. Typed(put) /\ Agree(put)
  BY PutSpec DEF CacheInv
<1> HIDE DEF put
<1>3. Excess(put.by_height) \in SUBSET (DOMAIN put.by_height)
  BY DEF Excess
<1>4. /\ Typed(cache') /\ Agree(cache')
      /\ DOMAIN cache'.by_height = DOMAIN put.by_height \ Excess(put.by_height)
  BY <1>1, <1>2, <1>3, DropHeightsSpec
<1>5. Cardinality(DOMAIN cache'.by_height) <= Capacity
  BY <1>2, <1>4, ExcessSpec, CacheAssumption DEF Typed
<1> QED
  BY <1>4, <1>5 DEF CacheInv, Typed, Agree

\* Dropping heights keeps the invariant: nothing is added.
LEMMA DropKeeps ==
    ASSUME CacheInv, NEW H \in SUBSET CachedHeights, cache' = DropHeights(cache, H)
    PROVE  CacheInv'
<1>1. /\ Typed(cache') /\ Agree(cache')
      /\ DOMAIN cache'.by_height = DOMAIN cache.by_height \ H
  BY DropHeightsSpec DEF CacheInv, CachedHeights
<1>2. Cardinality(DOMAIN cache'.by_height) <= Cardinality(DOMAIN cache.by_height)
  <2>1. DOMAIN cache'.by_height \in SUBSET (DOMAIN cache.by_height)
    BY <1>1
  <2> QED
    BY <2>1, FS_Subset DEF CacheInv, Typed
<1>3. /\ Cardinality(DOMAIN cache.by_height) \in Nat
      /\ Cardinality(DOMAIN cache'.by_height) \in Nat
  BY <1>1, FS_CardinalityType DEF CacheInv, Typed
<1>4. Cardinality(DOMAIN cache'.by_height) <= Capacity
  BY <1>2, <1>3, CacheAssumption DEF CacheInv
<1> QED
  BY <1>1, <1>4 DEF CacheInv, Typed, Agree

\* remove_by_id drops the height the id is mapped to, and nothing else.
LEMMA RemoveIsDrop ==
    ASSUME CacheInv, NEW id \in DOMAIN cache.by_id
    PROVE  RemoveById(cache, id) = DropHeights(cache, {cache.by_id[id]})
<1>1. {cache.by_height[k].id : k \in {cache.by_id[id]}} = {id}
  BY DEF CacheInv, Agree
<1> QED
  BY <1>1 DEF RemoveById, DropHeights

\* Every call keeps the invariant.
LEMMA CacheStep == CacheInv /\ [CacheNext]_cache => CacheInv'
<1> SUFFICES ASSUME CacheInv, [CacheNext]_cache PROVE CacheInv'
  OBVIOUS
<1>1. CASE \E h \in CacheHeight, id \in CacheId, v \in CacheValue :
              cache' = Insert(cache, h, id, v)
  BY <1>1, InsertKeeps
<1>2. ASSUME NEW id \in CacheId, cache' = RemoveById(cache, id)
      PROVE  CacheInv'
  <2>1. CASE id \in DOMAIN cache.by_id
    <3>1. {cache.by_id[id]} \in SUBSET CachedHeights
      BY <2>1 DEF CacheInv, Agree, CachedHeights
    <3>2. cache' = DropHeights(cache, {cache.by_id[id]})
      BY <1>2, <2>1, RemoveIsDrop
    <3> QED
      BY <3>1, <3>2, DropKeeps
  <2>2. CASE id \notin DOMAIN cache.by_id
    BY <1>2, <2>2 DEF RemoveById, CacheInv, Typed, Agree
  <2> QED
    BY <2>1, <2>2
<1>3. ASSUME NEW h \in CacheHeight, cache' = PruneBelow(cache, h)
      PROVE  CacheInv'
  <2>1. {k \in DOMAIN cache.by_height : k < h} \in SUBSET CachedHeights
    BY DEF CachedHeights
  <2> QED
    BY <1>3, <2>1, DropKeeps DEF PruneBelow
<1>4. CASE UNCHANGED cache
  BY <1>4 DEF CacheInv, Typed, Agree
<1> QED
  BY <1>1, <1>2, <1>3, <1>4 DEF CacheNext

\* A new cache satisfies the invariant.
LEMMA CacheStart == CacheInit => CacheInv
<1> SUFFICES ASSUME CacheInit PROVE CacheInv
  OBVIOUS
<1>1. /\ DOMAIN cache = {"by_height", "by_id"}
      /\ DOMAIN cache.by_height = {} /\ DOMAIN cache.by_id = {}
  BY DEF CacheInit, EmptyCache
<1>2. IsFiniteSet({}) /\ Cardinality({}) = 0
  BY FS_EmptySet
<1> QED
  BY <1>1, <1>2, CacheAssumption DEF CacheInv, Typed, Agree

\* The invariant holds for ever.
LEMMA CacheInvariance == CacheSpec => []CacheInv
  BY CacheStart, CacheStep, PTL DEF CacheSpec

\* BlockCache's two maps stay inverse to each other for any capacity, ids and
\* heights, whatever callers insert, remove or prune.
THEOREM CacheIndexesAgree == CacheSpec => []IndexesAgree
<1>1. CacheInv => IndexesAgree
  BY DEF CacheInv, Agree, IndexesAgree, CachedHeights
<1> QED
  BY <1>1, CacheInvariance, PTL

\* A call never returns with more than `capacity` blocks in the cache.
THEOREM CacheBounded == CacheSpec => []WithinCapacity
<1>1. CacheInv => WithinCapacity
  BY DEF CacheInv, WithinCapacity, CachedHeights
<1> QED
  BY <1>1, CacheInvariance, PTL

\* The maps keep their types.
THEOREM CacheTypeCorrect == CacheSpec => []CacheTypeOK
<1>1. CacheInv => CacheTypeOK
  BY DEF CacheInv, Typed, CacheTypeOK, CachedHeights
<1> QED
  BY <1>1, CacheInvariance, PTL

-----------------------------------------------------------------------------
(* What a call may evict *)

\* The formula of EvictsOldest.
EvictBody ==
    Cardinality(CachedHeights') >= Cardinality(CachedHeights) =>
        \A h \in CachedHeights \ CachedHeights' :
            \/ \A k \in CachedHeights' : h < k
            \/ cache.by_height[h].id \in DOMAIN cache'.by_id

\* A call that only drops heights has fewer of them afterwards.
LEMMA DropEvicts ==
    ASSUME CacheInv, NEW H \in SUBSET CachedHeights, cache' = DropHeights(cache, H)
    PROVE  EvictBody
<1>1. CachedHeights' = CachedHeights \ H /\ IsFiniteSet(CachedHeights)
  BY DropHeightsSpec DEF CacheInv, CachedHeights, Typed
<1>2. CachedHeights' \in SUBSET CachedHeights
  BY <1>1
<1>3. /\ Cardinality(CachedHeights') <= Cardinality(CachedHeights)
      /\ Cardinality(CachedHeights) = Cardinality(CachedHeights') =>
            CachedHeights = CachedHeights'
      /\ IsFiniteSet(CachedHeights')
  BY <1>1, <1>2, FS_Subset
<1>4. Cardinality(CachedHeights) \in Nat /\ Cardinality(CachedHeights') \in Nat
  BY <1>1, <1>3, FS_CardinalityType
<1>5. Cardinality(CachedHeights') >= Cardinality(CachedHeights) =>
         CachedHeights = CachedHeights'
  BY <1>3, <1>4
<1> QED
  BY <1>5 DEF EvictBody

\* insert loses a height to the eviction loop, or because its block moved.
LEMMA InsertEvicts ==
    ASSUME CacheInv, NEW h \in CacheHeight, NEW id \in CacheId, NEW v \in CacheValue,
           cache' = Insert(cache, h, id, v)
    PROVE  EvictBody
<1> DEFINE put == [by_height |-> With(Without(cache.by_height, Moved(cache, h, id)),
                                      h, [id |-> id, value |-> v]),
                   by_id     |-> With(Without(cache.by_id, Displaced(cache, h, id)), id, h)]
           D == DOMAIN cache.by_height
           P == DOMAIN put.by_height
           E == Excess(put.by_height)
<1>1. cache' = DropHeights(put, E)
  BY DEF Insert
<1>2. Typed(put) /\ Agree(put)
  BY PutSpec DEF CacheInv
<1>3. P = (D \ Moved(cache, h, id)) \cup {h} /\ id \in DOMAIN put.by_id
  BY DEF With, Without
<1> HIDE DEF put
<1>4. E \in SUBSET P
  BY DEF Excess
<1>5. DOMAIN cache'.by_height = P \ E
  BY <1>1, <1>2, <1>4, DropHeightsSpec
<1>6. /\ IsFiniteSet(P) /\ P \subseteq Nat /\ IsFiniteSet(D)
      /\ Cardinality(D) <= Capacity
  BY <1>2, CacheAssumption DEF Typed, CacheInv
<1>7. ASSUME NEW x \in D \ (P \ E)
      PROVE  (\A k \in P \ E : x < k) \/ cache.by_height[x].id \in DOMAIN cache'.by_id
  <2>1. CASE x \in E
    <3>1. \A k \in P \ E : x < k
      BY <1>6, <2>1, ExcessIsLowest
    <3> QED
      BY <3>1
  <2>2. CASE x \notin E
    <3>1. x \in Moved(cache, h, id) /\ x # h
      BY <1>3, <2>2
    <3>2. id \in DOMAIN cache.by_id /\ cache.by_id[id] = x /\ Moved(cache, h, id) = {x}
      BY <3>1 DEF Moved
    <3>3. cache.by_height[x].id = id
      BY <3>2 DEF CacheInv, Agree
    <3>4. IsFiniteSet(D \ {x}) /\ Cardinality(D \ {x}) = Cardinality(D) - 1
      BY <1>6, FS_RemoveElement
    <3>5. Cardinality(P) <= Cardinality(D)
      <4>1. P = (D \ {x}) \cup {h}
        BY <1>3, <3>2
      <4>2. Cardinality(P) = IF h \in D \ {x} THEN Cardinality(D \ {x})
                                              ELSE Cardinality(D \ {x}) + 1
        BY <3>4, <4>1, FS_AddElement
      <4>3. Cardinality(D) \in Nat
        BY <1>6, FS_CardinalityType
      <4> QED
        BY <3>4, <4>2, <4>3
    <3>6. E = {}
      <4>1. Cardinality(P) \in Nat /\ Cardinality(D) \in Nat
        BY <1>6, FS_CardinalityType
      <4>2. Cardinality(P) <= Capacity
        BY <1>6, <3>5, <4>1, CacheAssumption
      <4> QED
        BY <1>6, <4>2, ExcessOfFew
    <3>7. DOMAIN cache'.by_id = DOMAIN put.by_id
      BY <1>1, <3>6 DEF DropHeights, Without
    <3> QED
      BY <1>3, <3>3, <3>7
  <2> QED
    BY <2>1, <2>2
<1> QED
  BY <1>5, <1>7 DEF EvictBody, CachedHeights

\* insert evicts the lowest heights, so a full cache never loses its newest block:
\* a height that disappears although the cache did not shrink lies below all that
\* stays, unless its block was inserted again at another height.
THEOREM EvictionTakesOldest == CacheSpec => EvictsOldest
<1>1. CacheInv /\ [CacheNext]_cache => [EvictBody]_cache
  <2> SUFFICES ASSUME CacheInv, CacheNext PROVE EvictBody \/ UNCHANGED cache
    OBVIOUS
  <2>1. CASE \E h \in CacheHeight, id \in CacheId, v \in CacheValue :
                cache' = Insert(cache, h, id, v)
    BY <2>1, InsertEvicts
  <2>2. ASSUME NEW id \in CacheId, cache' = RemoveById(cache, id)
        PROVE  EvictBody \/ UNCHANGED cache
    <3>1. CASE id \in DOMAIN cache.by_id
      <4>1. {cache.by_id[id]} \in SUBSET CachedHeights
        BY <3>1 DEF CacheInv, Agree, CachedHeights
      <4>2. cache' = DropHeights(cache, {cache.by_id[id]})
        BY <2>2, <3>1, RemoveIsDrop
      <4> QED
        BY <4>1, <4>2, DropEvicts
    <3>2. CASE id \notin DOMAIN cache.by_id
      BY <2>2, <3>2 DEF RemoveById
    <3> QED
      BY <3>1, <3>2
  <2>3. ASSUME NEW h \in CacheHeight, cache' = PruneBelow(cache, h)
        PROVE  EvictBody
    <3>1. {k \in DOMAIN cache.by_height : k < h} \in SUBSET CachedHeights
      BY DEF CachedHeights
    <3> QED
      BY <2>3, <3>1, DropEvicts DEF PruneBelow
  <2> QED
    BY <2>1, <2>2, <2>3 DEF CacheNext
<1>2. EvictsOldest <=> [][EvictBody]_cache
  BY DEF EvictsOldest, EvictBody
<1> QED
  BY <1>1, <1>2, CacheInvariance, PTL DEF CacheSpec

-----------------------------------------------------------------------------
(* Moving the head of a sequence *)

\* Taking the head of s and putting it behind r moves nothing.
LEMMA MoveHead ==
    ASSUME NEW T, NEW r \in Seq(T), NEW s \in Seq(T), s # <<>>
    PROVE  /\ Head(s) \in T /\ Tail(s) \in Seq(T) /\ Len(Tail(s)) = Len(s) - 1
           /\ <<Head(s)>> \in Seq(T)
           /\ Append(r, Head(s)) \in Seq(T)
           /\ Append(r, Head(s)) = r \o <<Head(s)>>
           /\ Append(r, Head(s)) \o Tail(s) = r \o s
           /\ s = <<Head(s)>> \o Tail(s)
           /\ \A k \in 1 .. Len(s) - 1 : Tail(s)[k] = s[k + 1]
<1> DEFINE h == Head(s)
           t == Tail(s)
<1>1. /\ h \in T /\ h = s[1] /\ t \in Seq(T) /\ Len(t) = Len(s) - 1
      /\ Len(s) \in Nat /\ Len(r) \in Nat /\ Len(s) >= 1
      /\ \A k \in 1 .. Len(s) - 1 : t[k] = s[k + 1]
  <2>1. Len(s) \in Nat /\ Len(s) # 0 /\ Len(r) \in Nat
    BY EmptySeq
  <2> QED
    BY <2>1, HeadTailProperties
<1>2. <<h>> \in Seq(T) /\ Len(<<h>>) = 1 /\ <<h>>[1] = h
  BY <1>1
<1> HIDE DEF h, t
<1>3. /\ Append(r, h) \in Seq(T) /\ Len(Append(r, h)) = Len(r) + 1
      /\ (\A i \in 1 .. Len(r) : Append(r, h)[i] = r[i]) /\ Append(r, h)[Len(r) + 1] = h
  BY <1>1, AppendProperties
<1>4. Append(r, h) = r \o <<h>>
  <2>1. /\ r \o <<h>> \in Seq(T) /\ Len(r \o <<h>>) = Len(r) + 1
        /\ \A i \in 1 .. Len(r) + 1 :
              (r \o <<h>>)[i] = IF i <= Len(r) THEN r[i] ELSE <<h>>[i - Len(r)]
    BY <1>1, <1>2, ConcatProperties
  <2>2. ASSUME NEW i \in 1 .. Len(r) + 1 PROVE Append(r, h)[i] = (r \o <<h>>)[i]
    <3>1. i \in 1 .. Len(r) \/ (i = Len(r) + 1 /\ ~ (i <= Len(r)) /\ i - Len(r) = 1)
      BY <1>1
    <3> QED
      BY <1>2, <1>3, <2>1, <3>1
  <2> QED
    BY <1>3, <2>1, <2>2, SeqEqual
<1>5. s = <<h>> \o t
  <2>1. /\ <<h>> \o t \in Seq(T) /\ Len(<<h>> \o t) = 1 + Len(t)
        /\ \A i \in 1 .. 1 + Len(t) :
              (<<h>> \o t)[i] = IF i <= 1 THEN <<h>>[i] ELSE t[i - 1]
    BY <1>1, <1>2, ConcatProperties
  <2>2. ASSUME NEW i \in 1 .. Len(s) PROVE s[i] = (<<h>> \o t)[i]
    <3>1. i \in 1 .. 1 + Len(t)
      BY <1>1
    <3>2. CASE i = 1
      BY <1>1, <1>2, <2>1, <3>1, <3>2
    <3>3. CASE i # 1
      <4>1. ~ (i <= 1) /\ i - 1 \in 1 .. Len(s) - 1 /\ (i - 1) + 1 = i
        BY <1>1, <3>3
      <4> QED
        BY <1>1, <2>1, <3>1, <4>1
    <3> QED
      BY <3>2, <3>3
  <2>3. Len(s) = 1 + Len(t)
    BY <1>1
  <2> QED
    BY <2>1, <2>2, <2>3, SeqEqual
<1>6. (r \o <<h>>) \o t = r \o (<<h>> \o t)
  BY <1>1, <1>2, ConcatAssociative
<1> QED
  BY <1>1, <1>2, <1>3, <1>4, <1>5, <1>6 DEF h, t

-----------------------------------------------------------------------------
(* The service's own invariant *)

\* What holds of the service whatever the receiver does: the engine's invariant, and
\* no output is pending when the engine may be called.
ServiceInv ==
    /\ IInv
    /\ node_head \in Block
    /\ channel \in Seq(Output) /\ outbox \in Seq(Output)
    /\ fed \in BOOLEAN /\ closed \in BOOLEAN
    /\ phase \in {"idle", "solid", "now"} => outbox = <<>>
    /\ fed => outbox # <<>>

\* The step is a call of the engine, whose outputs become the outbox.
EngineCall ==
    /\ \/ \E b \in Block : Accept(b) /\ Len(fork_history') <= MaxForkHistory
       \/ \E h \in SolidHead : SetSolidifiedHead(h)
    /\ outbox = <<>> /\ outbox' = ret'.out
    /\ UNCHANGED <<fed, channel, closed, cache, seen_at>>

\* accept returns outputs or an error, never both.
LEMMA ErrorsAreSilent ==
    ASSUME NEW b \in Block, Accept(b), ret'.err # "none"
    PROVE  ret'.out = <<>>
<1>1. ASSUME NEW base, NEW ids, NEW fh, NEW out, Push(base, ids, b, fh, out)
      PROVE  FALSE
  BY <1>1 DEF Push, Settle, Ok
<1>2. ~ PushCanonicalFirst(b) /\ ~ ExtendCanonical(b) /\ ~ HandleReorg(b)
  BY <1>1 DEF PushCanonicalFirst, ExtendCanonical, HandleReorg
<1>3. RejectDuplicate(b) \/ RefuseReorg(b) \/ RejectUnknownParent(b)
  BY <1>2 DEF Accept
<1> QED
  BY <1>3 DEF RejectDuplicate, RefuseReorg, RejectUnknownParent, Err

\* A step of the service's own task, of the refresh task or of the node, or the end of
\* the receiver, is a call of the engine, or leaves the engine alone and feeds, ships
\* or closes, or leaves all of these alone.
LEMMA TaskCases ==
    ASSUME ServiceInv,
           \/ ServiceStep \/ CloseChannel
           \/ (\E s \in SrSets : RefreshSrSet(s)) \/ (\E b \in Block : NodeMoves(b))
    PROVE  \/ EngineCall
           \/ UNCHANGED engineVars /\ (FeedOutput \/ SendOutput \/ CloseChannel)
           \/ UNCHANGED <<engineVars, outbox, fed, channel, closed, cache, seen_at>>
<1>1. ASSUME NEW h \in SolidHead, SolidHeadOk(h) PROVE EngineCall
  BY <1>1 DEF SolidHeadOk, EngineCall, ServiceInv
<1>2. ASSUME NowBlockOk
      PROVE  \/ EngineCall
             \/ UNCHANGED <<engineVars, outbox, fed, channel, closed, cache, seen_at>>
  <2>1. CASE IsTip(node_head) \/ ~ Verified(node_head)
    BY <1>2, <2>1 DEF NowBlockOk, SkipBlock
  <2>2. CASE ~ (IsTip(node_head) \/ ~ Verified(node_head))
    BY <1>2, <2>2 DEF NowBlockOk, EngineCall, ServiceInv
  <2> QED
    BY <2>1, <2>2
<1>3. FeedOutput \/ SendOutput \/ CloseChannel => UNCHANGED engineVars
  BY DEF FeedOutput, SendOutput, CloseChannel
<1>4. \/ Tick \/ SolidHeadMissing \/ NowBlockErr \/ SendFails \/ DrainDone
      \/ (\E s \in SrSets : RefreshSrSet(s)) \/ (\E b \in Block : NodeMoves(b))
      => UNCHANGED <<engineVars, outbox, fed, channel, closed, cache, seen_at>>
  BY DEF Tick, SolidHeadMissing, NowBlockErr, SkipBlock, SendFails, DrainDone,
         RefreshSrSet, NodeMoves
<1> QED
  BY <1>1, <1>2, <1>3, <1>4 DEF ServiceStep

\* Every step of the service is one of these, or receives.
LEMMA ServiceCases ==
    ASSUME ServiceInv, ServiceNext
    PROVE  \/ EngineCall
           \/ UNCHANGED engineVars /\ (FeedOutput \/ SendOutput \/ Recv \/ CloseChannel)
           \/ UNCHANGED <<engineVars, outbox, fed, channel, closed, cache, seen_at>>
<1>1. Recv => UNCHANGED engineVars
  BY DEF Recv
<1> QED
  BY <1>1, TaskCases DEF ServiceNext

\* Every step of the service keeps its invariant.
LEMMA ServiceStepKeeps ==
    ASSUME ServiceInv, [ServiceNext]_serviceVars
    PROVE  ServiceInv'
<1>1. IInv'
  <2>1. [EngineNext]_engineVars
    <3>1. CASE ServiceNext
      <4>1. EngineCall => EngineNext
        BY DEF EngineCall, EngineNext
      <4>2. CASE UNCHANGED <<engineVars, outbox, fed, channel, closed, cache, seen_at>>
        BY <4>2
      <4> QED
        BY <3>1, <4>1, <4>2, ServiceCases
    <3>2. CASE UNCHANGED serviceVars
      BY <3>2 DEF serviceVars
    <3> QED
      BY <3>1, <3>2
  <2> QED
    BY <2>1, StepPreserves DEF ServiceInv
<1>2. ret'.out \in Seq(Output)
  BY <1>1 DEF IInv, TypeOK
<1>3. node_head' \in Block
  <2>1. CASE ServiceNext
    BY <2>1 DEF ServiceInv, ServiceNext, ServiceStep, Tick, SolidHeadOk, SolidHeadMissing,
                NowBlockErr, NowBlockOk, SkipBlock, FeedOutput, SendOutput, SendFails,
                DrainDone, Recv, CloseChannel, RefreshSrSet, NodeMoves
  <2>2. CASE UNCHANGED serviceVars
    BY <2>2 DEF serviceVars, serviceOnly, ServiceInv
  <2> QED
    BY <2>1, <2>2
<1> DEFINE Rest == /\ channel \in Seq(Output) /\ outbox \in Seq(Output)
                   /\ fed \in BOOLEAN /\ closed \in BOOLEAN
                   /\ phase \in {"idle", "solid", "now"} => outbox = <<>>
                   /\ fed => outbox # <<>>
<1>4. Rest
  BY DEF ServiceInv
<1>5. ASSUME NEW h \in SolidHead, SolidHeadOk(h) PROVE Rest'
  BY <1>2, <1>4, <1>5 DEF SolidHeadOk
<1>6. ASSUME NowBlockOk PROVE Rest'
  <2>1. CASE IsTip(node_head) \/ ~ Verified(node_head)
    BY <1>4, <1>6, <2>1 DEF NowBlockOk, SkipBlock
  <2>2. CASE ~ (IsTip(node_head) \/ ~ Verified(node_head))
    <3>1. /\ phase = "now" /\ Accept(node_head) /\ outbox' = ret'.out
          /\ phase' = IF ret'.err = "none" THEN "drain_now" ELSE "idle"
          /\ UNCHANGED <<fed, channel, closed>>
      BY <1>6, <2>2 DEF NowBlockOk
    <3>2. phase' \in {"idle", "solid", "now"} => ret'.out = <<>>
      BY <3>1, ErrorsAreSilent DEF ServiceInv
    <3>3. ~ fed
      BY <1>4, <3>1
    <3> QED
      BY <1>2, <1>4, <3>1, <3>2, <3>3
  <2> QED
    BY <2>1, <2>2
<1>7. ASSUME FeedOutput PROVE Rest'
  BY <1>4, <1>7 DEF FeedOutput
<1>8. ASSUME SendOutput PROVE Rest'
  <2>1. /\ fed /\ channel' = Append(channel, Head(outbox)) /\ outbox' = Tail(outbox)
        /\ fed' = FALSE /\ UNCHANGED <<phase, closed>>
    BY <1>8 DEF SendOutput, TakeFirst
  <2>2. outbox # <<>> /\ outbox \in Seq(Output) /\ channel \in Seq(Output)
    BY <1>4, <2>1
  <2>3. Append(channel, Head(outbox)) \in Seq(Output) /\ Tail(outbox) \in Seq(Output)
    BY <2>2, MoveHead
  <2> QED
    BY <1>4, <2>1, <2>2, <2>3
<1>9. ASSUME Recv PROVE Rest'
  <2>1. channel # <<>> /\ channel' = Tail(channel) /\ UNCHANGED <<phase, outbox, fed, closed>>
    BY <1>9 DEF Recv
  <2>2. Tail(channel) \in Seq(Output)
    BY <1>4, <2>1, MoveHead
  <2> QED
    BY <1>4, <2>1, <2>2
<1>10. ASSUME CloseChannel PROVE Rest'
  BY <1>4, <1>10 DEF CloseChannel
<1>11. ASSUME \/ Tick \/ SolidHeadMissing \/ NowBlockErr \/ SendFails \/ DrainDone
              \/ (\E s \in SrSets : RefreshSrSet(s)) \/ (\E b \in Block : NodeMoves(b))
       PROVE  Rest'
  BY <1>4, <1>11 DEF Tick, SolidHeadMissing, NowBlockErr, SkipBlock, SendFails, DrainDone,
                     RefreshSrSet, NodeMoves
<1>12. ASSUME UNCHANGED serviceVars PROVE Rest'
  BY <1>4, <1>12 DEF serviceVars, serviceOnly
<1> HIDE DEF Rest
<1>13. Rest'
  BY <1>5, <1>6, <1>7, <1>8, <1>9, <1>10, <1>11, <1>12 DEF ServiceNext, ServiceStep
<1> QED
  BY <1>1, <1>3, <1>13 DEF ServiceInv, Rest

\* A new service satisfies it.
LEMMA ServiceStart == ServiceInit => ServiceInv
<1> SUFFICES ASSUME ServiceInit PROVE ServiceInv
  OBVIOUS
<1>1. IInv
  BY InitHolds DEF ServiceInit
<1>2. /\ outbox = <<>> /\ channel = <<>> /\ fed = FALSE /\ closed = FALSE
      /\ node_head \in Block
  BY DEF ServiceInit
<1>3. <<>> \in Seq(Output)
  OBVIOUS
<1> QED
  BY <1>1, <1>2, <1>3 DEF ServiceInv

-----------------------------------------------------------------------------
(* The consumer behind the channel *)

\* The consumer once everything the engine has returned has arrived.
AllView == Replay(view, channel \o outbox)

\* The inductive invariant of the stream: as long as the receiver lives, that
\* consumer is in step with the engine.
IntactInv ==
    /\ ServiceInv
    /\ ~ closed => InStep(AllView, canonical, last_irreversible_height)

\* What a step does to the consumer's own state.
LEMMA ViewMoves ==
    ASSUME ServiceInv, StreamServiceNext
    PROVE  /\ Recv => view' = Apply(view, Head(channel))
           /\ channel' = channel \/ SendOutput \/ closed' => view' = view
<1>1. view' = IF Len(channel') < Len(channel) /\ ~ closed'
              THEN Apply(view, Head(channel)) ELSE view
  BY DEF StreamServiceNext
<1>2. channel \in Seq(Output) /\ Len(channel) \in Nat
  BY DEF ServiceInv
<1>3. ASSUME Recv PROVE Len(channel') < Len(channel) /\ ~ closed'
  <2>1. channel # <<>> /\ channel' = Tail(channel) /\ ~ closed /\ closed' = closed
    BY <1>3 DEF Recv
  <2>2. Len(Tail(channel)) = Len(channel) - 1
    BY <1>2, <2>1, MoveHead
  <2> QED
    BY <1>2, <2>1, <2>2
<1>4. ASSUME SendOutput PROVE ~ (Len(channel') < Len(channel))
  <2>1. outbox # <<>> /\ channel' = Append(channel, Head(outbox)) /\ outbox \in Seq(Output)
    BY <1>4 DEF SendOutput, TakeFirst, ServiceInv
  <2>2. Head(outbox) \in Output
    BY <1>2, <2>1, MoveHead
  <2>3. Len(channel') = Len(channel) + 1
    BY <1>2, <2>1, <2>2, AppendProperties
  <2> QED
    BY <1>2, <2>3
<1> QED
  BY <1>1, <1>2, <1>3, <1>4

\* Sending and receiving change neither the story nor its end; a call of the engine
\* appends its outputs to it.
LEMMA StoryMoves ==
    ASSUME ServiceInv, StreamServiceNext, ~ closed'
    PROVE  /\ ~ closed
           /\ \/ EngineCall /\ AllView' = Replay(AllView, ret'.out)
              \/ UNCHANGED engineVars /\ AllView' = AllView
<1>1. ServiceNext
  BY DEF StreamServiceNext
<1>2. channel \in Seq(Output) /\ outbox \in Seq(Output) /\ channel \o outbox \in Seq(Output)
  BY ConcatProperties DEF ServiceInv
<1>3. CASE EngineCall
  <2>1. /\ outbox = <<>> /\ outbox' = ret'.out /\ channel' = channel /\ closed' = closed
    BY <1>3 DEF EngineCall
  <2>2. view' = view
    BY <2>1, ViewMoves
  <2>3. ret'.out \in Seq(Output)
    BY <1>1, ServiceStepKeeps DEF ServiceInv, IInv, TypeOK
  <2>4. channel \o <<>> = channel
    BY <1>2, ConcatEmptySeq
  <2>5. Replay(view, channel \o ret'.out) = Replay(Replay(view, channel), ret'.out)
    BY <1>2, <2>3, ReplayOutputs, Zenon
  <2> QED
    BY <1>3, <2>1, <2>2, <2>4, <2>5 DEF AllView
<1>4. CASE UNCHANGED engineVars /\ FeedOutput
  <2>1. UNCHANGED <<channel, outbox, closed>>
    BY <1>4 DEF FeedOutput
  <2>2. view' = view
    BY <2>1, ViewMoves
  <2> QED
    BY <1>4, <2>1, <2>2 DEF AllView
<1>5. CASE UNCHANGED engineVars /\ SendOutput
  <2>1. /\ outbox # <<>> /\ channel' = Append(channel, Head(outbox))
        /\ outbox' = Tail(outbox) /\ closed' = closed
    BY <1>5 DEF SendOutput, TakeFirst, ServiceInv
  <2>2. view' = view
    BY <1>5, ViewMoves
  <2>3. Append(channel, Head(outbox)) \o Tail(outbox) = channel \o outbox
    BY <1>2, <2>1, MoveHead
  <2> QED
    BY <1>5, <2>1, <2>2, <2>3 DEF AllView
<1>6. CASE UNCHANGED engineVars /\ Recv
  <2> DEFINE h == Head(channel)
             t == Tail(channel)
  <2>1. channel # <<>> /\ channel' = t /\ outbox' = outbox /\ closed' = closed
    BY <1>6 DEF Recv
  <2>2. view' = Apply(view, h)
    BY <1>6, ViewMoves
  <2>3. /\ <<h>> \in Seq(Output) /\ t \in Seq(Output)
        /\ channel = <<h>> \o t
    BY <1>2, <2>1, MoveHead
  <2> HIDE DEF h, t
  <2>4. (<<h>> \o t) \o outbox = <<h>> \o (t \o outbox) /\ t \o outbox \in Seq(Output)
    BY <1>2, <2>3, ConcatAssociative, ConcatProperties
  <2>5. Replay(view, <<h>> \o (t \o outbox)) = Replay(Replay(view, <<h>>), t \o outbox)
    BY <2>3, <2>4, ReplayOutputs, Zenon
  <2>6. Replay(view, <<h>>) = Apply(view, h)
    BY ReplayShort
  <2>7. AllView = Replay(Apply(view, h), t \o outbox)
    BY <2>3, <2>4, <2>5, <2>6 DEF AllView
  <2>8. AllView' = Replay(Apply(view, h), t \o outbox)
    BY <2>1, <2>2 DEF AllView
  <2> QED
    BY <1>6, <2>1, <2>7, <2>8
<1>7. CASE CloseChannel
  BY <1>7 DEF CloseChannel
<1>8. CASE UNCHANGED <<engineVars, outbox, fed, channel, closed, cache, seen_at>>
  <2>1. view' = view
    BY <1>8, ViewMoves
  <2> QED
    BY <1>8, <2>1 DEF AllView
<1> QED
  BY <1>1, <1>3, <1>4, <1>5, <1>6, <1>7, <1>8, ServiceCases

\* Every step keeps the invariant.
LEMMA IntactStep ==
    ASSUME IntactInv, [StreamServiceNext]_<<serviceVars, view>>
    PROVE  IntactInv'
<1>1. ServiceInv'
  BY ServiceStepKeeps DEF IntactInv, StreamServiceNext
<1>2. ASSUME StreamServiceNext, ~ closed'
      PROVE  InStep(AllView', canonical', last_irreversible_height')
  <2>1. ~ closed /\ InStep(AllView, canonical, last_irreversible_height) /\ IInv
    BY <1>2, StoryMoves DEF IntactInv, ServiceInv
  <2>2. CASE EngineCall /\ AllView' = Replay(AllView, ret'.out)
    <3>1. \/ \E b \in Block : Accept(b)
          \/ \E h \in SolidHead : SetSolidifiedHead(h)
      BY <2>2 DEF EngineCall
    <3>2. InStep(Replay(AllView, ret'.out), canonical', last_irreversible_height')
      BY <2>1, <3>1, CallKeepsInStep
    <3> QED
      BY <2>2, <3>2
  <2>3. CASE UNCHANGED engineVars /\ AllView' = AllView
    BY <2>1, <2>3 DEF engineVars
  <2> QED
    BY <1>2, <2>2, <2>3, StoryMoves DEF IntactInv
<1>3. ASSUME UNCHANGED <<serviceVars, view>>, ~ closed'
      PROVE  InStep(AllView', canonical', last_irreversible_height')
  <2>1. UNCHANGED <<canonical, last_irreversible_height, view, channel, outbox, closed>>
    BY <1>3 DEF serviceVars, serviceOnly, engineVars
  <2>2. AllView' = AllView
    BY <2>1 DEF AllView
  <2> QED
    BY <1>3, <2>1, <2>2 DEF IntactInv
<1> QED
  BY <1>1, <1>2, <1>3 DEF IntactInv

\* Every state satisfies it.
LEMMA IntactInvariance == StreamServiceSpec => []IntactInv
<1>1. StreamServiceInit => IntactInv
  <2> SUFFICES ASSUME StreamServiceInit PROVE IntactInv
    OBVIOUS
  <2>1. ServiceInv
    BY ServiceStart DEF StreamServiceInit
  <2>2. /\ canonical = <<>> /\ last_irreversible_height = None
        /\ channel = <<>> /\ outbox = <<>> /\ view = FreshView
    BY DEF StreamServiceInit, ServiceInit, EngineInit
  <2>3. AllView = FreshView
    <3>1. <<>> \o <<>> = <<>>
      BY ConcatEmptySeq
    <3> QED
      BY <2>2, <3>1, ReplayShort DEF AllView
  <2> QED
    BY <2>1, <2>2, <2>3, FreshInStep DEF IntactInv
<1> QED
  BY <1>1, IntactStep, PTL DEF StreamServiceSpec

\* As long as the receiver lives, what it has applied, then the channel, then what
\* the service still holds, is the engine's story, and it ends in the buffer: the
\* send loop, the skips and the failed RPCs lose, repeat and reorder nothing.
THEOREM ServiceStreamIntact == StreamServiceSpec => []StreamIntact
<1>1. IntactInv => StreamIntact
  <2> SUFFICES ASSUME IntactInv, ~ closed
               PROVE  AllView.ok /\ IsSuffix(canonical, AllView.chain)
    BY DEF StreamIntact, AllView
  <2>1. InStep(AllView, canonical, last_irreversible_height) /\ IInv
    BY DEF IntactInv, ServiceInv
  <2>2. canonical \in Seq(Entry) /\ AllView.chain \in Seq(Entry)
    BY <2>1, BufferFacts DEF InStep, View
  <2>3. IsSuffix(canonical, AllView.chain)
    BY <2>1, <2>2, SuffixMeaning DEF InStep
  <2> QED
    BY <2>1, <2>3 DEF InStep
<1> QED
  BY <1>1, IntactInvariance, PTL

-----------------------------------------------------------------------------
(* What one call of the engine returns *)

\* The only New of outs is b's, and no Undo follows it.
OneNew(b, outs) ==
    \A k \in 1 .. Len(outs) :
        outs[k].step = "New" =>
            /\ outs[k].block.id = b
            /\ \A j \in k + 1 .. Len(outs) : outs[j].step \notin {"New", "Undo"}

\* The call pushed b behind the first a entries of the buffer.
PushCall(b, a, fh, out) ==
    LET base == SubSeq(canonical, 1, a)
        c    == Append(base, [id |-> b, fork_id |-> next_fork_id])
    IN  /\ base \in Seq(Entry) /\ Len(base) = a /\ Linked(base) /\ Contiguous(base)
        /\ \A i \in 1 .. a : base[i] = canonical[i]
        /\ b \notin canonical_ids
        /\ base # <<>> => Parent[b] = base[a].id
        /\ Height[b] > last_irreversible_height
        /\ canonical' = Pruned(c)
        /\ Settle(c, fh, solidified_head, out)
        /\ fh \in Seq(Observation) /\ out \in Seq(Output)
        /\ OneNew(b, out)

\* The call settled the buffer under head h.
SettleCall(h) ==
    /\ canonical' = canonical
    /\ Settle(canonical, fork_history, h, <<>>)
    /\ h \in OptHeight /\ last_irreversible_height <= h

\* The call did nothing.
QuietCall ==
    /\ UNCHANGED <<canonical, last_irreversible_height>>
    /\ ret'.out = <<>>

\* The last height fired is at or below the tip.
LEMMA FiredBelowTip ==
    ASSUME IInv, NEW v, InStep(v, canonical, last_irreversible_height)
    PROVE  /\ canonical = <<>> => last_irreversible_height = None
           /\ canonical # <<>> =>
                 last_irreversible_height <= Ht(canonical[Len(canonical)])
<1> DEFINE last == last_irreversible_height
           ch == v.chain
           L == Len(ch)
<1>1. canonical \in Seq(Entry) /\ Len(canonical) \in Nat /\ last \in OptHeight
  BY BufferFacts DEF IInv, TypeOK
<1>2. /\ ch \in Seq(Entry) /\ v.final \in Nat /\ L \in Nat
      /\ \A i \in 1 .. L : ch[i] \in Entry /\ Ht(ch[i]) \in Nat
  BY <1>1, InStepFacts
<1>3. v.final <= L /\ IF v.final = 0 THEN last = None ELSE Ht(ch[v.final]) = last
  BY DEF InStep
<1>4. ASSUME canonical = <<>> PROVE last = None
  <2>1. ch = <<>>
    BY <1>4 DEF InStep
  <2>2. v.final = 0
    BY <1>2, <1>3, <2>1
  <2> QED
    BY <1>3, <2>2
<1>5. ASSUME canonical # <<>> PROVE last <= Ht(canonical[Len(canonical)])
  <2>1. Len(canonical) \in 1 .. Len(canonical) /\ Len(canonical) <= L
    BY <1>1, <1>5, EmptySeq DEF InStep, EndsWith
  <2>2. canonical[Len(canonical)] = ch[L]
    <3>1. L - Len(canonical) + Len(canonical) = L
      BY <1>1, <1>2
    <3>2. canonical[Len(canonical)] = ch[L - Len(canonical) + Len(canonical)]
      BY <2>1 DEF InStep, EndsWith
    <3> QED
      BY <3>1, <3>2
  <2>3. L \in 1 .. L /\ 1 \in 1 .. L
    BY <1>1, <1>2, <2>1
  <2>4. CASE v.final = 0
    <3>1. Ht(ch[L]) \in Nat /\ last = -1
      BY <1>2, <1>3, <2>3, <2>4 DEF None
    <3> QED
      BY <2>2, <3>1
  <2>5. CASE v.final # 0
    <3>1. v.final \in 1 .. L
      BY <1>2, <1>3, <2>5
    <3>2. /\ Ht(ch[v.final]) = Ht(ch[1]) + v.final - 1
          /\ Ht(ch[L]) = Ht(ch[1]) + L - 1
      BY <2>3, <3>1 DEF InStep, Contiguous
    <3>3. PICK x \in Nat : x = Ht(ch[1])
      BY <1>2, <2>3
    <3>4. last = x + v.final - 1 /\ Ht(ch[L]) = x + L - 1
      BY <1>3, <2>5, <3>2, <3>3
    <3> HIDE DEF L, last
    <3>5. last <= Ht(ch[L])
      BY <1>2, <1>3, <3>3, <3>4
    <3> QED
      BY <2>2, <3>5 DEF L, last
  <2> QED
    BY <2>4, <2>5
<1> QED
  BY <1>4, <1>5

\* The outputs of a reorg before settling hold one New, after the Undos.
LEMMA ReorgOneNew ==
    ASSUME IInv, NEW b \in Block, NEW a \in 1 .. Len(canonical) - 1
    PROVE  LET o == Orphans(a)
           IN  OneNew(b, UndoOutputs(o) \o <<NewOutput(b), ForkObserved(Switch(b, o))>>)
<1> DEFINE o == Orphans(a)
           u == UndoOutputs(o)
           new == NewOutput(b)
           seen == ForkObserved(Switch(b, o))
           q == u \o <<new, seen>>
<1>1. /\ u \in Seq(Output) /\ Len(u) = Len(o) /\ Len(u) \in Nat
      /\ \A k \in 1 .. Len(o) : u[k].step = "Undo"
      /\ <<new, seen>> \in Seq(Output)
  BY ReorgOutputsType
<1>2. new.block.id = b /\ seen.step = "ForkObserved"
  BY DEF NewOutput, Streamable, ForkObserved
<1> HIDE DEF u, o, new, seen
<1>3. Len(<<new, seen>>) = 2 /\ <<new, seen>>[1] = new /\ <<new, seen>>[2] = seen
  OBVIOUS
<1>4. /\ Len(q) = Len(u) + 2
      /\ \A k \in 1 .. Len(u) + 2 :
            q[k] = IF k <= Len(u) THEN u[k] ELSE <<new, seen>>[k - Len(u)]
  BY <1>1, <1>3, ConcatProperties
<1> HIDE DEF q
<1>5. ASSUME NEW k \in 1 .. Len(q), q[k].step = "New"
      PROVE  q[k].block.id = b /\ \A j \in k + 1 .. Len(q) : q[j].step \notin {"New", "Undo"}
  <2>1. \/ k <= Len(u) /\ k \in 1 .. Len(u)
        \/ k = Len(u) + 1 /\ ~ (k <= Len(u)) /\ k - Len(u) = 1
        \/ k = Len(u) + 2 /\ ~ (k <= Len(u)) /\ k - Len(u) = 2
    <3> DEFINE m == Len(u)
    <3>1. m \in Nat /\ k \in 1 .. m + 2
      BY <1>1, <1>4
    <3> HIDE DEF m
    <3>2. \/ k <= m /\ k \in 1 .. m
          \/ k = m + 1 /\ ~ (k <= m) /\ k - m = 1
          \/ k = m + 2 /\ ~ (k <= m) /\ k - m = 2
      BY <3>1
    <3> QED
      BY <3>2 DEF m
  <2>2. k = Len(u) + 1 /\ q[k] = new
    BY <1>1, <1>2, <1>3, <1>4, <1>5, <2>1
  <2>3. ASSUME NEW j \in k + 1 .. Len(q) PROVE q[j].step = "ForkObserved"
    <3>1. j \in 1 .. Len(u) + 2 /\ ~ (j <= Len(u)) /\ j - Len(u) = 2
      BY <1>1, <1>4, <2>2
    <3>2. q[j] = seen
      BY <1>3, <1>4, <3>1
    <3> QED
      BY <1>2, <3>2
  <2> QED
    BY <1>2, <2>2, <2>3
<1> QED
  BY <1>5 DEF OneNew, q, u, o, new, seen

\* The three kinds of call.
LEMMA CallKinds ==
    ASSUME IInv, NEW v, InStep(v, canonical, last_irreversible_height),
           \/ \E b \in Block : Accept(b)
           \/ \E h \in SolidHead : SetSolidifiedHead(h)
    PROVE  \/ QuietCall
           \/ \E h : SettleCall(h)
           \/ \E b \in Block, a \in 0 .. Len(canonical) : \E fh, out : PushCall(b, a, fh, out)
<1> DEFINE last == last_irreversible_height
           Push3 == \E b \in Block, a \in 0 .. Len(canonical) : \E fh, out : PushCall(b, a, fh, out)
<1>1. /\ TypeOK /\ last <= solidified_head /\ last \in OptHeight
      /\ solidified_head \in OptHeight /\ fork_history \in Seq(Observation)
  BY DEF IInv, FinalityComplete, TypeOK
<1>2. /\ canonical \in Seq(Entry) /\ Len(canonical) \in Nat
      /\ Linked(canonical) /\ Contiguous(canonical)
      /\ \A i \in 1 .. Len(canonical) : canonical[i] \in Entry /\ Ht(canonical[i]) \in Nat
  BY BufferFacts
<1>3. last \in Int
  BY <1>1 DEF OptHeight, None
<1>4. \A b \in Block : Height[b] \in Nat
  BY ChainAssumption
<1>5. ASSUME NEW b \in Block, PushCanonicalFirst(b) \/ ExtendCanonical(b) PROVE Push3
  <2> DEFINE out == <<NewOutput(b)>>
             a == Len(canonical)
  <2>1. /\ Push(canonical, canonical_ids, b, fork_history, out)
        /\ b \notin canonical_ids
        /\ canonical # <<>> => Parent[b] = canonical[a].id
    BY <1>5 DEF PushCanonicalFirst, ExtendCanonical, Tip
  <2>2. SubSeq(canonical, 1, a) = canonical
    BY <1>2, SubSeqFull
  <2>3. out \in Seq(Output) /\ OneNew(b, out)
    <3>1. Len(out) = 1 /\ out[1] = NewOutput(b) /\ NewOutput(b).block.id = b
      BY DEF NewOutput, Streamable
    <3>2. out \in Seq(Output)
      BY <1>1, NewOutputType
    <3> HIDE DEF out
    <3> QED
      BY <3>1, <3>2 DEF OneNew
  <2>4. Height[b] > last
    <3>1. CASE canonical = <<>>
      <4>1. last = -1
        BY <3>1, FiredBelowTip DEF None
      <4> QED
        BY <1>4, <4>1
    <3>2. CASE canonical # <<>>
      <4>1. a \in 1 .. a /\ last <= Ht(canonical[a])
        BY <1>2, <3>2, FiredBelowTip, EmptySeq
      <4>2. canonical[a] \in Entry /\ Ht(canonical[a]) \in Nat
        BY <1>2, <4>1
      <4>3. Parent[b] \in Block /\ Height[b] = Height[Parent[b]] + 1
        BY <2>1, <3>2, <4>2, ChainAssumption DEF Entry
      <4>4. Height[b] = Ht(canonical[a]) + 1
        BY <2>1, <3>2, <4>3 DEF Ht
      <4> QED
        BY <1>3, <4>1, <4>2, <4>4
    <3> QED
      BY <3>1, <3>2
  <2>5. a \in 0 .. a
    BY <1>2
  <2> HIDE DEF out
  <2>6. PushCall(b, a, fork_history, out)
    BY <1>1, <1>2, <2>1, <2>2, <2>3, <2>4 DEF PushCall, Push
  <2> QED
    BY <2>5, <2>6
<1>6. ASSUME NEW b \in Block, HandleReorg(b) PROVE Push3
  <2> DEFINE a == AncestorIdx(b)
             o == Orphans(a)
             base == SubSeq(canonical, 1, a)
             ids == canonical_ids \ {o[k].id : k \in DOMAIN o}
             fh == Append(fork_history, Switch(b, o))
             out == UndoOutputs(o) \o <<NewOutput(b), ForkObserved(Switch(b, o))>>
  <2>1. ReorgCandidate(b) /\ ~ CrossesFinality(b) /\ Push(base, ids, b, fh, out)
    BY <1>6 DEF HandleReorg
  <2>2. a \in 1 .. Len(canonical) - 1 /\ canonical[a].id = Parent[b]
    BY <2>1, AncestorSpec
  <2>3. a + 1 \in a + 1 .. Len(canonical) /\ a + 1 \in 1 .. Len(canonical)
        /\ a \in 1 .. Len(canonical) /\ 1 \in 1 .. Len(canonical) /\ a \in Nat
    BY <1>2, <2>2
  <2>4. Ht(canonical[a + 1]) > last
    BY <2>1, <2>3, OrphansAboveFinality
  <2> HIDE DEF a
  <2>5. Height[b] = Ht(canonical[a + 1])
    <3>1. canonical[a] \in Entry
      BY <1>2, <2>3
    <3>2. Parent[b] \in Block /\ Height[b] = Height[Parent[b]] + 1
      BY <2>2, <3>1, ChainAssumption DEF Entry
    <3>3. Height[b] = Ht(canonical[a]) + 1
      BY <2>2, <3>2 DEF Ht
    <3>4. /\ Ht(canonical[a]) = Ht(canonical[1]) + a - 1
          /\ Ht(canonical[a + 1]) = Ht(canonical[1]) + (a + 1) - 1
      BY <1>2, <2>3 DEF Contiguous
    <3>5. PICK x \in Nat : x = Ht(canonical[1])
      BY <1>2, <2>3
    <3> QED
      BY <2>3, <3>3, <3>4, <3>5
  <2>6. out \in Seq(Output) /\ Switch(b, o) \in Observation /\ OneNew(b, out)
    BY <2>2, ReorgOutputsType, ReorgOneNew
  <2>7. fh \in Seq(Observation)
    BY <2>6, <1>1
  <2>8. 1 \in 1 .. Len(canonical) + 1 /\ a \in 0 .. Len(canonical) /\ 1 <= a + 1
    BY <2>2, <1>2
  <2>9. /\ base \in Seq(Entry) /\ Len(base) = a - 1 + 1
        /\ \A i \in 1 .. Len(base) : base[i] = canonical[1 + i - 1]
        /\ Linked(base) /\ Contiguous(base)
    BY <2>8, <1>2, SubBranch
  <2>10. Len(base) = a /\ \A i \in 1 .. a : base[i] = canonical[i]
    <3>1. Len(base) = a
      BY <2>3, <2>9
    <3>2. \A i \in 1 .. a : 1 + i - 1 = i
      BY <2>3
    <3> QED
      BY <3>1, <3>2, <2>9
  <2>11. base[a] = canonical[a] /\ b \notin canonical_ids
    BY <2>1, <2>3, <2>10 DEF ReorgCandidate
  <2> HIDE DEF fh, out, o, ids
  <2>12. PushCall(b, a, fh, out)
    BY <2>1, <2>2, <2>4, <2>5, <2>6, <2>7, <2>9, <2>10, <2>11 DEF PushCall, Push
  <2> QED
    BY <2>8, <2>12
<1>7. ASSUME NEW h \in SolidHead, AdvanceHead(h) PROVE \E x : SettleCall(x)
  <2>1. /\ Settle(canonical, fork_history, h, <<>>) /\ canonical' = canonical
        /\ h \in Nat /\ h > solidified_head
    BY <1>7, EngineAssumption DEF AdvanceHead
  <2>2. h \in OptHeight /\ last <= h
    BY <1>1, <1>3, <2>1 DEF OptHeight, None
  <2>3. SettleCall(h)
    BY <2>1, <2>2 DEF SettleCall
  <2> QED
    BY <2>3
<1>8. ASSUME NEW b \in Block, RejectDuplicate(b) \/ RefuseReorg(b) \/ RejectUnknownParent(b)
      PROVE  QuietCall
  BY <1>8 DEF RejectDuplicate, RefuseReorg, RejectUnknownParent, Err, QuietCall
<1>9. ASSUME NEW h \in SolidHead, IgnoreHead(h) PROVE QuietCall
  BY <1>9 DEF IgnoreHead, Ok, QuietCall
<1> HIDE DEF Push3
<1>10. QuietCall \/ (\E h : SettleCall(h)) \/ Push3
  BY <1>5, <1>6, <1>7, <1>8, <1>9 DEF Accept, SetSolidifiedHead
<1> QED
  BY <1>10 DEF Push3

-----------------------------------------------------------------------------
(* The consistency horizon *)

\* What the output loop has yet to show to the horizon observer.
Pending == IF fed THEN Tail(outbox) ELSE outbox

\* No New of block id from position k of q on.
NoNewOf(id, q, k) == \A j \in k .. Len(q) : q[j].step = "New" => q[j].block.id # id

\* The measurement of block id is closed in S, or will be by what q still holds.
Settled(id, S, q) ==
    \/ id \notin S /\ NoNewOf(id, q, 1)
    \/ \E j \in 1 .. Len(q) : /\ q[j].step = "Irreversible" /\ q[j].block.id = id
                              /\ NoNewOf(id, q, j + 1)

\* Every fired entry of buffer c is settled.
FiredSettled(c, last, S, q) ==
    \A i \in 1 .. Len(c) : Ht(c[i]) <= last => Settled(c[i].id, S, q)

\* The inductive invariant of the horizon.  HorizonClosed speaks of the moments
\* between two calls only; while outputs are pending, the Irreversible that closes a
\* measurement must still be ahead, and behind the New that opened it.
HorizonInv ==
    /\ ServiceInv
    /\ \E v : InStep(v, canonical, last_irreversible_height)
    /\ IsFiniteSet(seen_at) /\ Cardinality(seen_at) <= MaxPending
    /\ FiredSettled(canonical, last_irreversible_height, seen_at, Pending)

\* observe_for_horizon stays within max_pending, tracks only what it is shown as New,
\* and forgets what it is shown as Irreversible.
LEMMA ObserveSpec ==
    ASSUME NEW S, IsFiniteSet(S), Cardinality(S) <= MaxPending,
           NEW o, NEW T \in ObserveForHorizon(S, o)
    PROVE  /\ IsFiniteSet(T) /\ Cardinality(T) <= MaxPending
           /\ \A x \in T : x \in S \/ (o.step = "New" /\ x = o.block.id)
           /\ o.step = "Irreversible" => o.block.id \notin T
<1>1. Cardinality(S) \in Nat /\ MaxPending \in Nat /\ MaxPending > 0
  BY FS_CardinalityType, ServiceAssumption
<1>2. CASE o.step = "New"
  <2> DEFINE id == o.block.id
  <2>1. T \in ObserveSeen(S, id)
    BY <1>2 DEF ObserveForHorizon
  <2>2. CASE id \in S
    BY <1>2, <2>1, <2>2 DEF ObserveSeen
  <2>3. CASE id \notin S
    <3>1. PICK R : /\ T = R \cup {id}
                   /\ R \in IF Cardinality(S) >= MaxPending THEN {S \ {x} : x \in S} ELSE {S}
      BY <2>1, <2>3 DEF ObserveSeen
    <3>2. R \subseteq S /\ IsFiniteSet(R) /\ Cardinality(R) \in Nat
          /\ Cardinality(R) + 1 <= MaxPending
      <4>1. CASE Cardinality(S) >= MaxPending
        <5>1. PICK x \in S : R = S \ {x}
          BY <3>1, <4>1
        <5>2. IsFiniteSet(R) /\ Cardinality(R) = Cardinality(S) - 1
          BY <5>1, FS_RemoveElement
        <5>3. Cardinality(R) \in Nat
          BY <5>2, FS_CardinalityType
        <5> QED
          BY <1>1, <5>1, <5>2, <5>3
      <4>2. CASE ~ (Cardinality(S) >= MaxPending)
        BY <1>1, <3>1, <4>2
      <4> QED
        BY <4>1, <4>2
    <3>3. IsFiniteSet(T) /\ Cardinality(T) = IF id \in R THEN Cardinality(R) ELSE Cardinality(R) + 1
      BY <3>1, <3>2, FS_AddElement
    <3>4. Cardinality(T) <= MaxPending
      BY <1>1, <3>2, <3>3
    <3> QED
      BY <1>2, <3>1, <3>2, <3>3, <3>4
  <2> QED
    BY <2>2, <2>3
<1>3. CASE o.step = "Irreversible"
  <2>1. T = S \ {o.block.id} /\ T \in SUBSET S
    BY <1>3 DEF ObserveForHorizon
  <2>2. IsFiniteSet(T) /\ Cardinality(T) <= Cardinality(S)
    BY <2>1, FS_Subset
  <2>3. Cardinality(T) \in Nat
    BY <2>2, FS_CardinalityType
  <2> QED
    BY <1>1, <1>3, <2>1, <2>2, <2>3
<1>4. CASE o.step \notin {"New", "Irreversible"}
  <2>1. T = S
    BY <1>4 DEF ObserveForHorizon
  <2> QED
    BY <1>4, <2>1
<1> QED
  BY <1>2, <1>3, <1>4

\* Showing the observer the first pending output keeps a block settled.
LEMMA FeedSettles ==
    ASSUME NEW S, IsFiniteSet(S), Cardinality(S) <= MaxPending,
           NEW q \in Seq(Output), q # <<>>, NEW T \in ObserveForHorizon(S, Head(q)),
           NEW id, Settled(id, S, q)
    PROVE  Settled(id, T, Tail(q))
<1> DEFINE t == Tail(q)
           n == Len(q)
<1>1. /\ n \in Nat /\ n >= 1 /\ Len(t) = n - 1
      /\ \A k \in 1 .. n - 1 : t[k] = q[k + 1]
  <2>1. <<>> \in Seq(Output)
    OBVIOUS
  <2>2. n \in Nat /\ n # 0
    BY EmptySeq
  <2> QED
    BY <2>1, <2>2, MoveHead
<1>2. Head(q) = q[1]
  OBVIOUS
<1>3. /\ \A x \in T : x \in S \/ (q[1].step = "New" /\ x = q[1].block.id)
      /\ q[1].step = "Irreversible" => q[1].block.id \notin T
  BY <1>2, ObserveSpec
<1> HIDE DEF t, n
<1>4. ASSUME NEW j \in 1 .. n, NoNewOf(id, q, j + 1)
      PROVE  NoNewOf(id, t, j)
  <2>1. ASSUME NEW k \in j .. Len(t), t[k].step = "New" PROVE t[k].block.id # id
    <3>1. k \in 1 .. n - 1 /\ k + 1 \in j + 1 .. n
      BY <1>1
    <3> QED
      BY <1>1, <1>4, <2>1, <3>1 DEF NoNewOf, n
  <2> QED
    BY <2>1 DEF NoNewOf
<1>5. CASE id \notin S /\ NoNewOf(id, q, 1)
  <2>1. 1 \in 1 .. n /\ NoNewOf(id, q, 1 + 1) /\ (q[1].step = "New" => q[1].block.id # id)
    BY <1>1, <1>5 DEF NoNewOf, n
  <2>2. NoNewOf(id, t, 1)
    BY <1>4, <2>1
  <2>3. id \notin T
    BY <1>3, <1>5, <2>1
  <2> QED
    BY <2>2, <2>3 DEF Settled, t
<1>6. ASSUME NEW j \in 1 .. n, q[j].step = "Irreversible", q[j].block.id = id,
             NoNewOf(id, q, j + 1)
      PROVE  Settled(id, T, t)
  <2>1. NoNewOf(id, t, j)
    BY <1>4, <1>6
  <2>2. CASE j = 1
    BY <1>3, <1>6, <2>1, <2>2 DEF Settled
  <2>3. CASE j # 1
    <3>1. j - 1 \in 1 .. n - 1 /\ (j - 1) + 1 = j /\ j - 1 \in 1 .. Len(t)
      BY <1>1, <2>3
    <3>2. t[j - 1] = q[j]
      BY <1>1, <3>1
    <3> QED
      BY <1>6, <2>1, <3>1, <3>2 DEF Settled
  <2> QED
    BY <2>2, <2>3
<1> QED
  BY <1>5, <1>6 DEF Settled, t, n

\* Behind the outputs a call started with, it returns no New and no Undo.
LEMMA SettleTail ==
    ASSUME last_irreversible_height \in OptHeight,
           NEW c \in Seq(Entry), Contiguous(c), NEW fh \in Seq(Observation),
           NEW head \in OptHeight, NEW out \in Seq(Output),
           Settle(c, fh, head, out)
    PROVE  /\ ret'.out \in Seq(Output)
           /\ \A k \in 1 .. Len(ret'.out) :
                 \/ k \in 1 .. Len(out) /\ ret'.out[k] = out[k]
                 \/ ret'.out[k].step \notin {"New", "Undo"}
<1> DEFINE irr == IrreversibleOutputs(c, head, last_irreversible_height)
           res == ForkOutputs(fh, head)
<1>1. ret'.out = (out \o irr) \o res
  BY DEF Settle, Ok
<1>2. irr \in Seq(Output) /\ res \in Seq(Output)
  BY IrreversibleOutputsSpec, ForkOutputsSpec
<1> HIDE DEF irr, res
<1>3. ret'.out \in Seq(Output)
  BY <1>1, <1>2, ConcatProperties
<1>4. DOMAIN ret'.out = 1 .. Len(ret'.out)
  BY <1>3, LenProperties
<1>5. ASSUME NEW k \in DOMAIN ret'.out
      PROVE  \/ k \in 1 .. Len(out) /\ ret'.out[k] = out[k]
             \/ ret'.out[k].step \notin {"New", "Undo"}
  BY SettleOutputs
<1> QED
  BY <1>3, <1>4, <1>5

\* An entry the call fires has its Irreversible among the outputs, with no New after.
LEMMA FiringIsShown ==
    ASSUME last_irreversible_height \in OptHeight,
           NEW c \in Seq(Entry), Contiguous(c), NEW fh \in Seq(Observation),
           NEW head \in OptHeight, last_irreversible_height <= head,
           NEW out \in Seq(Output), Settle(c, fh, head, out),
           NEW x \in 1 .. Len(c), Ht(c[x]) > last_irreversible_height,
           Ht(c[x]) <= last_irreversible_height', NEW S
    PROVE  Settled(c[x].id, S, ret'.out)
<1> DEFINE last == last_irreversible_height
           fresh == FreshlyFinal(c, head, last)
           irr == IrreversibleOutputs(c, head, last)
           res == ForkOutputs(fh, head)
           w == WalkLen(c, last)
           q == ret'.out
<1>1. last \in Int /\ head \in Int /\ Len(c) \in Nat /\ Ht(c[x]) \in Nat
  BY HtType DEF OptHeight, None
<1>2. last_irreversible_height' <= head /\ last_irreversible_height' \in Int
  <2>1. last_irreversible_height' \in OptHeight /\ last_irreversible_height' <= head
    BY SettleSpec
  <2> QED
    BY <2>1 DEF OptHeight, None
<1>3. /\ w \in 0 .. Len(c) /\ WalkLen(c, head) \in 0 .. Len(c)
      /\ ~ (x <= w) /\ x <= WalkLen(c, head)
  <2>1. Ht(c[x]) <= head /\ ~ (Ht(c[x]) <= last)
    BY <1>1, <1>2
  <2> QED
    BY <2>1, WalkLenSpec
<1>4. /\ fresh \in Seq(Entry)
      /\ Len(fresh) = IF w + 1 <= WalkLen(c, head) THEN WalkLen(c, head) - w ELSE 0
      /\ \A k \in 1 .. Len(fresh) : fresh[k] = c[w + k]
  BY FreshlyFinalSpec
<1>5. x - w \in 1 .. Len(fresh) /\ w + (x - w) = x
  BY <1>1, <1>3, <1>4
<1>6. fresh[x - w] = c[x]
  BY <1>4, <1>5
<1>7. /\ irr \in Seq(Output) /\ Len(irr) = Len(fresh)
      /\ \A k \in 1 .. Len(irr) : irr[k].step = "Irreversible" /\ irr[k].block = fresh[k]
  BY IrreversibleOutputsSpec
<1>8. res \in Seq(Output)
  BY ForkOutputsSpec
<1>9. q = (out \o irr) \o res
  BY DEF Settle, Ok
<1> HIDE DEF irr, res, fresh, w
<1>10. /\ q \in Seq(Output) /\ Len(q) = Len(out) + Len(irr) + Len(res)
       /\ \A k \in 1 .. Len(out) + Len(irr) + Len(res) :
             q[k] = IF k <= Len(out) THEN out[k]
                    ELSE IF k <= Len(out) + Len(irr) THEN irr[k - Len(out)]
                    ELSE res[k - (Len(out) + Len(irr))]
  <2>1. LET p == (out \o irr) \o res
        IN  /\ p \in Seq(Output)
            /\ Len(p) = Len(out) + Len(irr) + Len(res)
            /\ \A k \in 1 .. Len(out) + Len(irr) + Len(res) :
                  p[k] = IF k <= Len(out) THEN out[k]
                         ELSE IF k <= Len(out) + Len(irr) THEN irr[k - Len(out)]
                         ELSE res[k - (Len(out) + Len(irr))]
    <3>1. irr \in Seq(Output) /\ res \in Seq(Output)
      BY <1>7, <1>8
    <3> HIDE DEF q
    <3> QED
      BY <3>1, ConcatThree
  <2> QED
    BY <1>9, <2>1
<1> DEFINE j == Len(out) + (x - w)
<1>11. Len(out) \in Nat /\ Len(irr) \in Nat /\ Len(res) \in Nat
  BY <1>7, <1>8
<1>12. /\ j \in 1 .. Len(q) /\ j \in Nat /\ j > Len(out) /\ ~ (j <= Len(out))
       /\ j <= Len(out) + Len(irr) /\ j - Len(out) = x - w /\ x - w \in 1 .. Len(irr)
       /\ j \in 1 .. Len(out) + Len(irr) + Len(res)
  <2>1. x - w \in 1 .. Len(irr)
    BY <1>5, <1>7
  <2>2. Len(q) = Len(out) + Len(irr) + Len(res)
    BY <1>10
  <2> QED
    BY <1>11, <2>1, <2>2
<1>13. q[j].step = "Irreversible" /\ q[j].block = c[x]
  <2>1. q[j] = irr[x - w]
    BY <1>10, <1>12
  <2> QED
    BY <1>6, <1>7, <1>12, <2>1
<1> HIDE DEF j
<1>14. NoNewOf(c[x].id, q, j + 1)
  <2>1. ASSUME NEW k \in j + 1 .. Len(q) PROVE q[k].step # "New"
    <3>1. k \in 1 .. Len(q) /\ k \notin 1 .. Len(out)
      BY <1>10, <1>11, <1>12
    <3>2. q[k].step \notin {"New", "Undo"}
      BY <3>1, SettleTail
    <3> QED
      BY <3>2
  <2> QED
    BY <2>1 DEF NoNewOf
<1> QED
  BY <1>12, <1>13, <1>14 DEF Settled

\* A call made while the fired entries are closed leaves the fired entries settled by
\* its outputs.
LEMMA CallSettles ==
    ASSUME IInv, IInv', NEW v, InStep(v, canonical, last_irreversible_height),
           \/ \E b \in Block : Accept(b)
           \/ \E h \in SolidHead : SetSolidifiedHead(h),
           NEW S, FiredSettled(canonical, last_irreversible_height, S, <<>>)
    PROVE  FiredSettled(canonical', last_irreversible_height', S, ret'.out)
<1> DEFINE last == last_irreversible_height
<1>1. /\ canonical \in Seq(Entry) /\ Len(canonical) \in Nat /\ Contiguous(canonical)
      /\ \A i \in 1 .. Len(canonical) : canonical[i] \in Entry /\ Ht(canonical[i]) \in Nat
      /\ canonical_ids = {canonical[i].id : i \in 1 .. Len(canonical)}
  BY BufferFacts
<1>2. /\ last \in OptHeight /\ solidified_head \in OptHeight /\ last <= solidified_head
      /\ fork_history \in Seq(Observation) /\ next_fork_id \in 0 .. ForkIdModulus - 1
      /\ last \in Int
  BY DEF IInv, TypeOK, FinalityComplete, OptHeight, None
<1>3. \A i \in 1 .. Len(canonical) : Ht(canonical[i]) <= last => canonical[i].id \notin S
  <2>1. Len(<<>>) = 0
    OBVIOUS
  <2> QED
    BY <2>1 DEF FiredSettled, Settled
<1>4. SUFFICES ASSUME NEW i \in 1 .. Len(canonical'), Ht(canonical'[i]) <= last_irreversible_height'
               PROVE  Settled(canonical'[i].id, S, ret'.out)
  BY DEF FiredSettled
<1>5. CASE QuietCall
  <2>1. /\ canonical' = canonical /\ last_irreversible_height' = last
        /\ ret'.out = <<>> /\ Len(<<>>) = 0
    BY <1>5 DEF QuietCall
  <2>2. canonical[i].id \notin S
    BY <1>3, <1>4, <2>1
  <2> QED
    BY <2>1, <2>2 DEF Settled, NoNewOf
<1>6. ASSUME NEW h, SettleCall(h) PROVE Settled(canonical'[i].id, S, ret'.out)
  <2>1. /\ canonical' = canonical /\ Settle(canonical, fork_history, h, <<>>)
        /\ h \in OptHeight /\ last <= h /\ <<>> \in Seq(Output) /\ Len(<<>>) = 0
    BY <1>6 DEF SettleCall
  <2>2. CASE Ht(canonical[i]) > last
    BY <1>1, <1>2, <1>4, <2>1, <2>2, FiringIsShown
  <2>3. CASE ~ (Ht(canonical[i]) > last)
    <3>1. Ht(canonical[i]) <= last
      BY <1>1, <1>2, <2>1, <2>3
    <3>2. canonical[i].id \notin S
      BY <1>3, <2>1, <3>1
    <3>3. \A k \in 1 .. Len(ret'.out) : ret'.out[k].step # "New"
      <4>1. \A k \in 1 .. Len(ret'.out) :
               k \in 1 .. Len(<<>>) \/ ret'.out[k].step \notin {"New", "Undo"}
        BY <1>1, <1>2, <2>1, SettleTail
      <4> QED
        BY <2>1, <4>1
    <3> QED
      BY <2>1, <3>2, <3>3 DEF Settled, NoNewOf
  <2> QED
    BY <2>2, <2>3
<1>7. ASSUME NEW b \in Block, NEW a \in 0 .. Len(canonical), NEW fh, NEW out,
             PushCall(b, a, fh, out)
      PROVE  Settled(canonical'[i].id, S, ret'.out)
  <2> DEFINE base == SubSeq(canonical, 1, a)
             e == [id |-> b, fork_id |-> next_fork_id]
             c == Append(base, e)
  <2>1. /\ base \in Seq(Entry) /\ Len(base) = a /\ Linked(base) /\ Contiguous(base)
        /\ \A k \in 1 .. a : base[k] = canonical[k]
        /\ b \notin canonical_ids
        /\ base # <<>> => Parent[b] = base[a].id
        /\ Height[b] > last
        /\ canonical' = Pruned(c)
        /\ Settle(c, fh, solidified_head, out)
        /\ fh \in Seq(Observation) /\ out \in Seq(Output)
        /\ OneNew(b, out)
    BY <1>7 DEF PushCall
  <2>2. e \in Entry /\ e.id = b
    BY <1>2 DEF Entry
  <2> HIDE DEF base, e
  <2>3. /\ c \in Seq(Entry) /\ Linked(c) /\ Contiguous(c) /\ Len(c) = a + 1
        /\ (\A k \in 1 .. a : c[k] = base[k]) /\ c[a + 1] = e
    BY <2>1, <2>2, AppendBranch
  <2> HIDE DEF c
  <2>4. PICK x \in 1 .. Len(c) : canonical'[i] = c[x]
    BY <1>4, <2>1, <2>3, PrunedSpec
  <2>5. CASE Ht(c[x]) > last
    BY <1>2, <1>4, <2>1, <2>3, <2>4, <2>5, FiringIsShown
  <2>6. CASE ~ (Ht(c[x]) > last)
    <3>1. x \in 1 .. a
      <4>1. x \in 1 .. a \/ x = a + 1
        BY <2>3
      <4>2. Ht(c[a + 1]) = Height[b]
        BY <2>2, <2>3 DEF Ht
      <4> QED
        BY <2>1, <2>6, <4>1, <4>2
    <3>2. c[x] = canonical[x] /\ x \in 1 .. Len(canonical)
      BY <1>1, <2>1, <2>3, <3>1
    <3>3. Ht(canonical[x]) <= last
      BY <1>1, <1>2, <2>6, <3>2
    <3>4. canonical[x].id \notin S /\ canonical[x].id # b
      BY <1>1, <1>3, <2>1, <3>2, <3>3
    <3>5. ASSUME NEW k \in 1 .. Len(ret'.out), ret'.out[k].step = "New"
          PROVE  ret'.out[k].block.id = b
      <4>1. \/ k \in 1 .. Len(out) /\ ret'.out[k] = out[k]
            \/ ret'.out[k].step \notin {"New", "Undo"}
        BY <1>2, <2>1, <2>3, SettleTail
      <4> QED
        BY <2>1, <3>5, <4>1 DEF OneNew
    <3> QED
      BY <2>4, <3>2, <3>4, <3>5 DEF Settled, NoNewOf
  <2> QED
    BY <2>5, <2>6
<1> QED
  BY <1>5, <1>6, <1>7, CallKinds

\* Every step keeps the horizon's invariant.
LEMMA HorizonStep ==
    ASSUME HorizonInv, [ServiceNext]_serviceVars
    PROVE  HorizonInv'
<1>1. /\ ServiceInv /\ IInv /\ FiredSettled(canonical, last_irreversible_height, seen_at, Pending)
      /\ IsFiniteSet(seen_at) /\ Cardinality(seen_at) <= MaxPending
      /\ outbox \in Seq(Output)
  BY DEF HorizonInv, ServiceInv
<1>2. PICK v : InStep(v, canonical, last_irreversible_height)
  BY DEF HorizonInv
<1>3. ServiceInv' /\ IInv'
  BY <1>1, ServiceStepKeeps DEF ServiceInv
<1> DEFINE Rest == /\ \E w : InStep(w, canonical, last_irreversible_height)
                   /\ IsFiniteSet(seen_at) /\ Cardinality(seen_at) <= MaxPending
                   /\ FiredSettled(canonical, last_irreversible_height, seen_at, Pending)
<1>4. ASSUME EngineCall PROVE Rest'
  <2>1. /\ \/ \E b \in Block : Accept(b)
           \/ \E h \in SolidHead : SetSolidifiedHead(h)
        /\ outbox = <<>> /\ outbox' = ret'.out /\ UNCHANGED <<fed, seen_at>>
    BY <1>4 DEF EngineCall
  <2>2. ~ fed /\ ~ fed' /\ Pending = <<>> /\ Pending' = ret'.out
    BY <1>1, <2>1 DEF ServiceInv, Pending
  <2>3. InStep(Replay(v, ret'.out), canonical', last_irreversible_height')
    BY <1>1, <1>2, <2>1, CallKeepsInStep
  <2>4. FiredSettled(canonical, last_irreversible_height, seen_at, <<>>)
    BY <1>1, <2>2
  <2>5. FiredSettled(canonical', last_irreversible_height', seen_at, ret'.out)
    BY <1>1, <1>2, <1>3, <2>1, <2>4, CallSettles
  <2>6. FiredSettled(canonical', last_irreversible_height', seen_at', Pending')
    BY <2>1, <2>2, <2>5 DEF FiredSettled
  <2>7. \E w : InStep(w, canonical', last_irreversible_height')
    BY <2>3
  <2> QED
    BY <1>1, <2>1, <2>6, <2>7
<1>5. ASSUME UNCHANGED <<canonical, last_irreversible_height>>,
             FiredSettled(canonical, last_irreversible_height, seen_at', Pending'),
             IsFiniteSet(seen_at') /\ Cardinality(seen_at') <= MaxPending
      PROVE  Rest'
  <2>1. \E w : InStep(w, canonical', last_irreversible_height')
    BY <1>2, <1>5
  <2>2. FiredSettled(canonical', last_irreversible_height', seen_at', Pending')
    BY <1>5 DEF FiredSettled, Ht
  <2> QED
    BY <1>5, <2>1, <2>2
<1>6. ASSUME UNCHANGED engineVars, FeedOutput PROVE Rest'
  <2>1. /\ outbox # <<>> /\ ~ fed /\ fed' = TRUE /\ outbox' = outbox
        /\ seen_at' \in ObserveForHorizon(seen_at, Head(outbox))
    BY <1>6 DEF FeedOutput
  <2>2. Pending = outbox /\ Pending' = Tail(outbox)
    BY <2>1 DEF Pending
  <2>3. IsFiniteSet(seen_at') /\ Cardinality(seen_at') <= MaxPending
    BY <1>1, <2>1, ObserveSpec
  <2>4. FiredSettled(canonical, last_irreversible_height, seen_at', Tail(outbox))
    <3>1. ASSUME NEW id, Settled(id, seen_at, outbox)
          PROVE  Settled(id, seen_at', Tail(outbox))
      BY <1>1, <2>1, <3>1, FeedSettles
    <3> QED
      BY <1>1, <2>2, <3>1 DEF FiredSettled
  <2>5. UNCHANGED <<canonical, last_irreversible_height>>
    BY <1>6 DEF engineVars
  <2> QED
    BY <1>5, <2>2, <2>3, <2>4, <2>5
<1>7. ASSUME UNCHANGED engineVars, seen_at' = seen_at, Pending' = Pending PROVE Rest'
  <2>1. UNCHANGED <<canonical, last_irreversible_height>>
    BY <1>7 DEF engineVars
  <2> QED
    BY <1>1, <1>5, <1>7, <2>1
<1>8. ASSUME UNCHANGED engineVars, SendOutput PROVE Rest'
  <2>1. fed /\ fed' = FALSE /\ outbox' = Tail(outbox) /\ seen_at' = seen_at
    BY <1>8 DEF SendOutput, TakeFirst
  <2>2. Pending' = Pending
    BY <2>1 DEF Pending
  <2> QED
    BY <1>7, <1>8, <2>1, <2>2
<1>9. ASSUME UNCHANGED engineVars, UNCHANGED <<outbox, fed, seen_at>> PROVE Rest'
  <2>1. Pending' = Pending
    BY <1>9 DEF Pending
  <2> QED
    BY <1>7, <1>9, <2>1
<1>10. ASSUME Recv \/ CloseChannel PROVE UNCHANGED <<outbox, fed, seen_at>>
  BY <1>10 DEF Recv, CloseChannel
<1>11. ASSUME UNCHANGED serviceVars PROVE Rest'
  BY <1>9, <1>11 DEF serviceVars, serviceOnly
<1>12. ASSUME UNCHANGED <<engineVars, outbox, fed, channel, closed, cache, seen_at>> PROVE Rest'
  BY <1>9, <1>12
<1> HIDE DEF Rest
<1>13. Rest'
  <2>1. CASE ServiceNext
    BY <1>1, <1>4, <1>6, <1>8, <1>9, <1>10, <1>12, <2>1, ServiceCases
  <2> QED
    BY <1>11, <2>1
<1> QED
  BY <1>3, <1>13 DEF HorizonInv, Rest

\* The observer never tracks more than max_pending blocks, and between two calls every
\* buffered block whose Irreversible was shipped has its measurement closed, whatever
\* keys were evicted and although New and Irreversible of a block may share a call.
THEOREM HorizonIsClosed == ServiceSpec => []HorizonClosed
<1>1. ServiceInit => HorizonInv
  <2> SUFFICES ASSUME ServiceInit PROVE HorizonInv
    OBVIOUS
  <2>1. ServiceInv
    BY ServiceStart
  <2>2. canonical = <<>> /\ last_irreversible_height = None /\ seen_at = {}
    BY DEF ServiceInit, EngineInit
  <2>3. \E v : InStep(v, canonical, last_irreversible_height)
    BY <2>2, FreshInStep
  <2>4. IsFiniteSet(seen_at) /\ Cardinality(seen_at) <= MaxPending
    BY <2>2, FS_EmptySet, ServiceAssumption
  <2>5. FiredSettled(canonical, last_irreversible_height, seen_at, Pending)
    <3>1. Len(<<>>) = 0
      OBVIOUS
    <3> QED
      BY <2>2, <3>1 DEF FiredSettled
  <2> QED
    BY <2>1, <2>3, <2>4, <2>5 DEF HorizonInv
<1>2. HorizonInv => HorizonClosed
  <2> SUFFICES ASSUME HorizonInv PROVE HorizonClosed
    OBVIOUS
  <2>1. ASSUME outbox = <<>>, NEW i \in DOMAIN canonical,
               Ht(canonical[i]) <= last_irreversible_height
        PROVE  canonical[i].id \notin seen_at
    <3>1. i \in 1 .. Len(canonical)
      BY <2>1, BufferFacts DEF HorizonInv, ServiceInv
    <3>2. Pending = <<>> /\ Len(<<>>) = 0
      BY <2>1 DEF HorizonInv, ServiceInv, Pending
    <3> QED
      BY <2>1, <3>1, <3>2 DEF HorizonInv, FiredSettled, Settled
  <2> QED
    BY <2>1 DEF HorizonInv, HorizonClosed
<1> QED
  BY <1>1, <1>2, HorizonStep, PTL DEF ServiceSpec

-----------------------------------------------------------------------------
(* The shared cache: holding the end of a chain *)

\* The cache cc holds exactly the entries of ch behind the first d.
Holds(cc, ch, d) ==
    /\ d \in 0 .. Len(ch)
    /\ DOMAIN cc.by_height = {Ht(ch[i]) : i \in d + 1 .. Len(ch)}
    /\ \A i \in d + 1 .. Len(ch) :
          cc.by_height[Ht(ch[i])] = [id |-> ch[i].id, value |-> ch[i]]

\* The heights of a stretch of a chain are as many as its entries.
LEMMA StretchSize ==
    ASSUME NEW ch \in Seq(Entry), Contiguous(ch), NEW d \in 0 .. Len(ch)
    PROVE  LET H == {Ht(ch[i]) : i \in d + 1 .. Len(ch)}
           IN  IsFiniteSet(H) /\ Cardinality(H) = Len(ch) - d
<1> DEFINE L == Len(ch)
           H == {Ht(ch[i]) : i \in d + 1 .. L}
<1>1. L \in Nat /\ d \in Nat /\ d <= L
  OBVIOUS
<1>2. CASE L = 0
  <2> HIDE DEF L
  <2>1. L - d = 0 /\ \A i : i \notin d + 1 .. L
    BY <1>1, <1>2
  <2>2. H = {}
    BY <2>1
  <2> HIDE DEF H
  <2>3. IsFiniteSet(H) /\ Cardinality(H) = L - d
    BY <2>1, <2>2, FS_EmptySet
  <2> QED
    BY <2>3 DEF H, L
<1>3. CASE L # 0
  <2>1. 1 \in 1 .. L
    BY <1>1, <1>3
  <2>2. PICK x \in Nat : x = Ht(ch[1])
    BY <2>1, HtType
  <2>3. \A i \in 1 .. L : Ht(ch[i]) = x + i - 1
    BY <2>2 DEF Contiguous
  <2> HIDE DEF L
  <2>4. H = x + d .. x + L - 1
    <3>1. ASSUME NEW i \in d + 1 .. L PROVE Ht(ch[i]) \in x + d .. x + L - 1
      <4>1. Ht(ch[i]) = x + i - 1
        BY <1>1, <2>3
      <4> QED
        BY <1>1, <4>1
    <3>2. ASSUME NEW h \in x + d .. x + L - 1 PROVE h \in H
      <4>1. h - x + 1 \in d + 1 .. L /\ h - x + 1 \in 1 .. L /\ x + (h - x + 1) - 1 = h
        BY <1>1
      <4>2. Ht(ch[h - x + 1]) = h
        BY <2>3, <4>1
      <4> QED
        BY <4>1, <4>2
    <3> QED
      BY <3>1, <3>2
  <2>5. x + d \in Int /\ x + L - 1 \in Int
        /\ (IF x + d > x + L - 1 THEN 0 ELSE (x + L - 1) - (x + d) + 1) = L - d
    BY <1>1
  <2> QED
    BY <2>4, <2>5, FS_Interval DEF L
<1> QED
  BY <1>2, <1>3

\* Undo of the last block: the cache loses it if it held it, and nothing else.
LEMMA HoldsUndo ==
    ASSUME CacheInv, NEW ch \in Seq(Entry), Contiguous(ch), ch # <<>>, NEW d, Holds(cache, ch, d),
           NEW cc, cc = RemoveById(cache, ch[Len(ch)].id)
    PROVE  \E f \in 0 .. d : Holds(cc, SubSeq(ch, 1, Len(ch) - 1), f)
<1> DEFINE L == Len(ch)
           e == ch[L]
           s == SubSeq(ch, 1, L - 1)
<1>1. L \in Nat /\ L >= 1 /\ L \in 1 .. L /\ d \in 0 .. L
  BY EmptySeq DEF Holds
<1>2. Len(s) = L - 1 /\ \A i \in 1 .. L - 1 : s[i] = ch[i]
  <2>1. \A i \in 1 .. L - 1 : ch[i] \in Entry
    BY <1>1
  <2>2. /\ Len(s) = IF 1 <= L - 1 THEN (L - 1) - 1 + 1 ELSE 0
        /\ \A i \in 1 .. (L - 1) - 1 + 1 : s[i] = ch[1 + i - 1]
    BY <1>1, <2>1, SubSeqProperties
  <2> HIDE DEF s, L
  <2>3. Len(s) = L - 1
    BY <1>1, <2>2
  <2>4. (L - 1) - 1 + 1 = L - 1 /\ \A i \in 1 .. L - 1 : 1 + i - 1 = i
    BY <1>1
  <2> QED
    BY <2>2, <2>3, <2>4
<1>3. \A i \in 1 .. L, j \in 1 .. L : Ht(ch[i]) = Ht(ch[j]) => i = j
  <2>1. 1 \in 1 .. L
    BY <1>1
  <2>2. PICK x \in Nat : x = Ht(ch[1])
    BY <2>1, HtType
  <2>3. \A i \in 1 .. L : Ht(ch[i]) = x + i - 1
    BY <2>2 DEF Contiguous
  <2> QED
    BY <1>1, <2>3
<1> HIDE DEF s
<1>4. CASE d = L
  <2>1. DOMAIN cache.by_height = {}
    BY <1>1, <1>4 DEF Holds
  <2>2. e.id \notin DOMAIN cache.by_id
    BY <2>1 DEF CacheInv, Agree
  <2>3. cc = cache
    BY <2>2 DEF RemoveById
  <2>4. \A i : i \notin (L - 1) + 1 .. L - 1
    BY <1>1
  <2>5. Holds(cc, s, L - 1)
    <3>1. L - 1 \in 0 .. Len(s)
      BY <1>1, <1>2
    <3> QED
      BY <1>2, <2>1, <2>3, <2>4, <3>1 DEF Holds
  <2>6. L - 1 \in 0 .. d
    BY <1>1, <1>4
  <2> QED
    BY <2>5, <2>6 DEF s
<1>5. CASE d # L
  <2>1. L \in d + 1 .. L /\ d \in 0 .. L - 1
    BY <1>1, <1>5
  <2>2. Ht(e) \in DOMAIN cache.by_height /\ cache.by_height[Ht(e)].id = e.id
    <3>1. Ht(e) \in {Ht(ch[i]) : i \in d + 1 .. L}
      BY <2>1
    <3>2. cache.by_height[Ht(e)] = [id |-> e.id, value |-> e]
      BY <2>1 DEF Holds
    <3> QED
      BY <3>1, <3>2 DEF Holds
  <2>3. e.id \in DOMAIN cache.by_id /\ cache.by_id[e.id] = Ht(e)
    BY <2>2 DEF CacheInv, Agree
  <2>4. /\ DOMAIN cc.by_height = DOMAIN cache.by_height \ {Ht(e)}
        /\ \A h \in DOMAIN cc.by_height : cc.by_height[h] = cache.by_height[h]
    BY <2>3 DEF RemoveById, Without
  <2>5. \A i \in d + 1 .. L - 1 : i \in d + 1 .. L /\ i \in 1 .. L /\ i \in 1 .. L - 1 /\ i # L
    BY <1>1
  <2>6. \A i \in d + 1 .. L : (i = L \/ i \in d + 1 .. L - 1) /\ i \in 1 .. L
    BY <1>1
  <2>7. \A i \in d + 1 .. L - 1 : Ht(s[i]) = Ht(ch[i]) /\ s[i] = ch[i]
                                 /\ Ht(ch[i]) \in DOMAIN cc.by_height
    <3> SUFFICES ASSUME NEW i \in d + 1 .. L - 1
                 PROVE  s[i] = ch[i] /\ Ht(ch[i]) \in DOMAIN cc.by_height
      OBVIOUS
    <3>1. Ht(ch[i]) # Ht(e)
      BY <1>1, <1>3, <2>5
    <3>2. Ht(ch[i]) \in DOMAIN cache.by_height
      BY <2>5 DEF Holds
    <3> QED
      BY <1>2, <2>4, <2>5, <3>1, <3>2
  <2>8. DOMAIN cc.by_height = {Ht(s[i]) : i \in d + 1 .. L - 1}
    <3>1. ASSUME NEW h \in DOMAIN cc.by_height PROVE \E i \in d + 1 .. L - 1 : h = Ht(s[i])
      <4>1. PICK i \in d + 1 .. L : h = Ht(ch[i])
        BY <2>4 DEF Holds
      <4>2. i # L
        BY <2>4, <4>1
      <4> QED
        BY <2>6, <2>7, <4>1, <4>2
    <3> QED
      BY <2>7, <3>1
  <2>9. \A i \in d + 1 .. L - 1 : cc.by_height[Ht(s[i])] = [id |-> s[i].id, value |-> s[i]]
    <3> SUFFICES ASSUME NEW i \in d + 1 .. L - 1
                 PROVE  cc.by_height[Ht(s[i])] = [id |-> s[i].id, value |-> s[i]]
      OBVIOUS
    <3>1. cache.by_height[Ht(ch[i])] = [id |-> ch[i].id, value |-> ch[i]]
      BY <2>5 DEF Holds
    <3>2. s[i] = ch[i] /\ cc.by_height[Ht(ch[i])] = cache.by_height[Ht(ch[i])]
      BY <2>4, <2>7
    <3> QED
      BY <3>1, <3>2
  <2>10. Holds(cc, s, d)
    BY <1>2, <2>1, <2>8, <2>9 DEF Holds
  <2>11. d \in 0 .. d
    BY <1>1
  <2> QED
    BY <2>10, <2>11 DEF s
<1> QED
  BY <1>4, <1>5

\* A cache that holds the end of ch keeps its newest `capacity` entries when the
\* eviction loop has run.
LEMMA HoldsEvicted ==
    ASSUME NEW put, DOMAIN put.by_height \subseteq Nat, NEW ch \in Seq(Entry),
           Contiguous(ch), ch # <<>>, NEW d, Holds(put, ch, d)
    PROVE  \E f \in 0 .. Len(ch) :
              /\ f = d \/ f = Len(ch) - Capacity
              /\ Holds(DropHeights(put, Excess(put.by_height)), ch, f)
<1> DEFINE L == Len(ch)
           X == Excess(put.by_height)
           cc == DropHeights(put, X)
           D == DOMAIN put.by_height
           f == IF d >= L - Capacity THEN d ELSE L - Capacity
<1>1. L \in Nat /\ L >= 1 /\ d \in 0 .. L /\ 1 \in 1 .. L /\ Capacity \in Nat /\ Capacity > 0
  BY EmptySeq, CacheAssumption DEF Holds
<1>2. PICK x \in Nat : x = Ht(ch[1])
  BY <1>1, HtType
<1>3. \A i \in 1 .. L : Ht(ch[i]) = x + i - 1
  BY <1>2 DEF Contiguous
<1>4. D = {Ht(ch[i]) : i \in d + 1 .. L}
  BY DEF Holds
<1> HIDE DEF L
<1>5. \A i \in d + 1 .. L : i \in 1 .. L /\ i \in Nat
  BY <1>1
<1>6. D = x + d .. x + L - 1
  <2>1. ASSUME NEW i \in d + 1 .. L PROVE Ht(ch[i]) \in x + d .. x + L - 1
    <3>1. Ht(ch[i]) = x + i - 1
      BY <1>3, <1>5
    <3> QED
      BY <1>1, <3>1
  <2>2. ASSUME NEW h \in x + d .. x + L - 1 PROVE h \in D
    <3>1. h - x + 1 \in d + 1 .. L /\ x + (h - x + 1) - 1 = h
      BY <1>1
    <3>2. Ht(ch[h - x + 1]) = h
      BY <1>3, <1>5, <3>1
    <3> QED
      BY <1>4, <3>1, <3>2
  <2> QED
    BY <1>4, <2>1, <2>2
<1> HIDE DEF D
<1>7. ASSUME NEW i \in d + 1 .. L PROVE Ht(ch[i]) \in X <=> i <= L - Capacity
  <2> DEFINE h == x + i - 1
             A == {k \in D : k > h}
  <2>1. Ht(ch[i]) = h /\ h \in D /\ i \in Nat /\ d + 1 <= i /\ i <= L
    BY <1>1, <1>3, <1>5, <1>6
  <2>2. A = x + i .. x + L - 1
    BY <1>1, <1>6, <2>1
  <2>3. x + i \in Int /\ x + L - 1 \in Int
        /\ (IF x + i > x + L - 1 THEN 0 ELSE (x + L - 1) - (x + i) + 1) = L - i
    BY <1>1, <2>1
  <2>4. Cardinality(A) = L - i
    BY <2>2, <2>3, FS_Interval
  <2>5. h \in X <=> Cardinality(A) >= Capacity
    BY <2>1 DEF Excess, D
  <2> HIDE DEF A, X, h
  <2> QED
    BY <1>1, <2>1, <2>4, <2>5
<1>8. f \in 0 .. L /\ d <= f /\ f \in Nat /\ f >= L - Capacity /\ (f = d \/ f = L - Capacity)
  BY <1>1
<1>9. \A i \in d + 1 .. L : i \in f + 1 .. L <=> ~ (i <= L - Capacity)
  BY <1>1
<1> HIDE DEF f
<1>10. \A i \in f + 1 .. L : i \in d + 1 .. L
  BY <1>1, <1>8
<1>11. /\ DOMAIN cc.by_height = D \ X
       /\ \A h \in DOMAIN cc.by_height : cc.by_height[h] = put.by_height[h]
  BY DEF DropHeights, Without, D
<1> HIDE DEF X, cc
<1>12. DOMAIN cc.by_height = {Ht(ch[i]) : i \in f + 1 .. L}
  <2>1. ASSUME NEW h \in D \ X PROVE \E i \in f + 1 .. L : h = Ht(ch[i])
    <3>1. PICK i \in d + 1 .. L : h = Ht(ch[i])
      BY <1>4
    <3> QED
      BY <1>7, <1>9, <3>1
  <2>2. ASSUME NEW i \in f + 1 .. L PROVE Ht(ch[i]) \in D \ X
    <3>1. Ht(ch[i]) \in D
      BY <1>4, <1>10
    <3> QED
      BY <1>7, <1>9, <1>10, <3>1
  <2> QED
    BY <1>11, <2>1, <2>2
<1>13. ASSUME NEW i \in f + 1 .. L
       PROVE  cc.by_height[Ht(ch[i])] = [id |-> ch[i].id, value |-> ch[i]]
  <2>1. Ht(ch[i]) \in DOMAIN cc.by_height
    BY <1>12
  <2>2. put.by_height[Ht(ch[i])] = [id |-> ch[i].id, value |-> ch[i]]
    BY <1>10 DEF Holds, L
  <2> QED
    BY <1>11, <2>1, <2>2
<1>14. Holds(cc, ch, f)
  BY <1>8, <1>12, <1>13 DEF Holds, L
<1> QED
  BY <1>8, <1>14 DEF L, cc, X

\* New of a block that connects: no entry is displaced or moved, the block joins the
\* chain's end in the cache, and only the oldest entries are evicted.
LEMMA HoldsNew ==
    ASSUME CacheInv, NEW ch \in Seq(Entry), Linked(ch), Contiguous(ch), NEW d,
           Holds(cache, ch, d), NEW e \in Entry,
           ch # <<>> => Parent[e.id] = ch[Len(ch)].id,
           NEW cc, cc = Insert(cache, Ht(e), e.id, e)
    PROVE  \E f \in 0 .. Len(ch) + 1 :
              /\ f = d \/ f = Len(ch) + 1 - Capacity
              /\ Holds(cc, Append(ch, e), f)
<1> DEFINE L == Len(ch)
           n == Append(ch, e)
           put == [by_height |-> With(Without(cache.by_height, Moved(cache, Ht(e), e.id)),
                                      Ht(e), [id |-> e.id, value |-> e]),
                   by_id     |-> With(Without(cache.by_id, Displaced(cache, Ht(e), e.id)),
                                      e.id, Ht(e))]
<1>1. /\ n \in Seq(Entry) /\ Len(n) = L + 1 /\ (\A i \in 1 .. L : n[i] = ch[i])
      /\ n[L + 1] = e /\ Contiguous(n)
  BY AppendBranch
<1>2. L \in Nat /\ d \in 0 .. L
  BY DEF Holds
<1>3. \A i \in 1 .. L : Ht(ch[i]) # Ht(e)
  <2> SUFFICES ASSUME NEW i \in 1 .. L PROVE Ht(ch[i]) # Ht(e)
    OBVIOUS
  <2> HIDE DEF n
  <2>1. L + 1 \in 1 .. Len(n) /\ i \in 1 .. Len(n) /\ 1 \in 1 .. Len(n) /\ i # L + 1
    BY <1>1, <1>2
  <2>2. PICK x \in Nat : x = Ht(n[1])
    BY <1>1, <2>1, HtType
  <2>3. Ht(n[i]) = x + i - 1 /\ Ht(n[L + 1]) = x + (L + 1) - 1
    BY <1>1, <2>1, <2>2 DEF Contiguous
  <2>4. n[i] = ch[i] /\ n[L + 1] = e
    BY <1>1
  <2> QED
    BY <1>2, <2>1, <2>2, <2>3, <2>4
<1>4. ASSUME NEW h \in DOMAIN cache.by_height
      PROVE  \E i \in d + 1 .. L : /\ i \in 1 .. L /\ h = Ht(ch[i])
                                  /\ cache.by_height[h] = [id |-> ch[i].id, value |-> ch[i]]
  <2>1. PICK i \in d + 1 .. L : h = Ht(ch[i])
    BY DEF Holds
  <2>2. i \in 1 .. L
    BY <1>2
  <2>3. cache.by_height[Ht(ch[i])] = [id |-> ch[i].id, value |-> ch[i]]
    BY DEF Holds
  <2> QED
    BY <2>1, <2>2, <2>3
<1>5. Displaced(cache, Ht(e), e.id) = {} /\ Ht(e) \notin DOMAIN cache.by_height
  BY <1>3, <1>4 DEF Displaced
<1>6. e.id \notin DOMAIN cache.by_id
  <2> SUFFICES ASSUME e.id \in DOMAIN cache.by_id PROVE FALSE
    OBVIOUS
  <2>1. /\ cache.by_id[e.id] \in DOMAIN cache.by_height
        /\ cache.by_height[cache.by_id[e.id]].id = e.id
    BY DEF CacheInv, Agree
  <2>2. PICK i \in 1 .. L : cache.by_height[cache.by_id[e.id]] = [id |-> ch[i].id, value |-> ch[i]]
    BY <1>4, <2>1
  <2>3. ch[i].id = e.id
    BY <2>1, <2>2
  <2> QED
    BY <1>3, <2>3 DEF Ht
<1>7. Moved(cache, Ht(e), e.id) = {}
  BY <1>6 DEF Moved
<1>8. /\ DOMAIN put.by_height = DOMAIN cache.by_height \cup {Ht(e)}
      /\ put.by_height[Ht(e)] = [id |-> e.id, value |-> e]
      /\ \A h \in DOMAIN cache.by_height : put.by_height[h] = cache.by_height[h]
  BY <1>5, <1>7 DEF With, Without
<1>9. cc = DropHeights(put, Excess(put.by_height))
  BY DEF Insert
<1> HIDE DEF put, n
<1>10. Holds(put, n, d)
  <2>1. d \in 0 .. Len(n)
    BY <1>1, <1>2
  <2>2. \A i \in d + 1 .. Len(n) : (i \in d + 1 .. L /\ i \in 1 .. L) \/ i = L + 1
    BY <1>1, <1>2
  <2>3. (\A i \in d + 1 .. L : i \in d + 1 .. Len(n) /\ i \in 1 .. L) /\ L + 1 \in d + 1 .. Len(n)
    BY <1>1, <1>2
  <2>4. ASSUME NEW i \in d + 1 .. Len(n)
        PROVE  /\ Ht(n[i]) \in DOMAIN put.by_height
               /\ put.by_height[Ht(n[i])] = [id |-> n[i].id, value |-> n[i]]
    <3>1. CASE i = L + 1
      BY <1>1, <1>8, <3>1
    <3>2. CASE i \in d + 1 .. L /\ i \in 1 .. L
      <4>1. /\ n[i] = ch[i] /\ Ht(ch[i]) \in {Ht(ch[j]) : j \in d + 1 .. L}
            /\ cache.by_height[Ht(ch[i])] = [id |-> ch[i].id, value |-> ch[i]]
        BY <1>1, <3>2 DEF Holds
      <4>2. Ht(ch[i]) \in DOMAIN cache.by_height
        BY <4>1 DEF Holds
      <4> QED
        BY <1>8, <4>1, <4>2
    <3> QED
      BY <2>2, <3>1, <3>2
  <2>5. ASSUME NEW h \in DOMAIN put.by_height PROVE \E i \in d + 1 .. Len(n) : h = Ht(n[i])
    <3>1. CASE h = Ht(e)
      BY <1>1, <2>3, <3>1
    <3>2. CASE h \in DOMAIN cache.by_height
      <4>1. PICK i \in d + 1 .. L : i \in 1 .. L /\ h = Ht(ch[i])
        BY <1>4, <3>2
      <4> QED
        BY <1>1, <2>3, <4>1
    <3> QED
      BY <1>8, <3>1, <3>2
  <2>6. DOMAIN put.by_height = {Ht(n[i]) : i \in d + 1 .. Len(n)}
    BY <2>4, <2>5
  <2> QED
    BY <2>1, <2>4, <2>6 DEF Holds
<1>11. DOMAIN put.by_height \subseteq Nat
  <2>1. DOMAIN cache.by_height \subseteq Nat
    BY CacheAssumption DEF CacheInv, Typed
  <2> QED
    BY <1>8, <2>1, HtType
<1>12. n # <<>>
  BY <1>1, <1>2, EmptySeq
<1>13. PICK f \in 0 .. Len(n) :
           /\ f = d \/ f = Len(n) - Capacity
           /\ Holds(DropHeights(put, Excess(put.by_height)), n, f)
  BY <1>1, <1>10, <1>11, <1>12, HoldsEvicted
<1>14. f \in 0 .. L + 1 /\ (f = d \/ f = L + 1 - Capacity)
  <2> DEFINE m == Len(n)
  <2>1. m = L + 1 /\ L \in Nat /\ Capacity \in Nat
    BY <1>1, <1>2, CacheAssumption
  <2>2. f \in 0 .. m /\ (f = d \/ f = m - Capacity)
    BY <1>13
  <2> HIDE DEF m, L
  <2> QED
    BY <2>1, <2>2
<1>15. Holds(cc, n, f)
  BY <1>9, <1>13, Zenon
<1> QED
  BY <1>14, <1>15 DEF n

-----------------------------------------------------------------------------
(* What has been fed *)

\* After a New of q no New and no Undo follows.
NewIsLast(q) ==
    \A k \in 1 .. Len(q) :
        q[k].step = "New" => \A j \in k + 1 .. Len(q) : q[j].step \notin {"New", "Undo"}

\* Everything returned is what was fed, then what is pending.
LEMMA FedThenPending ==
    ASSUME ServiceInv
    PROVE  Pending \in Seq(Output) /\ AllView = Replay(FedView, Pending)
<1>1. channel \in Seq(Output) /\ outbox \in Seq(Output) /\ fed \in BOOLEAN /\ (fed => outbox # <<>>)
  BY DEF ServiceInv
<1>2. CASE fed
  <2> DEFINE h == Head(outbox)
             t == Tail(outbox)
  <2>1. <<h>> \in Seq(Output) /\ t \in Seq(Output) /\ outbox = <<h>> \o t
    BY <1>1, <1>2, MoveHead
  <2>2. FedView = Replay(view, channel \o <<h>>) /\ Pending = t
    BY <1>2 DEF FedView, Pending
  <2> HIDE DEF h, t
  <2>3. channel \o (<<h>> \o t) = (channel \o <<h>>) \o t /\ channel \o <<h>> \in Seq(Output)
    BY <1>1, <2>1, ConcatAssociative, ConcatProperties
  <2>4. Replay(view, (channel \o <<h>>) \o t) = Replay(Replay(view, channel \o <<h>>), t)
    BY <2>1, <2>3, ReplayOutputs, Zenon
  <2> QED
    BY <2>1, <2>2, <2>3, <2>4 DEF AllView
<1>3. CASE ~ fed
  <2>1. channel \o <<>> = channel
    BY <1>1, ConcatEmptySeq
  <2>2. FedView = Replay(view, channel) /\ Pending = outbox
    BY <1>3, <2>1 DEF FedView, Pending
  <2>3. Replay(view, channel \o outbox) = Replay(Replay(view, channel), outbox)
    BY <1>1, ReplayOutputs, Zenon
  <2> QED
    BY <1>1, <2>2, <2>3 DEF AllView
<1> QED
  BY <1>2, <1>3

\* Only feeding an output moves the fed view, by that output.
LEMMA FedMoves ==
    ASSUME ServiceInv, StreamServiceNext, ~ closed'
    PROVE  \/ FeedOutput /\ FedView' = Apply(FedView, Head(outbox))
           \/ FedView' = FedView /\ cache' = cache
<1>1. ServiceNext
  BY DEF StreamServiceNext
<1>2. channel \in Seq(Output) /\ outbox \in Seq(Output) /\ fed \in BOOLEAN /\ (fed => outbox # <<>>)
  BY DEF ServiceInv
<1>3. CASE EngineCall
  <2>1. outbox = <<>> /\ UNCHANGED <<fed, channel, closed, cache>> /\ ~ fed
    BY <1>2, <1>3 DEF EngineCall
  <2>2. view' = view
    BY <2>1, ViewMoves
  <2> QED
    BY <2>1, <2>2 DEF FedView
<1>4. CASE FeedOutput
  <2> DEFINE h == Head(outbox)
  <2>1. outbox # <<>> /\ ~ fed /\ fed' = TRUE /\ UNCHANGED <<channel, outbox>>
    BY <1>4 DEF FeedOutput
  <2>2. view' = view
    BY <2>1, ViewMoves
  <2>3. <<h>> \in Seq(Output) /\ channel \o <<>> = channel
    BY <1>2, <2>1, MoveHead, ConcatEmptySeq
  <2>4. FedView = Replay(view, channel) /\ FedView' = Replay(view, channel \o <<h>>)
    BY <2>1, <2>2, <2>3 DEF FedView
  <2> HIDE DEF h
  <2>5. Replay(view, channel \o <<h>>) = Replay(Replay(view, channel), <<h>>)
    BY <1>2, <2>3, ReplayOutputs, Zenon
  <2>6. Replay(Replay(view, channel), <<h>>) = Apply(Replay(view, channel), h)
    BY ReplayShort
  <2> QED
    BY <1>4, <2>4, <2>5, <2>6 DEF h
<1>5. CASE SendOutput
  <2> DEFINE h == Head(outbox)
  <2>1. /\ fed /\ fed' = FALSE /\ channel' = Append(channel, h)
        /\ outbox # <<>> /\ cache' = cache
    BY <1>2, <1>5 DEF SendOutput, TakeFirst
  <2>2. view' = view
    BY <1>5, ViewMoves
  <2>3. Append(channel, h) = channel \o <<h>> /\ Append(channel, h) \in Seq(Output)
    BY <1>2, <2>1, MoveHead
  <2>4. FedView = Replay(view, channel \o <<h>>)
    BY <2>1 DEF FedView
  <2>5. FedView' = Replay(view, Append(channel, h) \o <<>>)
    BY <2>1, <2>2 DEF FedView
  <2> HIDE DEF h
  <2>6. Append(channel, h) \o <<>> = Append(channel, h)
    BY <2>3, ConcatEmptySeq
  <2> QED
    BY <2>1, <2>3, <2>4, <2>5, <2>6
<1>6. CASE Recv
  <2> DEFINE h == Head(channel)
             t == Tail(channel)
             r == IF fed THEN <<Head(outbox)>> ELSE <<>>
  <2>1. channel # <<>> /\ channel' = t /\ UNCHANGED <<outbox, fed, cache>>
    BY <1>6 DEF Recv
  <2>2. view' = Apply(view, h)
    BY <1>6, ViewMoves
  <2>3. <<h>> \in Seq(Output) /\ t \in Seq(Output) /\ channel = <<h>> \o t
    BY <1>2, <2>1, MoveHead
  <2>4. r \in Seq(Output)
    <3>1. fed => <<Head(outbox)>> \in Seq(Output)
      BY <1>2, MoveHead
    <3> QED
      BY <3>1
  <2>5. FedView = Replay(view, channel \o r)
    BY DEF FedView
  <2>6. FedView' = Replay(Apply(view, h), t \o r)
    BY <2>1, <2>2 DEF FedView
  <2> HIDE DEF h, t, r
  <2>7. (<<h>> \o t) \o r = <<h>> \o (t \o r) /\ t \o r \in Seq(Output)
    BY <2>3, <2>4, ConcatAssociative, ConcatProperties
  <2>8. Replay(view, <<h>> \o (t \o r)) = Replay(Replay(view, <<h>>), t \o r)
    BY <2>3, <2>7, ReplayOutputs, Zenon
  <2>9. Replay(view, <<h>>) = Apply(view, h)
    BY ReplayShort
  <2> QED
    BY <2>1, <2>3, <2>5, <2>6, <2>7, <2>8, <2>9
<1>7. CASE CloseChannel
  BY <1>7 DEF CloseChannel
<1>8. CASE UNCHANGED <<engineVars, outbox, fed, channel, closed, cache, seen_at>>
  <2>1. view' = view
    BY <1>8, ViewMoves
  <2> QED
    BY <1>8, <2>1 DEF FedView
<1> QED
  BY <1>1, <1>3, <1>4, <1>5, <1>6, <1>7, <1>8, ServiceCases

\* A call returns at most one New, behind the Undos.
LEMMA CallNewIsLast ==
    ASSUME IInv, IInv', NEW v, InStep(v, canonical, last_irreversible_height),
           \/ \E b \in Block : Accept(b)
           \/ \E h \in SolidHead : SetSolidifiedHead(h)
    PROVE  NewIsLast(ret'.out)
<1>1. /\ canonical \in Seq(Entry) /\ Contiguous(canonical)
      /\ last_irreversible_height \in OptHeight /\ solidified_head \in OptHeight
      /\ fork_history \in Seq(Observation) /\ next_fork_id \in 0 .. ForkIdModulus - 1
      /\ ret'.out \in Seq(Output) /\ Len(ret'.out) \in Nat
  BY BufferFacts DEF IInv, TypeOK
<1>2. CASE QuietCall
  <2>1. ret'.out = <<>> /\ Len(<<>>) = 0
    BY <1>2 DEF QuietCall
  <2> QED
    BY <2>1 DEF NewIsLast
<1>3. ASSUME NEW h, SettleCall(h) PROVE NewIsLast(ret'.out)
  <2>1. /\ Settle(canonical, fork_history, h, <<>>) /\ h \in OptHeight
        /\ <<>> \in Seq(Output) /\ Len(<<>>) = 0
    BY <1>3 DEF SettleCall
  <2>2. \A k \in 1 .. Len(ret'.out) :
           k \in 1 .. Len(<<>>) \/ ret'.out[k].step \notin {"New", "Undo"}
    BY <1>1, <2>1, SettleTail
  <2> QED
    BY <2>1, <2>2 DEF NewIsLast
<1>4. ASSUME NEW b \in Block, NEW a \in 0 .. Len(canonical), NEW fh, NEW out,
             PushCall(b, a, fh, out)
      PROVE  NewIsLast(ret'.out)
  <2> DEFINE base == SubSeq(canonical, 1, a)
             e == [id |-> b, fork_id |-> next_fork_id]
             c == Append(base, e)
             q == ret'.out
  <2>1. /\ base \in Seq(Entry) /\ Len(base) = a /\ Linked(base) /\ Contiguous(base)
        /\ base # <<>> => Parent[b] = base[a].id
        /\ Settle(c, fh, solidified_head, out)
        /\ fh \in Seq(Observation) /\ out \in Seq(Output)
        /\ OneNew(b, out)
    BY <1>4 DEF PushCall
  <2>2. e \in Entry /\ e.id = b
    BY <1>1 DEF Entry
  <2> HIDE DEF base, e
  <2>3. c \in Seq(Entry) /\ Contiguous(c)
    BY <2>1, <2>2, AppendBranch
  <2> HIDE DEF c
  <2>4. \A k \in 1 .. Len(q) : \/ k \in 1 .. Len(out) /\ q[k] = out[k]
                               \/ q[k].step \notin {"New", "Undo"}
    BY <1>1, <2>1, <2>3, SettleTail
  <2> HIDE DEF q
  <2>5. ASSUME NEW k \in 1 .. Len(q), q[k].step = "New", NEW j \in k + 1 .. Len(q)
        PROVE  q[j].step \notin {"New", "Undo"}
    <3>1. k \in 1 .. Len(out) /\ q[k] = out[k]
      BY <2>4, <2>5
    <3>2. j \in 1 .. Len(q) /\ (j \in 1 .. Len(out) => j \in k + 1 .. Len(out))
      BY <1>1, <2>1, <2>5 DEF q
    <3>3. j \in k + 1 .. Len(out) => out[j].step \notin {"New", "Undo"}
      BY <2>1, <2>5, <3>1 DEF OneNew
    <3> QED
      BY <2>4, <3>2, <3>3
  <2> QED
    BY <2>5 DEF NewIsLast, q
<1> QED
  BY <1>2, <1>3, <1>4, CallKinds

-----------------------------------------------------------------------------
(* The invariant *)

\* The cache holds the end of the fed chain, and, when the capacity covers the
\* window, reaches back to where the engine's buffer starts in the full story.
HeldSuffix ==
    /\ FedView \in View /\ Linked(FedView.chain) /\ Contiguous(FedView.chain)
    /\ \E d : /\ Holds(cache, FedView.chain, d)
              /\ Capacity >= BufferWindow => d + Len(canonical) <= Len(AllView.chain)

\* The inductive invariant of the cache behind the service.  The story must be intact
\* (IntactInv), or an Undo would not meet its block at the end of the fed chain; the
\* New of a call must be its last change of the chain, or an eviction between two
\* outputs could take a block the buffer still holds when the Undos are done.
SuffixInv ==
    /\ IntactInv
    /\ CacheInv
    /\ ~ closed => NewIsLast(outbox) /\ HeldSuffix

\* feed_cache is a call of the cache, or none.
LEMMA FeedIsCacheStep ==
    ASSUME ServiceInv, [ServiceNext]_serviceVars
    PROVE  [CacheNext]_cache
<1>1. CASE UNCHANGED serviceVars
  BY <1>1 DEF serviceVars, serviceOnly
<1>2. CASE FeedOutput
  <2> DEFINE o == Head(outbox)
  <2>1. outbox # <<>> /\ cache' = FeedCache(cache, o) /\ outbox \in Seq(Output)
    BY <1>2 DEF FeedOutput, ServiceInv
  <2>2. o \in Output
    BY <2>1, MoveHead
  <2> HIDE DEF o
  <2>3. CASE o.step \in {"New", "Undo"}
    <3>1. o.block \in Entry
      BY <2>2, <2>3 DEF Output
    <3>2. o.block.id \in Block
      BY <3>1 DEF Entry
    <3>3. o.block.id \in CacheId /\ o.block \in CacheValue /\ Ht(o.block) \in CacheHeight
      BY <3>1, <3>2, ServiceAssumption DEF Ht
    <3> QED
      BY <2>1, <2>3, <3>3 DEF FeedCache, CacheNext
  <2>4. CASE o.step \notin {"New", "Undo"}
    BY <2>1, <2>4 DEF FeedCache
  <2> QED
    BY <2>3, <2>4
<1>3. ASSUME ServiceNext, ~ FeedOutput PROVE cache' = cache
  BY <1>3, ServiceCases DEF EngineCall, SendOutput, Recv, CloseChannel
<1> QED
  BY <1>1, <1>2, <1>3

\* Feeding the next output of the story.
LEMMA FeedHolds ==
    ASSUME IntactInv, ~ closed, CacheInv, NewIsLast(outbox), HeldSuffix, FeedOutput,
           FedView' = Apply(FedView, Head(outbox)), AllView' = AllView
    PROVE  HeldSuffix'
<1> DEFINE v == FedView
           w == FedView'
           o == Head(outbox)
           t == Tail(outbox)
           c == v.chain
           all == Len(AllView.chain)
<1>1. /\ outbox # <<>> /\ outbox \in Seq(Output) /\ ~ fed /\ canonical' = canonical
      /\ cache' = FeedCache(cache, o) /\ ServiceInv
  BY DEF FeedOutput, IntactInv, ServiceInv, engineVars
<1>2. /\ o \in Output /\ t \in Seq(Output) /\ <<o>> \in Seq(Output) /\ outbox = <<o>> \o t
      /\ Len(t) = Len(outbox) - 1 /\ \A k \in 1 .. Len(outbox) - 1 : t[k] = outbox[k + 1]
      /\ o = outbox[1] /\ Len(outbox) \in Nat /\ Len(outbox) >= 1
  <2>1. Len(outbox) \in Nat /\ Len(outbox) # 0
    BY <1>1, EmptySeq
  <2>2. <<>> \in Seq(Output) /\ o = outbox[1]
    BY <1>1
  <2> QED
    BY <1>1, <2>1, <2>2, MoveHead
<1>3. v \in View /\ Linked(c) /\ Contiguous(c) /\ c \in Seq(Entry) /\ Len(c) \in Nat
  <2>1. v \in View /\ Linked(c) /\ Contiguous(c)
    BY DEF HeldSuffix
  <2> QED
    BY <2>1 DEF View
<1>4. PICK d : /\ Holds(cache, c, d)
               /\ Capacity >= BufferWindow => d + Len(canonical) <= all
  BY DEF HeldSuffix
<1>5. /\ Len(canonical) \in Nat /\ Len(canonical) <= BufferWindow
      /\ BufferWindow \in Nat /\ Capacity \in Nat
      /\ AllView.ok /\ AllView \in View /\ all \in Nat
  <2>1. IInv /\ InStep(AllView, canonical, last_irreversible_height)
    BY DEF IntactInv, ServiceInv
  <2>2. AllView \in View /\ AllView.ok
    BY <2>1 DEF InStep
  <2>3. all \in Nat
    BY <2>2 DEF View
  <2>4. Len(canonical) \in Nat /\ Len(canonical) <= BufferWindow
    BY <2>1, BufferFacts DEF IInv, CanonicalIsABranch
  <2> QED
    BY <2>2, <2>3, <2>4, EngineAssumption, CacheAssumption
<1>6. w = Apply(v, o)
  OBVIOUS
<1>7. AllView = Replay(w, t)
  <2>1. AllView = Replay(v, outbox)
    BY <1>1, FedThenPending DEF Pending
  <2> HIDE DEF o, t, v, w
  <2>2. Replay(v, <<o>> \o t) = Replay(Replay(v, <<o>>), t)
    BY <1>2, ReplayOutputs, Zenon
  <2>3. Replay(v, <<o>>) = Apply(v, o)
    BY ReplayShort
  <2> QED
    BY <1>2, <1>6, <2>1, <2>2, <2>3
<1> HIDE DEF o, t, v, w
<1>8. w \in View /\ (o.step \notin {"New", "Undo"} => w.chain = c)
  BY <1>2, <1>3, <1>6, ApplyView
<1>9. w.ok /\ ((\A k \in 1 .. Len(t) : t[k].step \notin {"New", "Undo"})
                 => AllView.chain = w.chain)
  BY <1>2, <1>5, <1>7, <1>8, ReplayView
<1> DEFINE Goal == /\ w \in View /\ Linked(w.chain) /\ Contiguous(w.chain)
                   /\ \E f : /\ Holds(cache', w.chain, f)
                             /\ Capacity >= BufferWindow => f + Len(canonical) <= all
<1> HIDE DEF all
<1>10. ASSUME o.step = "New" PROVE Goal
  <2> DEFINE e == o.block
  <2>1. e \in Entry /\ w.chain = Append(c, e) /\ (c # <<>> => Parent[e.id] = c[Len(c)].id)
    BY <1>2, <1>3, <1>6, <1>9, <1>10, ApplyMeans
  <2>2. cache' = Insert(cache, Ht(e), e.id, e)
    BY <1>1, <1>10 DEF FeedCache
  <2> HIDE DEF e, c
  <2>3. Linked(w.chain) /\ Contiguous(w.chain) /\ Len(w.chain) = Len(c) + 1
    BY <1>3, <2>1, AppendBranch
  <2>4. PICK f \in 0 .. Len(c) + 1 : (f = d \/ f = Len(c) + 1 - Capacity)
                                     /\ Holds(cache', Append(c, e), f)
    BY <1>3, <1>4, <2>1, <2>2, HoldsNew
  <2>5. ASSUME Capacity >= BufferWindow PROVE f + Len(canonical) <= all
    <3>1. CASE f = d
      BY <1>4, <2>5, <3>1
    <3>2. CASE f = Len(c) + 1 - Capacity
      <4>1. \A k \in 1 .. Len(t) : k \in 1 .. Len(outbox) - 1 /\ k + 1 \in 1 + 1 .. Len(outbox)
        BY <1>2
      <4>2. 1 \in 1 .. Len(outbox)
        BY <1>2
      <4>3. \A j \in 1 + 1 .. Len(outbox) : outbox[j].step \notin {"New", "Undo"}
        BY <1>2, <1>10, <4>2 DEF NewIsLast
      <4>4. \A k \in 1 .. Len(t) : t[k].step \notin {"New", "Undo"}
        BY <1>2, <4>1, <4>3
      <4>5. all = Len(c) + 1
        BY <1>9, <2>3, <4>4 DEF all
      <4>6. Len(c) \in Nat
        BY <1>3
      <4> QED
        BY <1>5, <2>5, <3>2, <4>5, <4>6
    <3> QED
      BY <2>4, <3>1, <3>2
  <2>6. Holds(cache', w.chain, f)
    BY <2>1, <2>4
  <2> QED
    BY <1>8, <2>3, <2>5, <2>6
<1>11. ASSUME o.step = "Undo" PROVE Goal
  <2>1. c # <<>> /\ c[Len(c)] = o.block /\ w.chain = SubSeq(c, 1, Len(c) - 1)
    BY <1>2, <1>3, <1>6, <1>9, <1>11, ApplyMeans
  <2>2. cache' = RemoveById(cache, c[Len(c)].id)
    BY <1>1, <1>11, <2>1 DEF FeedCache
  <2> HIDE DEF c
  <2>3. PICK f \in 0 .. d : Holds(cache', SubSeq(c, 1, Len(c) - 1), f)
    BY <1>3, <1>4, <2>1, <2>2, HoldsUndo
  <2>4. /\ 1 \in 1 .. Len(c) + 1 /\ Len(c) - 1 \in 0 .. Len(c) /\ 1 <= (Len(c) - 1) + 1
    BY <1>3, <2>1, EmptySeq
  <2>5. Linked(w.chain) /\ Contiguous(w.chain)
    BY <1>3, <2>1, <2>4, SubBranch
  <2>6. d \in Nat /\ f \in Nat /\ f <= d
    <3>1. d \in 0 .. Len(c)
      BY <1>4 DEF Holds
    <3> QED
      BY <1>3, <2>3, <3>1
  <2>7. Capacity >= BufferWindow => f + Len(canonical) <= all
    BY <1>4, <1>5, <2>6
  <2>8. Holds(cache', w.chain, f)
    BY <2>1, <2>3
  <2> QED
    BY <1>8, <2>5, <2>7, <2>8
<1>12. ASSUME o.step \notin {"New", "Undo"} PROVE Goal
  <2>1. cache' = cache /\ w.chain = c
    BY <1>1, <1>8, <1>12 DEF FeedCache
  <2> QED
    BY <1>3, <1>4, <1>8, <2>1
<1> HIDE DEF Goal
<1>13. Goal
  BY <1>10, <1>11, <1>12
<1> QED
  BY <1>1, <1>13 DEF Goal, HeldSuffix, w, all

\* Every step keeps the invariant.
LEMMA SuffixStep ==
    ASSUME SuffixInv, [StreamServiceNext]_<<serviceVars, view>>
    PROVE  SuffixInv'
<1>1. IntactInv /\ IntactInv' /\ ServiceInv /\ ServiceInv' /\ IInv /\ IInv'
  <2>1. IntactInv /\ IntactInv'
    BY IntactStep DEF SuffixInv
  <2> QED
    BY <2>1 DEF IntactInv, ServiceInv
<1>2. [ServiceNext]_serviceVars
  BY DEF StreamServiceNext
<1>3. CacheInv'
  BY <1>1, <1>2, FeedIsCacheStep, CacheStep DEF SuffixInv
<1>4. ASSUME StreamServiceNext, ~ closed' PROVE HeldSuffix'
  <2>1. ~ closed /\ HeldSuffix
    BY <1>1, <1>4, StoryMoves DEF SuffixInv
  <2>2. CASE EngineCall /\ AllView' = Replay(AllView, ret'.out)
    <3>1. /\ \/ \E b \in Block : Accept(b)
             \/ \E h \in SolidHead : SetSolidifiedHead(h)
          /\ outbox = <<>> /\ cache' = cache
      BY <2>2 DEF EngineCall
    <3>2. ~ FeedOutput
      BY <3>1 DEF FeedOutput
    <3>3. FedView' = FedView
      BY <1>1, <1>4, <3>2, FedMoves
    <3>4. InStep(AllView, canonical, last_irreversible_height)
      BY <1>1, <2>1 DEF IntactInv
    <3>5. InStep(AllView', canonical', last_irreversible_height')
      BY <1>1, <1>4 DEF IntactInv
    <3>6. FrontRises(AllView, canonical, AllView', canonical')
      BY <1>1, <2>2, <3>1, <3>4, CallKeepsInStep
    <3>7. /\ Len(AllView.chain) \in Nat /\ Len(AllView'.chain) \in Nat
          /\ Len(canonical) \in Nat /\ Len(canonical') \in Nat
      <4>1. AllView.chain \in Seq(Entry) /\ AllView'.chain \in Seq(Entry)
        BY <3>4, <3>5 DEF InStep, View
      <4>2. canonical \in Seq(Entry) /\ canonical' \in Seq(Entry)
        BY <1>1 DEF IInv, TypeOK
      <4> QED
        BY <4>1, <4>2
    <3>8. PICK d : /\ Holds(cache, FedView.chain, d)
                   /\ Capacity >= BufferWindow => d + Len(canonical) <= Len(AllView.chain)
      BY <2>1 DEF HeldSuffix
    <3>9. d \in Int
      BY <3>8 DEF Holds
    <3>10. Capacity >= BufferWindow => d + Len(canonical') <= Len(AllView'.chain)
      <4>1. Len(AllView'.chain) - Len(canonical') >= Len(AllView.chain) - Len(canonical)
        BY <3>6 DEF FrontRises
      <4> DEFINE a == Len(AllView.chain)
                 b == Len(AllView'.chain)
                 m == Len(canonical)
                 n == Len(canonical')
      <4>2. /\ a \in Nat /\ b \in Nat /\ m \in Nat /\ n \in Nat /\ b - n >= a - m
            /\ Capacity >= BufferWindow => d + m <= a
        BY <3>7, <3>8, <4>1
      <4> HIDE DEF a, b, m, n
      <4>3. Capacity >= BufferWindow => d + n <= b
        BY <3>9, <4>2
      <4> QED
        BY <4>3 DEF b, n
    <3> QED
      BY <2>1, <3>1, <3>3, <3>8, <3>10 DEF HeldSuffix
  <2>3. CASE UNCHANGED engineVars /\ AllView' = AllView
    <3>1. canonical' = canonical
      BY <2>3 DEF engineVars
    <3>2. CASE FeedOutput /\ FedView' = Apply(FedView, Head(outbox))
      BY <1>1, <2>1, <2>3, <3>2, FeedHolds DEF SuffixInv
    <3>3. CASE FedView' = FedView /\ cache' = cache
      BY <2>1, <2>3, <3>1, <3>3 DEF HeldSuffix
    <3> QED
      BY <1>1, <1>4, <3>2, <3>3, FedMoves
  <2> QED
    BY <1>1, <1>4, <2>2, <2>3, StoryMoves
<1>5. ASSUME UNCHANGED <<serviceVars, view>>, ~ closed' PROVE HeldSuffix'
  <2>1. UNCHANGED <<canonical, view, channel, outbox, fed, closed, cache>>
    BY <1>5 DEF serviceVars, serviceOnly, engineVars
  <2>2. AllView' = AllView /\ FedView' = FedView
    BY <2>1 DEF AllView, FedView
  <2>3. HeldSuffix
    BY <1>5, <2>1 DEF SuffixInv
  <2> QED
    BY <2>1, <2>2, <2>3 DEF HeldSuffix
<1>6. ASSUME ~ closed' PROVE NewIsLast(outbox')
  <2>1. NewIsLast(outbox) /\ ~ closed
    <3>1. ~ closed
      <4>1. CASE StreamServiceNext
        BY <1>1, <1>6, <4>1, StoryMoves
      <4>2. CASE UNCHANGED serviceVars
        BY <1>6, <4>2 DEF serviceVars, serviceOnly
      <4> QED
        BY <4>1, <4>2
    <3> QED
      BY <3>1 DEF SuffixInv
  <2>2. CASE outbox' = outbox
    BY <2>1, <2>2
  <2>3. CASE EngineCall
    <3>1. /\ \/ \E b \in Block : Accept(b)
             \/ \E h \in SolidHead : SetSolidifiedHead(h)
          /\ outbox' = ret'.out
      BY <2>3 DEF EngineCall
    <3>2. \E v : InStep(v, canonical, last_irreversible_height)
      BY <1>1, <2>1 DEF IntactInv
    <3> QED
      BY <1>1, <3>1, <3>2, CallNewIsLast
  <2>4. CASE SendOutput
    <3> DEFINE t == Tail(outbox)
    <3>1. outbox # <<>> /\ outbox' = t /\ outbox \in Seq(Output)
      BY <1>1, <2>4 DEF SendOutput, TakeFirst, ServiceInv
    <3>2. /\ Len(t) = Len(outbox) - 1 /\ Len(outbox) \in Nat
          /\ \A k \in 1 .. Len(outbox) - 1 : t[k] = outbox[k + 1]
      BY <3>1, MoveHead
    <3> HIDE DEF t
    <3>3. ASSUME NEW k \in 1 .. Len(t), t[k].step = "New", NEW j \in k + 1 .. Len(t)
          PROVE  t[j].step \notin {"New", "Undo"}
      <4>1. /\ k \in 1 .. Len(outbox) - 1 /\ j \in 1 .. Len(outbox) - 1
            /\ k + 1 \in 1 .. Len(outbox) /\ j + 1 \in (k + 1) + 1 .. Len(outbox)
        BY <3>2
      <4>2. outbox[k + 1].step = "New" /\ t[j] = outbox[j + 1]
        BY <3>2, <3>3, <4>1
      <4> QED
        BY <2>1, <4>1, <4>2 DEF NewIsLast
    <3> QED
      BY <3>1, <3>3 DEF NewIsLast
  <2>5. FeedOutput \/ Recv \/ CloseChannel => outbox' = outbox
    BY DEF FeedOutput, Recv, CloseChannel
  <2>6. UNCHANGED serviceVars => outbox' = outbox
    BY DEF serviceVars, serviceOnly
  <2> QED
    BY <1>1, <1>2, <2>2, <2>3, <2>4, <2>5, <2>6, ServiceCases
<1> QED
  BY <1>1, <1>3, <1>4, <1>5, <1>6 DEF SuffixInv, NewIsLast

\* A new service satisfies it.
LEMMA SuffixStart == StreamServiceInit /\ IntactInv => SuffixInv
<1> SUFFICES ASSUME StreamServiceInit, IntactInv PROVE SuffixInv
  OBVIOUS
<1>1. /\ canonical = <<>> /\ channel = <<>> /\ outbox = <<>> /\ view = FreshView
      /\ fed = FALSE /\ CacheInit
  BY DEF StreamServiceInit, ServiceInit, EngineInit
<1>2. FedView = FreshView /\ AllView = FreshView
  <2>1. <<>> \o <<>> = <<>>
    BY ConcatEmptySeq
  <2> QED
    BY <1>1, <2>1, ReplayShort DEF FedView, AllView
<1>3. FreshView.chain = <<>> /\ Len(<<>>) = 0
  BY DEF FreshView
<1>4. FreshView \in View /\ Linked(<<>>) /\ Contiguous(<<>>)
  BY <1>3, FreshInStep DEF InStep
<1>5. Holds(cache, <<>>, 0)
  <2>1. DOMAIN cache.by_height = {} /\ \A i : i \notin 0 + 1 .. 0
    BY <1>1 DEF CacheInit, EmptyCache
  <2> QED
    BY <1>3, <2>1 DEF Holds
<1>6. HeldSuffix
  <2>1. 0 + Len(canonical) <= Len(AllView.chain)
    BY <1>1, <1>2, <1>3
  <2> QED
    BY <1>2, <1>3, <1>4, <1>5, <2>1 DEF HeldSuffix
<1>7. NewIsLast(outbox)
  BY <1>1, <1>3 DEF NewIsLast
<1> QED
  BY <1>1, <1>6, <1>7, CacheStart DEF SuffixInv

\* The invariant gives the property.
LEMMA SuffixMeans == SuffixInv => CacheIsChainSuffix
<1> SUFFICES ASSUME SuffixInv, ~ closed PROVE CacheIsChainSuffix
  BY DEF CacheIsChainSuffix
<1> DEFINE c == FedView.chain
           L == Len(c)
           n == Cardinality(CachedHeights)
           top == SubSeq(c, L - n + 1, L)
<1>1. HeldSuffix /\ ServiceInv /\ IInv /\ InStep(AllView, canonical, last_irreversible_height)
  BY DEF SuffixInv, IntactInv, ServiceInv
<1>2. c \in Seq(Entry) /\ Linked(c) /\ Contiguous(c) /\ L \in Nat
  <2>1. FedView \in View /\ Linked(c) /\ Contiguous(c)
    BY <1>1 DEF HeldSuffix
  <2> QED
    BY <2>1 DEF View
<1>3. PICK d : /\ Holds(cache, c, d)
               /\ Capacity >= BufferWindow => d + Len(canonical) <= Len(AllView.chain)
  BY <1>1 DEF HeldSuffix
<1>4. /\ d \in 0 .. L /\ CachedHeights = {Ht(c[i]) : i \in d + 1 .. L}
      /\ \A i \in d + 1 .. L : cache.by_height[Ht(c[i])] = [id |-> c[i].id, value |-> c[i]]
  BY <1>3 DEF Holds, CachedHeights
<1>5. n = L - d
  BY <1>2, <1>4, StretchSize
<1> HIDE DEF c, n
<1>6. L - n + 1 = d + 1 /\ n <= L /\ d + 1 \in 1 .. L + 1 /\ L \in 0 .. L /\ d + 1 <= L + 1
      /\ d \in Nat
  BY <1>2, <1>4, <1>5
<1>7. /\ top \in Seq(Entry) /\ Len(top) = L - (d + 1) + 1
      /\ \A i \in 1 .. Len(top) : (d + 1) + i - 1 \in d + 1 .. L /\ top[i] = c[(d + 1) + i - 1]
  <2> HIDE DEF L
  <2>1. c \in Seq(Entry) /\ Linked(c) /\ Contiguous(c) /\ d + 1 \in 1 .. Len(c) + 1
        /\ Len(c) \in 0 .. Len(c) /\ d + 1 <= Len(c) + 1
    BY <1>2, <1>6 DEF L
  <2>2. LET t == SubSeq(c, d + 1, Len(c))
        IN  /\ t \in Seq(Entry) /\ Len(t) = Len(c) - (d + 1) + 1
            /\ \A i \in 1 .. Len(t) :
                  (d + 1) + i - 1 \in d + 1 .. Len(c) /\ t[i] = c[(d + 1) + i - 1]
    BY <2>1, SubBranch
  <2>3. top = SubSeq(c, d + 1, Len(c))
    BY <1>6 DEF L
  <2> QED
    BY <2>2, <2>3 DEF L
<1>8. DOMAIN top = 1 .. Len(top)
  BY <1>7, LenProperties
<1> HIDE DEF top, L
<1>9. CachedHeights = {Ht(top[i]) : i \in DOMAIN top}
  <2>1. ASSUME NEW h \in CachedHeights PROVE \E i \in DOMAIN top : h = Ht(top[i])
    <3>1. PICK j \in d + 1 .. L : h = Ht(c[j])
      BY <1>4
    <3>2. j - d \in 1 .. Len(top) /\ (d + 1) + (j - d) - 1 = j
      <4>1. Len(top) = L - d
        BY <1>2, <1>6, <1>7
      <4> QED
        BY <1>2, <1>6, <4>1
    <3> QED
      BY <1>7, <1>8, <3>1, <3>2
  <2>2. ASSUME NEW i \in DOMAIN top PROVE Ht(top[i]) \in CachedHeights
    BY <1>4, <1>7, <1>8
  <2> QED
    BY <2>1, <2>2
<1>10. \A i \in DOMAIN top : cache.by_height[Ht(top[i])].value = top[i]
  <2> SUFFICES ASSUME NEW i \in 1 .. Len(top)
               PROVE  cache.by_height[Ht(top[i])].value = top[i]
    BY <1>8
  <2>1. PICK j \in d + 1 .. L : top[i] = c[j]
    BY <1>7
  <2>2. cache.by_height[Ht(c[j])] = [id |-> c[j].id, value |-> c[j]]
    BY <1>4
  <2> QED
    BY <2>1, <2>2
<1>11. ASSUME outbox = <<>>, Capacity >= BufferWindow
       PROVE  Ids(canonical) \subseteq DOMAIN cache.by_id
  <2>1. ~ fed /\ Pending = <<>>
    BY <1>1, <1>11 DEF ServiceInv, Pending
  <2>2. AllView = FedView
    BY <1>1, <2>1, FedThenPending, ReplayShort
  <2>3. /\ Len(canonical) \in Nat /\ DOMAIN canonical = 1 .. Len(canonical)
        /\ Len(canonical) <= L
        /\ \A i \in 1 .. Len(canonical) : canonical[i] = c[L - Len(canonical) + i]
    BY <1>1, <2>2, BufferFacts DEF InStep, EndsWith, c, L
  <2>4. d + Len(canonical) <= L
    BY <1>3, <1>11, <2>2 DEF c, L
  <2>5. ASSUME NEW i \in 1 .. Len(canonical) PROVE canonical[i].id \in DOMAIN cache.by_id
    <3> DEFINE j == L - Len(canonical) + i
    <3>1. j \in d + 1 .. L
      BY <1>2, <1>6, <2>3, <2>4
    <3>2. canonical[i] = c[j]
      BY <2>3
    <3> HIDE DEF j
    <3>3. Ht(c[j]) \in CachedHeights /\ cache.by_height[Ht(c[j])].id = c[j].id
      <4>1. cache.by_height[Ht(c[j])] = [id |-> c[j].id, value |-> c[j]]
        BY <1>4, <3>1
      <4>2. Ht(c[j]) \in {Ht(c[k]) : k \in d + 1 .. L}
        BY <3>1
      <4> QED
        BY <1>4, <4>1, <4>2
    <3>4. c[j].id \in DOMAIN cache.by_id
      BY <3>3 DEF SuffixInv, CacheInv, Agree, CachedHeights
    <3> QED
      BY <3>2, <3>4
  <2> QED
    BY <2>3, <2>5 DEF Ids
<1> QED
  BY <1>6, <1>9, <1>10, <1>11 DEF CacheIsChainSuffix, c, n, L, top

\* The cache comment of service.rs, "reflecting canonical-only state at all times", for
\* every tree, window, capacity and schedule: at every await the cache is the newest
\* part of the chain fed so far, also between the Undos of a reorg, and between two
\* calls, when its capacity covers the window, it has all of the engine's buffer.
THEOREM CacheHoldsChainSuffix == StreamServiceSpec => []CacheIsChainSuffix
<1>1. StreamServiceSpec => []SuffixInv
  BY SuffixStart, SuffixStep, IntactInvariance, PTL DEF StreamServiceSpec
<1> QED
  BY <1>1, SuffixMeans, PTL
=============================================================================
