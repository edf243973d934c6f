----------------------------- MODULE BlockCache -----------------------------
(***************************************************************************)
(* lightcycle-store/src/cache.rs: the bounded map of recent blocks, held   *)
(* twice, by height and by id.  The relayer writes it, the firehose reads  *)
(* it; the RwLock makes every method below one step.                       *)
(***************************************************************************)
EXTENDS Integers, FiniteSets

CONSTANTS Capacity,       \* BlockCache::capacity
          CacheId,        \* the BlockIds callers pass
          CacheHeight,    \* the heights callers pass
          CacheValue      \* the stored values (T)

\* The assert of BlockCache::new.
ASSUME CacheAssumption ==
    /\ Capacity \in Nat \ {0}
    /\ CacheHeight \subseteq Nat

VARIABLE cache   \* [by_height: height -> [id, value], by_id: id -> height]

EmptyCache == [by_height |-> <<>>, by_id |-> <<>>]

\* Map updates: drop keys, set a key.
Without(f, S) == [k \in DOMAIN f \ S |-> f[k]]
With(f, key, v) == [k \in DOMAIN f \cup {key} |-> IF k = key THEN v ELSE f[k]]

-----------------------------------------------------------------------------
\* Keeps the lowest heights; forgets the off-by-one of `>`.
Excess_Highest(bh) ==
    {h \in DOMAIN bh : Cardinality({k \in DOMAIN bh : k < h}) >= Capacity}
Excess_Late(bh) ==
    {h \in DOMAIN bh : Cardinality({k \in DOMAIN bh : k > h}) > Capacity}

\* The heights pop_first evicts until len() <= capacity: all but the top ones.
Excess(bh) ==
    {h \in DOMAIN bh : Cardinality({k \in DOMAIN bh : k > h}) >= Capacity}

\* Drop heights from both maps (the eviction and pruning loops).
DropHeights(c, H) ==
    [by_height |-> Without(c.by_height, H),
     by_id     |-> Without(c.by_id, {c.by_height[h].id : h \in H})]

\* The id another block held the height under: its by_id mapping must go.
Displaced(c, h, id) ==
    IF h \in DOMAIN c.by_height THEN {c.by_height[h].id} \ {id} ELSE {}

\* The height the same id sat at before, when it differs.
Moved(c, h, id) ==
    IF id \in DOMAIN c.by_id THEN {c.by_id[id]} \ {h} ELSE {}

\* Stores the block one height too high.
Insert_OffByOne(c, h, id, v) ==
    [by_height |-> With(c.by_height, h + 1, [id |-> id, value |-> v]),
     by_id     |-> With(c.by_id, id, h + 1)]

\* BlockCache::insert.
Insert(c, h, id, v) ==
    LET put == [by_height |-> With(Without(c.by_height, Moved(c, h, id)),
                                   h, [id |-> id, value |-> v]),
                by_id     |-> With(Without(c.by_id, Displaced(c, h, id)), id, h)]
    IN  DropHeights(put, Excess(put.by_height))

\* BlockCache::get_by_height and get_by_id, as the set of what they return.
GetByHeight(c, h) == {c.by_height[k] : k \in {h} \cap DOMAIN c.by_height}
GetById(c, id) ==
    {c.by_height[h] : h \in {c.by_id[k] : k \in {id} \cap DOMAIN c.by_id}
                            \cap DOMAIN c.by_height}

\* Clears the id index only.
RemoveById_IndexOnly(c, id) == [c EXCEPT !.by_id = Without(@, {id})]

\* BlockCache::remove_by_id.
RemoveById(c, id) ==
    IF id \in DOMAIN c.by_id
    THEN [by_height |-> Without(c.by_height, {c.by_id[id]}),
          by_id     |-> Without(c.by_id, {id})]
    ELSE c

\* BlockCache::prune_below.
PruneBelow(c, h) == DropHeights(c, {k \in DOMAIN c.by_height : k < h})

-----------------------------------------------------------------------------
CacheInit == cache = EmptyCache

CacheNext ==
    \/ \E h \in CacheHeight, id \in CacheId, v \in CacheValue :
          cache' = Insert(cache, h, id, v)
    \/ \E id \in CacheId : cache' = RemoveById(cache, id)
    \/ \E h \in CacheHeight : cache' = PruneBelow(cache, h)

CacheSpec == CacheInit /\ [][CacheNext]_cache

-----------------------------------------------------------------------------
CachedHeights == DOMAIN cache.by_height

\* Types of the two maps.
CacheTypeOK ==
    /\ DOMAIN cache = {"by_height", "by_id"}
    /\ CachedHeights \subseteq CacheHeight
    /\ \A h \in CachedHeights : cache.by_height[h] \in [id : CacheId, value : CacheValue]
    /\ DOMAIN cache.by_id \subseteq CacheId

\* The two maps are each other's inverse, whatever order of inserts, replacements
\* at one height, moves of one id between heights, removals and evictions: a
\* lookup by id never answers with another block, and no id outlives its entry.
IndexesAgree ==
    /\ \A h \in CachedHeights :
          /\ cache.by_height[h].id \in DOMAIN cache.by_id
          /\ cache.by_id[cache.by_height[h].id] = h
    /\ \A id \in DOMAIN cache.by_id :
          /\ cache.by_id[id] \in CachedHeights
          /\ cache.by_height[cache.by_id[id]].id = id

\* The cache never holds more than its capacity once a call has returned.
WithinCapacity == Cardinality(CachedHeights) <= Capacity

\* Eviction takes the lowest heights: when a cached height disappears while the
\* cache has no less than it had, everything that stays is above it, so the newest
\* height is never the one evicted.
EvictsOldest ==
    [][Cardinality(CachedHeights') >= Cardinality(CachedHeights) =>
          \A h \in CachedHeights \ CachedHeights' :
             \/ \A k \in CachedHeights' : h < k
             \/ cache.by_height[h].id \in DOMAIN cache'.by_id]_cache
=============================================================================
