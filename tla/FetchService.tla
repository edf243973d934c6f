---------------------------- MODULE FetchService ----------------------------
(***************************************************************************)
(* Fetch.Block (lightcycle-firehose/src/server.rs), the read-through cache *)
(* decorator behind it (oracle.rs) and the upstream oracle (main.rs): a    *)
(* second writer of the cache the relayer feeds.  The probe, the upstream  *)
(* RPC and the fill are separate steps, and the relayer runs in between.   *)
(***************************************************************************)
EXTENDS Archiver

CONSTANT FetchHeight    \* the heights clients ask for

ASSUME FetchAssumption == FetchHeight \subseteq Nat

VARIABLES fetch    \* [stage, height, block]: the call in progress

fetchVars == <<archiverVars, fetch>>

NoFetch == [stage |-> "off", height |-> 0, block |-> NoBlock]

\* Fetch.Block: an archived height is answered at once; any other, and any when
\* the archive read fails, goes on to the oracle.  Rejected references end the call
\* before this.
FetchBlock(h) ==
    /\ fetch.stage = "off"
    /\ ArchiveGet(archive, h) = {} \/ DiskFails
    /\ fetch' = [NoFetch EXCEPT !.stage = "probe", !.height = h]
    /\ UNCHANGED archiverVars

\* CachingBlockOracle: a hit is answered from the cache.
ProbeHit ==
    /\ fetch.stage = "probe" /\ GetByHeight(cache, fetch.height) # {}
    /\ fetch' = NoFetch
    /\ UNCHANGED archiverVars

\* A miss goes upstream, without the lock.
ProbeMiss ==
    /\ fetch.stage = "probe" /\ GetByHeight(cache, fetch.height) = {}
    /\ fetch' = [fetch EXCEPT !.stage = "upstream"]
    /\ UNCHANGED archiverVars

\* GrpcBlockOracle: the node's block at that height.
UpstreamOk(b) ==
    /\ fetch.stage = "upstream"
    /\ b \in Ancestors[node_head] /\ Height[b] = fetch.height
    /\ fetch' = [fetch EXCEPT !.stage = "fill", !.block = b]
    /\ UNCHANGED archiverVars

\* It has no such block, or the RPC failed, or the client is gone.
FetchFails ==
    /\ fetch.stage \in {"probe", "upstream", "fill"}
    /\ fetch' = NoFetch
    /\ UNCHANGED archiverVars

\* The upstream oracle has no fork history: fork_id is 0.
Filled(c, b) == Insert(c, Height[b], b, [id |-> b, fork_id |-> 0])

\* The decorator inserts what came back, whatever the cache holds by now.
FillCache ==
    /\ fetch.stage = "fill"
    /\ cache' = Filled(cache, fetch.block)
    /\ fetch' = NoFetch
    /\ UNCHANGED <<engineVars, phase, outbox, fed, channel, closed, seen_at,
                   watch_head, sr_set, node_head, archiverOnly>>

FetchInit == ArchiverInit /\ fetch = NoFetch

FetchNext ==
    \/ ArchiverNext /\ fetch' = IF life' = life THEN fetch ELSE NoFetch
    \/ \E h \in FetchHeight : FetchBlock(h)
    \/ ProbeHit
    \/ ProbeMiss
    \/ \E b \in Block : UpstreamOk(b)
    \/ FetchFails
    \/ FillCache

FetchSpec == FetchInit /\ [][FetchNext]_fetchVars

-----------------------------------------------------------------------------
(* What the docs say and the code does not do *)

\* cache.rs on remove_by_id: the relayer drops an orphaned block on its Undo, which
\* "keeps the cache reflecting canonical-only state at all times".  With every
\* output of the engine applied to the cache, what it holds at the height of a
\* buffered block is that block, or at least one of the node's branch that the
\* relayer has yet to follow.  Violated: a fill that comes back after relayer and
\* node have left a branch puts its orphan in the place of the canonical block.
CacheCanonicalOnly ==
    outbox = <<>> =>
        \A i \in DOMAIN canonical :
            Ht(canonical[i]) \in CachedHeights =>
                cache.by_height[Ht(canonical[i])].id
                    \in {canonical[i].id} \cup Ancestors[node_head]
=============================================================================
