------------------------ MODULE RelayerServiceStream ------------------------
(***************************************************************************)
(* The service together with the consumer at the far end of its channel:   *)
(* what the channel delivered, what it still holds and what the engine     *)
(* returned must add up, and the shared cache must show the same story.    *)
(***************************************************************************)
EXTENDS RelayerService, Consumer

VARIABLE view   \* history: the consumer's materialized state

StreamServiceInit == ServiceInit /\ view = FreshView
StreamServiceNext ==
    /\ ServiceNext
    /\ view' = IF Len(channel') < Len(channel) /\ ~ closed'
               THEN Apply(view, Head(channel)) ELSE view
StreamServiceSpec ==
    StreamServiceInit /\ [][StreamServiceNext]_<<serviceVars, view>>
FairStreamServiceSpec == StreamServiceSpec /\ ServiceFairness

-----------------------------------------------------------------------------
\* The consumer's chain once everything fed to the cache has arrived.
FedView == Replay(view, channel \o IF fed THEN <<Head(outbox)>> ELSE <<>>)

\* As long as the receiver lives, what it has applied, followed by the channel,
\* followed by what the service still holds, is exactly the engine's story: no
\* output lost, repeated or reordered by blocked sends, failed RPCs, skipped
\* blocks and head updates between two blocks; it ends in the engine's buffer.
StreamIntact ==
    ~ closed =>
        LET all == Replay(view, channel \o outbox)
        IN  all.ok /\ IsSuffix(canonical, all.chain)

\* The cache comment "keeps the cache reflecting canonical-only state at all
\* times": at every await, also between the Undos of a reorg, the cache holds
\* exactly the newest part of the chain fed so far, without a hole, and between
\* calls all of the engine's buffer.
CacheIsChainSuffix ==
    ~ closed =>
        LET c   == FedView.chain
            n   == Cardinality(CachedHeights)
            top == SubSeq(c, Len(c) - n + 1, Len(c))
        IN  /\ n <= Len(c)
            /\ CachedHeights = {Ht(top[i]) : i \in DOMAIN top}
            /\ \A i \in DOMAIN top : cache.by_height[Ht(top[i])].value = top[i]
            /\ outbox = <<>> /\ Capacity >= BufferWindow =>
                  Ids(canonical) \subseteq DOMAIN cache.by_id

\* The seen-to-finalized measurement is closed for every buffered block whose
\* Irreversible has been shipped, also when New and Irreversible of a block came
\* out of one call, and the observer never tracks more than max_pending blocks.
HorizonClosed ==
    /\ Cardinality(seen_at) <= MaxPending
    /\ outbox = <<>> =>
          \A i \in DOMAIN canonical :
              Ht(canonical[i]) <= last_irreversible_height =>
                  canonical[i].id \notin seen_at
=============================================================================
