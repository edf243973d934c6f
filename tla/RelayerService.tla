--------------------------- MODULE RelayerService ---------------------------
(***************************************************************************)
(* lightcycle-relayer/src/service.rs: the tick loop that polls the node,   *)
(* feeds the ReorgEngine and ships what it returns, one output at a time,  *)
(* to the horizon observer, the shared block cache and the bounded output  *)
(* channel.  A step is what runs between two awaits, so the cache readers, *)
(* the pump, the SR-set refresh and the node interleave as tokio lets them.*)
(***************************************************************************)
EXTENDS ReorgEngine, BlockCache

CONSTANTS ChannelCapacity,  \* mpsc::channel(256)
          MaxPending,       \* ConsistencyHorizonObserver::max_pending (1024)
          VerifyPolicy,     \* Disabled, Lenient or Strict
          Recovered,        \* the address recover_witness_address finds
          Malformed,        \* or its failure
          Witness,          \* header.witness of a block
          SrSets,           \* the SR sets fetch_active_sr_set may return
          NoSrSet           \* the None of the SR-set watch

ASSUME ServiceAssumption ==
    /\ ChannelCapacity \in Nat \ {0}
    /\ MaxPending \in Nat \ {0}
    /\ VerifyPolicy \in {"Disabled", "Lenient", "Strict"}
    /\ DOMAIN Recovered = Block /\ DOMAIN Witness = Block
    /\ \A b \in Block : Witness[b] # Malformed
    /\ NoSrSet \notin SrSets
    \* The cache of this service: its keys are the chain's, its values the entries.
    /\ Block \subseteq CacheId /\ Entry \subseteq CacheValue
    /\ \A b \in Block : Height[b] \in CacheHeight

VARIABLES phase,       \* where the service task awaits
          outbox,      \* outputs of the last engine call not yet sent
          fed,         \* the first of them has reached horizon and cache
          channel,     \* the output mpsc
          closed,      \* its receiver is gone
          seen_at,     \* keys of ConsistencyHorizonObserver::seen_at
          watch_head,  \* the solidified-head watch channel
          sr_set,      \* the SR-set watch channel
          node_head    \* external: the node's current block

serviceOnly == <<phase, outbox, fed, channel, closed, cache, seen_at,
                 watch_head, sr_set, node_head>>
serviceVars == <<engineVars, serviceOnly>>

Phases == {"idle", "solid", "drain_solid", "now", "drain_now", "stopped"}

-----------------------------------------------------------------------------
(* tick_once, first half: the solidified head *)

\* run: a tick fires; a closed channel ends the loop.
Tick ==
    /\ phase = "idle"
    /\ phase' = IF closed THEN "stopped" ELSE "solid"
    /\ UNCHANGED <<engineVars, outbox, fed, channel, closed, cache, seen_at,
                   watch_head, sr_set, node_head>>

\* fetch_solidified_head answered h: broadcast it, then tell the engine.
SolidHeadOk(h) ==
    /\ phase = "solid"
    /\ watch_head' = h
    /\ SetSolidifiedHead(h)
    /\ outbox' = ret'.out
    /\ phase' = "drain_solid"
    /\ UNCHANGED <<fed, channel, closed, cache, seen_at, sr_set, node_head>>

\* It answered None, or the RPC failed or timed out: go on with the old head.
SolidHeadMissing ==
    /\ phase = "solid"
    /\ phase' = "now"
    /\ UNCHANGED <<engineVars, outbox, fed, channel, closed, cache, seen_at,
                   watch_head, sr_set, node_head>>

-----------------------------------------------------------------------------
(* tick_once, second half: the head block *)

\* The block is skipped: the source failed, or it is the tip already, or
\* process_one's verification rejected it.
SkipBlock ==
    /\ phase' = "idle"
    /\ UNCHANGED <<engineVars, outbox, fed, channel, closed, cache, seen_at,
                   watch_head, sr_set, node_head>>

\* fetch_now_block failed or timed out.
NowBlockErr == phase = "now" /\ SkipBlock

\* The de-dupe before process_one.
IsTip(b) == canonical # <<>> /\ Tip.id = b

\* verify_witness_signature: the checks in their order.
VerifyWitnessSignature(b, sr) ==
    CASE Recovered[b] = Malformed   -> "SignatureRecoveryFailed"
      [] Recovered[b] # Witness[b]  -> "WitnessAddressMismatch"
      [] Recovered[b] \notin sr     -> "WitnessNotInSrSet"
      [] OTHER                      -> "Ok"

\* process_one: does verification let the block through?  With a policy but no SR
\* set it does; Lenient also lets a mismatching witness address through.
Verified(b) ==
    \/ VerifyPolicy = "Disabled"
    \/ sr_set = NoSrSet
    \/ VerifyWitnessSignature(b, sr_set) \in
          {"Ok"} \cup IF VerifyPolicy = "Lenient" THEN {"WitnessAddressMismatch"} ELSE {}

\* fetch_now_block answered: skip the block, or accept it and hold the outputs;
\* process_one drops the three errors of `accept`.
NowBlockOk ==
    /\ phase = "now"
    /\ IF IsTip(node_head) \/ ~ Verified(node_head)
       THEN SkipBlock
       ELSE /\ Accept(node_head)
            /\ Len(fork_history') <= MaxForkHistory
            /\ outbox' = ret'.out
            /\ phase' = IF ret'.err = "none" THEN "drain_now" ELSE "idle"
            /\ UNCHANGED <<fed, channel, closed, cache, seen_at, watch_head,
                           sr_set, node_head>>

-----------------------------------------------------------------------------
(* The output loop of both halves *)

\* ConsistencyHorizonObserver::observe_seen: an arbitrary key is evicted when
\* the map is full.  The result is a set of possible maps.
ObserveSeen(S, id) ==
    IF id \in S THEN {S}
    ELSE {T \cup {id} : T \in IF Cardinality(S) >= MaxPending
                              THEN {S \ {x} : x \in S} ELSE {S}}

\* Forgets to close the horizon.
ObserveForHorizon_NewOnly(S, o) ==
    IF o.step = "New" THEN ObserveSeen(S, o.block.id) ELSE {S}

\* observe_for_horizon.
ObserveForHorizon(S, o) ==
    CASE o.step = "New"          -> ObserveSeen(S, o.block.id)
      [] o.step = "Irreversible" -> {S \ {o.block.id}}
      [] OTHER                   -> {S}

\* Leaves orphans in the cache for the next insert to replace.
FeedCache_NoUndo(c, o) ==
    IF o.step = "New" THEN Insert(c, Ht(o.block), o.block.id, o.block) ELSE c

\* feed_cache.
FeedCache(c, o) ==
    CASE o.step = "New"  -> Insert(c, Ht(o.block), o.block.id, o.block)
      [] o.step = "Undo" -> RemoveById(c, o.block.id)
      [] OTHER           -> c

\* The loop body up to `send`: horizon, then cache.
FeedOutput ==
    /\ outbox # <<>> /\ ~ fed
    /\ fed' = TRUE
    /\ seen_at' \in ObserveForHorizon(seen_at, Head(outbox))
    /\ cache' = FeedCache(cache, Head(outbox))
    /\ UNCHANGED <<engineVars, phase, outbox, channel, closed, watch_head, sr_set,
                   node_head>>

\* Ships the outputs of a call last first.
TakeFirst_Last(q) == <<q[Len(q)], SubSeq(q, 1, Len(q) - 1)>>
\* `for output in outputs`: what is sent next, and what is left.
TakeFirst(q) == <<Head(q), Tail(q)>>

\* One slot of the channel is never used.
HasRoom_OneShort(ch) == Len(ch) < ChannelCapacity - 1
\* send().await completes when the channel has room.
HasRoom(ch) == Len(ch) < ChannelCapacity

\* tx.send(output).await, once there is room.
SendOutput ==
    /\ fed /\ ~ closed
    /\ HasRoom(channel)
    /\ channel' = Append(channel, TakeFirst(outbox)[1])
    /\ outbox' = TakeFirst(outbox)[2]
    /\ fed' = FALSE
    /\ UNCHANGED <<engineVars, phase, closed, cache, seen_at, watch_head, sr_set,
                   node_head>>

\* send() fails: OutputChannelClosed ends the service, what is left is dropped.
SendFails ==
    /\ fed /\ closed /\ phase # "stopped"
    /\ phase' = "stopped"
    /\ UNCHANGED <<engineVars, outbox, fed, channel, closed, cache, seen_at,
                   watch_head, sr_set, node_head>>

\* All outputs of the call are sent: on to the head block, or the tick is over.
DrainDone ==
    /\ phase \in {"drain_solid", "drain_now"}
    /\ outbox = <<>>
    /\ phase' = IF phase = "drain_solid" THEN "now" ELSE "idle"
    /\ UNCHANGED <<engineVars, outbox, fed, channel, closed, cache, seen_at,
                   watch_head, sr_set, node_head>>

-----------------------------------------------------------------------------
(* The tasks around the service *)

\* The receiving end (the hub's pump, or the stream command) takes an output.
Recv ==
    /\ channel # <<>> /\ ~ closed
    /\ channel' = Tail(channel)
    /\ UNCHANGED <<engineVars, phase, outbox, fed, closed, cache, seen_at, watch_head,
                   sr_set, node_head>>

\* The receiving end goes away (shutdown), with what it had not read.
CloseChannel ==
    /\ ~ closed
    /\ closed' = TRUE
    /\ channel' = <<>>
    /\ UNCHANGED <<engineVars, phase, outbox, fed, cache, seen_at, watch_head, sr_set,
                   node_head>>

\* run_relay's refresh task got a new SR set; it runs only with a policy.
RefreshSrSet(s) ==
    /\ VerifyPolicy # "Disabled"
    /\ sr_set' = s
    /\ UNCHANGED <<engineVars, phase, outbox, fed, channel, closed, cache, seen_at,
                   watch_head, node_head>>

\* External: the node's head moves, forward, to another branch, or back.
NodeMoves(b) ==
    /\ node_head' = b
    /\ UNCHANGED <<engineVars, phase, outbox, fed, channel, closed, cache, seen_at,
                   watch_head, sr_set>>

-----------------------------------------------------------------------------
\* RelayerService::new, wired by run_relay, which fetches the SR set first.
ServiceInit ==
    /\ EngineInit
    /\ CacheInit
    /\ phase = "idle" /\ outbox = <<>> /\ fed = FALSE
    /\ channel = <<>> /\ closed = FALSE
    /\ seen_at = {}
    /\ watch_head = None
    /\ sr_set \in IF VerifyPolicy = "Disabled" THEN {NoSrSet} ELSE SrSets
    /\ node_head \in Block

\* What the service task does by itself.
ServiceStep ==
    \/ Tick
    \/ \E h \in SolidHead : SolidHeadOk(h)
    \/ SolidHeadMissing
    \/ NowBlockErr
    \/ NowBlockOk
    \/ FeedOutput
    \/ SendOutput
    \/ SendFails
    \/ DrainDone

ServiceNext ==
    \/ ServiceStep
    \/ Recv
    \/ CloseChannel
    \/ \E s \in SrSets : RefreshSrSet(s)
    \/ \E b \in Block : NodeMoves(b)

ServiceSpec == ServiceInit /\ [][ServiceNext]_serviceVars

(***************************************************************************)
(* Fairness.  tokio keeps polling the service task and the receiving task, *)
(* and every RPC returns or times out (GrpcSource::connect sets 10 s), so  *)
(* the service's own steps and Recv are weakly fair.  Strong fairness of   *)
(* NowBlockOk says that the node answers again and again; only the run on  *)
(* gaps assumes it.                                                        *)
(***************************************************************************)
ServiceFairness == WF_serviceVars(ServiceStep) /\ WF_serviceVars(Recv)
ReachableNodeSpec == ServiceSpec /\ ServiceFairness /\ SF_serviceVars(NowBlockOk)

-----------------------------------------------------------------------------
(* Properties *)

\* Back-pressure never wedges the loop: whatever the channel's capacity and
\* however many outputs one call returned, a tick comes to its end (or the
\* service stops because the receiver is gone).
TicksComplete == []<>(phase \in {"idle", "stopped"})

-----------------------------------------------------------------------------
(* What the docs say and the code does not do *)

\* service.rs, "Gap handling": "The service responds by **skipping forward** to
\* the new head".  If the engine has answered ParentNotInBuffer for the node's
\* head, and the node stays there and keeps answering, the engine should come to
\* hold that block.  Violated: the buffer is left as it was, so no later block
\* connects either.
GapSkipsForward ==
    \A b \in Block :
        []( /\ ret.err = "ParentNotInBuffer" /\ Height[b] > Ht(Tip)
            /\ [](node_head = b)
            => <>(b \in canonical_ids \/ closed))
=============================================================================
