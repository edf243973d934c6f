--------------------------- MODULE StreamService ---------------------------
(***************************************************************************)
(* lightcycle-firehose/src/server.rs, Stream.Blocks without an archive, on *)
(* top of the relayer: the hub's pump, one subscriber's session (subscribe,*)
(* read the cache window, walk the cache, then backfill followed by the    *)
(* de-duplicated live tail), and the client at the other end, which        *)
(* reconnects with the cursor of the last response it got.  Subscribers    *)
(* share nothing but the hub and the cache, so one session stands for all. *)
(***************************************************************************)
EXTENDS RelayerService, Hub, Cursor

CONSTANTS StartBlock,    \* the start_block_num a client may ask for, 0 for live
          MaxConnects,   \* bound of the model: connections of the client
          IdOf           \* the bytes of a BlockId

\* Cursor::new of a block.
CursorOf(id) == [height |-> Height[id], block_id |-> IdOf[id]]

\* The heights of the chain, and the one after each, are u64.
ASSUME StreamAssumption ==
    /\ StartBlock \subseteq Nat /\ MaxConnects \in Nat
    /\ \A b \in Block : IsCursor(CursorOf(b)) /\ IsHeight(Height[b] + 1)

VARIABLES sess,      \* off, subscribed, walking or live: where `blocks` is
          start,     \* start_height of the session
          top,       \* max_h of the cache window it read
          ring,      \* its broadcast receiver
          rows,      \* backfill not yet delivered
          dedup,     \* last_backfill_height, None without backfill
          client     \* external: [chain, cursor, from, ok, connects]; the cursor is
                     \* known by the block of the response that carried it

sessionVars == <<sess, start, top, ring, rows, dedup>>
streamVars == <<serviceVars, sessionVars, client>>

Lowest == CHOOSE h \in CachedHeights : \A k \in CachedHeights : h <= k
Highest == CHOOSE h \in CachedHeights : \A k \in CachedHeights : h >= k

-----------------------------------------------------------------------------
(* The client *)

\* A client that has received nothing.
FreshClient == [chain |-> <<>>, cursor |-> NoBlock, from |-> 0, ok |-> TRUE,
                connects |-> 0]

\* What the client does with a response.  Delivery is at least once: a New for a
\* block it holds, or from before its first one, is a repeat.  A New that does not
\* follow its last block is an error it cannot repair.
ClientApply(c, step, id) ==
    LET held == id \in {c.chain[i] : i \in DOMAIN c.chain}
        old  == c.chain # <<>> /\ Height[id] < Height[c.chain[1]]
        tip  == c.chain[Len(c.chain)]
        seen == [c EXCEPT !.cursor = id]
    IN  CASE step = "New" /\ ~ held /\ ~ old ->
               [seen EXCEPT !.chain = Append(@, id),
                            !.ok = @ /\ (c.chain # <<>> => Parent[id] = tip)]
          [] step = "Undo" /\ held ->
               [seen EXCEPT !.chain = SubSeq(@, 1, Len(@) - 1), !.ok = @ /\ tip = id]
          [] OTHER -> seen

-----------------------------------------------------------------------------
(* Stream.Blocks *)

EndSession ==
    /\ sess' = "off" /\ start' = 0 /\ top' = 0 /\ ring' = FreshRing
    /\ rows' = <<>> /\ dedup' = None

\* saturating_add(1) on u64.
SaturatingInc(h) == IF IsHeight(h + 1) THEN h + 1 ELSE h

\* Where the cursor of a response about block `id` resumes: the response carries
\* to_bytes, the request brings the blob back to from_bytes, and the next height is
\* taken (the block_id is not looked at).  Empty: the blob is refused.
CursorStart(id) ==
    {SaturatingInc(cur.height) : cur \in FromBytes(ToBytes(CursorOf(id)))}

\* start_height: a cursor takes precedence.
StartHeight(s) == IF client.cursor # NoBlock THEN CursorStart(client.cursor) ELSE {s}

\* blocks: decide where to start, and subscribe before anything else.  The
\* rejections of unsupported fields end the call before it has any effect.
Connect(s) ==
    /\ sess = "off" /\ client.connects < MaxConnects
    /\ start' \in StartHeight(s)
    /\ ring' = FreshRing
    /\ sess' = IF start' = 0 THEN "live" ELSE "subscribed"
    /\ client' = [client EXCEPT !.connects = @ + 1,
                                !.from = IF client.chain = <<>> THEN start' ELSE @]
    /\ UNCHANGED <<serviceVars, top, rows, dedup>>

\* The request falls into, or right behind, the cache window.
Covered(s) == CachedHeights # {} /\ s >= Lowest /\ s <= Highest + 1

\* First cache read: the window, and the early refusals.
ReadWindow ==
    /\ sess = "subscribed"
    /\ IF Covered(start)
       THEN /\ sess' = "walking" /\ top' = Highest
            /\ UNCHANGED <<start, ring, rows, dedup>>
       ELSE EndSession
    /\ UNCHANGED <<serviceVars, client>>

\* last_backfill_height.
DedupFrom(s, t) == IF s > t THEN None ELSE t

\* Second cache read: every height up to the window's top, or a refusal.
WalkCache ==
    /\ sess = "walking"
    /\ IF start .. top \subseteq CachedHeights
       THEN /\ sess' = "live"
            /\ rows' = [i \in 1 .. top - start + 1 |->
                           cache.by_height[start + i - 1].id]
            /\ dedup' = DedupFrom(start, top)
            /\ UNCHANGED <<start, top, ring>>
       ELSE EndSession
    /\ UNCHANGED <<serviceVars, client>>

\* The next backfill row goes out, as a New.
DeliverRow ==
    /\ sess = "live" /\ rows # <<>>
    /\ client' = ClientApply(client, "New", Head(rows))
    /\ rows' = Tail(rows)
    /\ UNCHANGED <<serviceVars, sess, start, top, ring, dedup>>

\* Also swallows the first block behind the backfill.
Dropped_OneMore(o) ==
    \/ o.step \in {"ForkObserved", "ForkResolved"}
    \/ Ht(o.block) <= dedup + 1

\* filter_map: ledger entries have no wire form; heights at or below the backfill
\* are taken for shipped.
Dropped(o) ==
    \/ o.step \in {"ForkObserved", "ForkResolved"}
    \/ Ht(o.block) <= dedup

\* The next live output is dropped or goes out.
DeliverLive ==
    /\ sess = "live" /\ rows = <<>> /\ ring.items # <<>> /\ ~ ring.lagged
    /\ LET o == Head(ring.items)
       IN  client' = IF Dropped(o) THEN client
                     ELSE ClientApply(client, o.step, o.block.id)
    /\ ring' = [ring EXCEPT !.items = Tail(@)]
    /\ UNCHANGED <<serviceVars, sess, start, top, rows, dedup>>

\* Lagged: the stream ends with resource_exhausted.
LagOut ==
    /\ sess = "live" /\ rows = <<>> /\ ring.lagged
    /\ EndSession
    /\ UNCHANGED <<serviceVars, client>>

\* The client hangs up, or the connection breaks.
Disconnect ==
    /\ sess # "off"
    /\ EndSession
    /\ UNCHANGED <<serviceVars, client>>

-----------------------------------------------------------------------------
\* Hub::pump_from: one output from the channel to every subscriber.
PumpOutput ==
    /\ Recv
    /\ ring' = IF sess = "off" THEN ring ELSE Broadcast(ring, Head(channel))
    /\ UNCHANGED <<sess, start, top, rows, dedup, client>>

\* A step of the relayer that does not touch the receiving end.
RelayerStep ==
    /\ ServiceStep \/ CloseChannel \/ \E b \in Block : NodeMoves(b)
    /\ UNCHANGED <<sessionVars, client>>

StreamInit ==
    /\ ServiceInit
    /\ sess = "off" /\ start = 0 /\ top = 0 /\ ring = FreshRing
    /\ rows = <<>> /\ dedup = None
    /\ client = FreshClient

StreamNext ==
    \/ RelayerStep
    \/ PumpOutput
    \/ \E s \in StartBlock : Connect(s)
    \/ ReadWindow
    \/ WalkCache
    \/ DeliverRow
    \/ DeliverLive
    \/ LagOut
    \/ Disconnect

StreamSpec == StreamInit /\ [][StreamNext]_streamVars

-----------------------------------------------------------------------------
(* Properties *)

\* The node's blocks are one branch: one block at a height, the child of the block
\* below it, so that the node can move along it and never off it.
OneBranch ==
    \A a, b \in Block : /\ Height[a] = Height[b] => a = b
                        /\ Height[b] = Height[a] + 1 => Parent[b] = a

\* On a chain without reorgs the client's chain has neither gap nor foreign block
\* and starts no later than asked, across the subscription racing the cache walk,
\* the cache running ahead of the hub, lag, hang-ups and cursor resumption.
ClientInStep ==
    OneBranch =>
        /\ client.ok
        /\ client.from # 0 /\ client.chain # <<>> =>
              Height[client.chain[1]] <= client.from

-----------------------------------------------------------------------------
(* What the docs say and the code does not do *)

\* StreamService: the backfill "transitions seamlessly into the live broadcast".
\* Violated once a reorg follows the backfill: the Undo of a backfilled block and
\* the New that replaces it are at or below last_backfill_height and are dropped.
SeamlessThroughReorg == client.ok

\* The Undo of a block is still on its way to the client.
UndoUnderway(id) ==
    \E q \in {ring.items, channel, outbox} : \E i \in DOMAIN q :
        q[i].step = "Undo" /\ q[i].block.id = id

\* cursor.rs: "if the client's last-seen block_id no longer matches our canonical
\* chain at that height, we know the client needs an UNDO walk before NEW
\* deliveries can resume": a New that a resumed session ships finds the client
\* where it can be applied, its orphaned blocks retracted by Undos before.  Only
\* the steps are looked at when no Undo of the client's last block is still on its
\* way, so that it is not merely late.  Violated: the session walks the cache from
\* the height after the cursor, whatever block the client has there.
ResumeIsReorgAware ==
    [][/\ client.connects > 1 /\ client.ok /\ client.chain # <<>>
       /\ rows # <<>> /\ rows' = Tail(rows)
       /\ ~ UndoUnderway(client.chain[Len(client.chain)])
       => client'.ok]_streamVars
=============================================================================
