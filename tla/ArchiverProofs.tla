--------------------------- MODULE ArchiverProofs ---------------------------
(***************************************************************************)
(* The archiver, its retention task, Fetch.Block and the backfill of       *)
(* Stream.Blocks on top of the service, for every tree, window, capacity   *)
(* and schedule, through lag, failing writes and restarts of the process.  *)
(***************************************************************************)
EXTENDS FetchBackfill, RelayerServiceStreamProofs

-----------------------------------------------------------------------------
(* Types *)

\* The archiver's state is typed, and the watch never runs ahead of the chain.
TapInv ==
    /\ ServiceInv
    /\ tap.items \in Seq(Output)
    /\ tap = [items |-> tap.items, lagged |-> tap.lagged]
    /\ DOMAIN archive \subseteq Nat
    /\ life \in Nat
    /\ node_solid \in Block \cup {NoBlock}
    /\ watch_head \in OptHeight /\ watch_head <= SolidHeight

\* The process after a restart is a new one.
LEMMA RestartIsInit ==
    ASSUME Restart, node_head \in Block
    PROVE  ServiceInit' /\ CacheInit' /\ EngineInit'
<1>1. node_head' \in Block
  BY DEF Restart
<1>2. EngineInit'
  BY DEF Restart, EngineInit
<1>3. CacheInit'
  BY DEF Restart, CacheInit
<1> QED
  BY <1>1, <1>2, <1>3 DEF Restart, ServiceInit

\* A publish keeps the receiver typed.
LEMMA BroadcastTyped ==
    ASSUME NEW r, r.items \in Seq(Output), r = [items |-> r.items, lagged |-> r.lagged],
           NEW o \in Output
    PROVE  /\ Broadcast(r, o).items \in Seq(Output)
           /\ Broadcast(r, o) = [items |-> Broadcast(r, o).items, lagged |-> Broadcast(r, o).lagged]
           /\ Broadcast(r, o).items = Append(r.items, o)
              \/ (r.items # <<>> /\ Broadcast(r, o).items = Append(Tail(r.items), o))
<1> DEFINE q == r.items
<1>1. q \in Seq(Output) /\ Len(q) \in Nat /\ HubCapacity \in Nat /\ HubCapacity > 0
  BY HubAssumption
<1>2. CASE Len(q) < HubCapacity
  <2> DEFINE x == Append(q, o)
  <2>1. x \in Seq(Output)
    BY <1>1
  <2>2. Broadcast(r, o) = [r EXCEPT !.items = x]
    BY <1>2 DEF Broadcast
  <2> HIDE DEF x, q
  <2>3. Broadcast(r, o) = [items |-> x, lagged |-> r.lagged]
    BY <2>2
  <2> QED
    BY <2>1, <2>3 DEF x, q
<1>3. CASE ~ (Len(q) < HubCapacity)
  <2> DEFINE x == Append(Tail(q), o)
  <2>1. q # <<>>
    BY <1>1, <1>3
  <2>2. x \in Seq(Output)
    BY <1>1, <2>1, MoveHead
  <2>3. Broadcast(r, o) = [items |-> x, lagged |-> TRUE]
    BY <1>3 DEF Broadcast
  <2> HIDE DEF x, q
  <2> QED
    BY <2>1, <2>2, <2>3 DEF x, q
<1> QED
  BY <1>2, <1>3

\* What the archiver's steps do to the service.
LEMMA ArchiverCases ==
    ASSUME ArchiverNext
    PROVE  \/ RelayerRuns /\ ServiceNext
           \/ PumpToTap /\ ServiceNext
           \/ (\E b \in Block : ChainMoves(b)) /\ ServiceNext
           \/ UNCHANGED serviceVars /\ (\/ ArchiverRecv \/ ArchiverLags \/ PruneArchive
                                        \/ \E b \in Block : ChainSolidifies(b))
           \/ Restart
<1>1. RelayerRuns => ServiceNext
  BY DEF RelayerRuns, ServiceNext
<1>2. PumpToTap => ServiceNext
  BY DEF PumpToTap, ServiceNext
<1>3. (\E b \in Block : ChainMoves(b)) => ServiceNext
  BY DEF ChainMoves, ServiceNext
<1>4. ArchiverRecv \/ ArchiverLags \/ PruneArchive \/ (\E b \in Block : ChainSolidifies(b))
      => UNCHANGED serviceVars
  BY DEF ArchiverRecv, ArchiverLags, PruneArchive, ChainSolidifies
<1> QED
  BY <1>1, <1>2, <1>3, <1>4 DEF ArchiverNext

\* The service's invariant survives the archiver and the restarts.
LEMMA ServiceUnderArchiver ==
    ASSUME ServiceInv, ArchiverNext
    PROVE  ServiceInv'
<1>1. ASSUME Restart PROVE ServiceInv'
  <2>1. ServiceInit'
    BY <1>1, RestartIsInit DEF ServiceInv
  <2>2. ServiceInit' => ServiceInv'
    BY ServiceStart, PTL
  <2> QED
    BY <2>1, <2>2
<1>2. ASSUME [ServiceNext]_serviceVars PROVE ServiceInv'
  BY <1>2, ServiceStepKeeps
<1> QED
  BY <1>1, <1>2, ArchiverCases

\* Every step of the process keeps the types.
LEMMA TapStep ==
    ASSUME TapInv, ArchiverNext
    PROVE  TapInv'
<1>1. ServiceInv'
  BY ServiceUnderArchiver DEF TapInv
<1> DEFINE Tap == /\ tap.items \in Seq(Output)
                  /\ tap = [items |-> tap.items, lagged |-> tap.lagged]
           Disk == DOMAIN archive \subseteq Nat /\ life \in Nat
           Solid == /\ node_solid \in Block \cup {NoBlock}
                    /\ watch_head \in OptHeight /\ watch_head <= SolidHeight
<1>2. Tap /\ Disk /\ Solid /\ ServiceInv
  BY DEF TapInv
<1>3. ASSUME RelayerRuns PROVE Tap' /\ Disk' /\ Solid'
  <2>1. UNCHANGED archiverOnly /\ watch_head' <= SolidHeight /\ ServiceStep
    BY <1>3 DEF RelayerRuns
  <2>2. watch_head' \in OptHeight
    BY <1>2, <2>1, EngineAssumption
       DEF ServiceStep, Tick, SolidHeadOk, SolidHeadMissing, NowBlockErr, NowBlockOk, SkipBlock,
           FeedOutput, SendOutput, SendFails, DrainDone, OptHeight
  <2>3. SolidHeight' = SolidHeight
    BY <2>1 DEF archiverOnly, SolidHeight
  <2> QED
    BY <1>2, <2>1, <2>2, <2>3 DEF archiverOnly
<1>4. ASSUME PumpToTap PROVE Tap' /\ Disk' /\ Solid'
  <2>1. /\ channel # <<>> /\ channel \in Seq(Output) /\ tap' = Broadcast(tap, Head(channel))
        /\ UNCHANGED <<archive, life, node_solid, watch_head>>
    BY <1>2, <1>4 DEF PumpToTap, Recv, ServiceInv
  <2>2. Head(channel) \in Output
    BY <2>1, MoveHead
  <2>3. Tap'
    BY <1>2, <2>1, <2>2, BroadcastTyped
  <2>4. SolidHeight' = SolidHeight
    BY <2>1 DEF SolidHeight
  <2> QED
    BY <1>2, <2>1, <2>3, <2>4
<1>5. ASSUME NEW b \in Block, ChainMoves(b) PROVE Tap' /\ Disk' /\ Solid'
  <2>1. UNCHANGED archiverOnly /\ watch_head' = watch_head
    BY <1>5 DEF ChainMoves, NodeMoves
  <2>2. SolidHeight' = SolidHeight
    BY <2>1 DEF archiverOnly, SolidHeight
  <2> QED
    BY <1>2, <2>1, <2>2 DEF archiverOnly
<1>6. ASSUME ArchiverRecv PROVE Tap' /\ Disk' /\ Solid'
  <2> DEFINE o == Head(tap.items)
             t == Tail(tap.items)
  <2>1. /\ tap.items # <<>> /\ tap' = [tap EXCEPT !.items = t]
        /\ UNCHANGED <<life, node_solid, watch_head>>
        /\ \/ o.step = "Irreversible" /\ archive' = ArchivePut(archive, Ht(o.block),
                                                  [id |-> o.block.id, life |-> life])
           \/ archive' = archive
    BY <1>6 DEF ArchiverRecv, IsArchived, serviceVars, serviceOnly
  <2>2. o \in Output /\ t \in Seq(Output)
    BY <1>2, <2>1, MoveHead
  <2> HIDE DEF o, t
  <2>3. Tap'
    <3>1. tap' = [items |-> t, lagged |-> tap.lagged]
      BY <1>2, <2>1
    <3> QED
      BY <2>2, <3>1
  <2>4. DOMAIN archive' \subseteq Nat
    <3>1. o.step = "Irreversible" => Ht(o.block) \in Nat
      <4>1. o.step = "Irreversible" => o.block \in Entry
        BY <2>2 DEF Output
      <4> QED
        BY <4>1, HtType
    <3> QED
      BY <1>2, <2>1, <3>1 DEF ArchivePut
  <2>5. SolidHeight' = SolidHeight
    BY <2>1 DEF SolidHeight
  <2> QED
    BY <1>2, <2>1, <2>3, <2>4, <2>5
<1>7. ASSUME ArchiverLags PROVE Tap' /\ Disk' /\ Solid'
  <2>1. tap' = [tap EXCEPT !.lagged = FALSE] /\ UNCHANGED <<archive, life, node_solid, watch_head>>
    BY <1>7 DEF ArchiverLags, serviceVars, serviceOnly
  <2>2. tap' = [items |-> tap.items, lagged |-> FALSE]
    BY <1>2, <2>1
  <2>3. SolidHeight' = SolidHeight
    BY <2>1 DEF SolidHeight
  <2> QED
    BY <1>2, <2>1, <2>2, <2>3
<1>8. ASSUME PruneArchive PROVE Tap' /\ Disk' /\ Solid'
  <2>1. /\ archive' = ArchiveDeleteBelow(archive, RetentionFloor(watch_head))
        /\ UNCHANGED <<tap, life, node_solid, watch_head>>
    BY <1>8 DEF PruneArchive, serviceVars, serviceOnly
  <2>2. DOMAIN archive' \subseteq Nat
    BY <1>2, <2>1 DEF ArchiveDeleteBelow
  <2>3. SolidHeight' = SolidHeight
    BY <2>1 DEF SolidHeight
  <2> QED
    BY <1>2, <2>1, <2>2, <2>3
<1>9. ASSUME NEW b \in Block, ChainSolidifies(b) PROVE Tap' /\ Disk' /\ Solid'
  <2>1. /\ Height[b] > SolidHeight /\ node_solid' = b
        /\ UNCHANGED <<archive, tap, life, watch_head>>
    BY <1>9 DEF ChainSolidifies, serviceVars, serviceOnly
  <2>2. SolidHeight' = Height[b] /\ Height[b] \in Nat
    BY <2>1, ChainAssumption DEF SolidHeight
  <2>3. SolidHeight \in Int /\ watch_head \in Int
    BY <1>2, ChainAssumption DEF SolidHeight, OptHeight, None
  <2>4. watch_head' <= SolidHeight'
    BY <1>2, <2>1, <2>2, <2>3
  <2> QED
    BY <1>2, <2>1, <2>4
<1>10. ASSUME Restart PROVE Tap' /\ Disk' /\ Solid'
  <2>1. /\ tap' = FreshRing /\ life' = life + 1 /\ UNCHANGED <<archive, node_solid>>
        /\ watch_head' = None
    BY <1>10 DEF Restart
  <2>2. SolidHeight' = SolidHeight /\ SolidHeight \in Int /\ SolidHeight >= -1
    BY <1>2, <2>1, ChainAssumption DEF SolidHeight, None
  <2> QED
    BY <1>2, <2>1, <2>2 DEF FreshRing, OptHeight, None
<1> HIDE DEF Tap, Disk, Solid
<1>11. Tap' /\ Disk' /\ Solid'
  BY <1>3, <1>4, <1>5, <1>6, <1>7, <1>8, <1>9, <1>10 DEF ArchiverNext
<1> QED
  BY <1>1, <1>11 DEF TapInv, Tap, Disk, Solid

\* A new process with an empty archive is typed.
LEMMA TapStart == ArchiverInit => TapInv
<1> SUFFICES ASSUME ArchiverInit PROVE TapInv
  OBVIOUS
<1>1. ServiceInv
  BY ServiceStart DEF ArchiverInit
<1>2. /\ archive = EmptyArchive /\ tap = FreshRing /\ life = 0
      /\ node_solid = NoBlock /\ watch_head = None
  BY DEF ArchiverInit, ServiceInit
<1>3. SolidHeight = -1 /\ watch_head = -1
  BY <1>2 DEF SolidHeight, None
<1>4. DOMAIN archive = {}
  BY <1>2 DEF EmptyArchive
<1> QED
  BY <1>1, <1>2, <1>3, <1>4 DEF TapInv, FreshRing, OptHeight, None

\* Every state of the process is typed.
LEMMA TapInvariance == ArchiverSpec => []TapInv
<1>1. TapInv /\ [ArchiverNext]_archiverVars => TapInv'
  <2>1. TapInv /\ ArchiverNext => TapInv'
    BY TapStep
  <2>2. ASSUME TapInv, UNCHANGED archiverVars PROVE TapInv'
    <3>1. ServiceInv'
      BY <2>2, ServiceStepKeeps DEF archiverVars, TapInv
    <3>2. UNCHANGED <<tap, archive, life, node_solid, watch_head>>
      BY <2>2 DEF archiverVars, archiverOnly, serviceVars, serviceOnly
    <3>3. SolidHeight' = SolidHeight
      BY <3>2 DEF SolidHeight
    <3> QED
      BY <2>2, <3>1, <3>2, <3>3 DEF TapInv
  <2> QED
    BY <2>1, <2>2
<1> QED
  BY <1>1, TapStart, PTL DEF ArchiverSpec

-----------------------------------------------------------------------------
(* Retention *)

\* Only the retention task takes rows away.
LEMMA OnlyPruningDeletes ==
    ASSUME ArchiverNext, ~ PruneArchive
    PROVE  DOMAIN archive \subseteq DOMAIN archive'
<1>1. ASSUME ArchiverRecv PROVE DOMAIN archive \subseteq DOMAIN archive'
  BY <1>1 DEF ArchiverRecv, ArchivePut
<1>2. \/ RelayerRuns \/ PumpToTap \/ ArchiverLags \/ Restart
      \/ (\E b \in Block : ChainMoves(b) \/ ChainSolidifies(b))
      => archive' = archive
  BY DEF RelayerRuns, PumpToTap, ArchiverLags, Restart, ChainMoves, ChainSolidifies, archiverOnly
<1> QED
  BY <1>1, <1>2 DEF ArchiverNext

\* A step takes away only rows the chain has left more than Retention behind.
LEMMA PrunedIsOld ==
    ASSUME TapInv, ArchiverNext, NEW h \in DOMAIN archive \ DOMAIN archive'
    PROVE  h + Retention < SolidHeight
<1>1. PruneArchive
  BY OnlyPruningDeletes
<1>2. h \in Nat /\ Retention \in Nat
  BY ArchiverAssumption DEF TapInv
<1>3. watch_head \in Int /\ SolidHeight \in Int /\ watch_head <= SolidHeight
  BY ChainAssumption DEF TapInv, SolidHeight, OptHeight, None
<1>4. ~ (h >= RetentionFloor(watch_head))
  BY <1>1 DEF PruneArchive, ArchiveDeleteBelow
<1>5. RetentionFloor(watch_head) = IF watch_head < Retention THEN 0 ELSE watch_head - Retention
  BY DEF RetentionFloor
<1>6. h + Retention < watch_head
  BY <1>2, <1>3, <1>4, <1>5
<1> QED
  BY <1>2, <1>3, <1>6

\* A row disappears only when the chain has solidified a block more than Retention
\* above it, for every retention, disk behaviour and order of reports: the watch
\* holds what some report said, and no report runs ahead of the chain.
THEOREM RetentionHolds == ArchiverSpec => RetentionKeepsWindow
<1> DEFINE Kept == \A h \in DOMAIN archive \ DOMAIN archive' : h + Retention < SolidHeight
<1>1. TapInv /\ [ArchiverNext]_archiverVars => [Kept]_archiverVars
  BY PrunedIsOld
<1> QED
  BY <1>1, TapInvariance, PTL DEF ArchiverSpec, RetentionKeepsWindow

-----------------------------------------------------------------------------
(* The rows of one process *)

\* Every Irreversible of q is about a final block of v.
AllFinal(v, q) ==
    \A k \in 1 .. Len(q) : q[k].step = "Irreversible" => IsFinal(v, q[k].block)

\* The block id is final in v, at height h.
FinalAt(v, id, h) == \E i \in 1 .. v.final : v.chain[i].id = id /\ Ht(v.chain[i]) = h

\* Of all that the engine has returned since the process started, v is the outcome:
\* what is under way to the archiver, and what this process archived, is final in v.
FinalStory(v) ==
    /\ InStep(v, canonical, last_irreversible_height)
    /\ AllFinal(v, outbox) /\ AllFinal(v, channel) /\ AllFinal(v, tap.items)
    /\ \A h \in DOMAIN archive :
          archive[h].life = life => FinalAt(v, archive[h].id, h)

\* No row is of a process still to come.
RowsAreOld == \A h \in DOMAIN archive : archive[h].life \in Nat /\ archive[h].life <= life

\* The inductive invariant of the archive.  ArchiveLinked alone says nothing of the
\* outputs under way, which become rows later and in any order of gaps: they must be
\* known to lie on the one final branch the rows lie on.
LinkedInv ==
    /\ TapInv
    /\ ArchiveLinked
    /\ RowsAreOld
    /\ \E v : FinalStory(v)

\* Taking from and appending to a queue of outputs.
LEMMA QueueMoves ==
    ASSUME NEW v, NEW q \in Seq(Output), AllFinal(v, q)
    PROVE  /\ q # <<>> =>
                 /\ AllFinal(v, Tail(q))
                 /\ Head(q).step = "Irreversible" => IsFinal(v, Head(q).block)
           /\ \A o \in Output : (o.step = "Irreversible" => IsFinal(v, o.block))
                 => AllFinal(v, Append(q, o))
<1>1. Len(q) \in Nat
  OBVIOUS
<1>2. ASSUME q # <<>>
      PROVE  /\ AllFinal(v, Tail(q))
             /\ Head(q).step = "Irreversible" => IsFinal(v, Head(q).block)
  <2>1. Len(q) # 0 /\ Head(q) = q[1]
    BY <1>2, EmptySeq
  <2>2. /\ Len(Tail(q)) = Len(q) - 1 /\ 1 \in 1 .. Len(q)
        /\ \A k \in 1 .. Len(q) - 1 : Tail(q)[k] = q[k + 1] /\ k + 1 \in 1 .. Len(q)
    BY <1>1, <1>2, <2>1, HeadTailProperties
  <2> QED
    BY <2>1, <2>2 DEF AllFinal
<1>3. ASSUME NEW o \in Output, o.step = "Irreversible" => IsFinal(v, o.block)
      PROVE  AllFinal(v, Append(q, o))
  <2>1. /\ Len(Append(q, o)) = Len(q) + 1 /\ Append(q, o)[Len(q) + 1] = o
        /\ \A i \in 1 .. Len(q) : Append(q, o)[i] = q[i]
    BY AppendProperties
  <2>2. \A k \in 1 .. Len(q) + 1 : k \in 1 .. Len(q) \/ k = Len(q) + 1
    BY <1>1
  <2> QED
    BY <1>3, <2>1, <2>2 DEF AllFinal
<1> QED
  BY <1>2, <1>3

\* What was final before a call of the engine is final after it.
LEMMA StoryGrows ==
    ASSUME NEW v, NEW w, v.final \in Nat, w.final \in Nat, Extends(v, w)
    PROVE  /\ \A q : AllFinal(v, q) => AllFinal(w, q)
           /\ \A id, h : FinalAt(v, id, h) => FinalAt(w, id, h)
<1>1. \A e : IsFinal(v, e) => IsFinal(w, e)
  BY StaysFinal
<1>2. \A i \in 1 .. v.final : i \in 1 .. w.final /\ w.chain[i] = v.chain[i]
  BY DEF Extends
<1> QED
  BY <1>1, <1>2 DEF AllFinal, FinalAt

\* Final blocks at adjacent heights are parent and child.
LEMMA NeighboursLinked ==
    ASSUME NEW v, NEW c \in Seq(Entry), NEW last \in OptHeight, InStep(v, c, last),
           NEW h \in Nat, NEW x, NEW y, FinalAt(v, x, h), FinalAt(v, y, h + 1)
    PROVE  Parent[y] = x
<1> DEFINE ch == v.chain
           L == Len(ch)
<1>1. /\ ch \in Seq(Entry) /\ v.final \in Nat /\ L \in Nat
      /\ \A i \in 1 .. L : Ht(ch[i]) \in Nat
  BY InStepFacts
<1>2. v.final <= L /\ Linked(ch) /\ Contiguous(ch)
  BY DEF InStep
<1>3. PICK i \in 1 .. v.final : ch[i].id = x /\ Ht(ch[i]) = h
  BY DEF FinalAt
<1>4. PICK j \in 1 .. v.final : ch[j].id = y /\ Ht(ch[j]) = h + 1
  BY DEF FinalAt
<1>5. i \in 1 .. L /\ j \in 1 .. L /\ 1 \in 1 .. L
  BY <1>1, <1>2
<1>6. Ht(ch[i]) = Ht(ch[1]) + i - 1 /\ Ht(ch[j]) = Ht(ch[1]) + j - 1 /\ Ht(ch[1]) \in Nat
  BY <1>1, <1>2, <1>5 DEF Contiguous
<1>7. j = i + 1
  BY <1>3, <1>4, <1>5, <1>6
<1>8. i \in 1 .. L - 1 /\ i + 1 \in 2 .. L /\ (i + 1) - 1 = i
  BY <1>1, <1>5, <1>7
<1> QED
  BY <1>2, <1>3, <1>4, <1>7, <1>8 DEF Linked

\* The parts of FinalStory that are about queues and rows.
LEMMA StoryFrom ==
    ASSUME NEW w, InStep(w, canonical', last_irreversible_height'),
           AllFinal(w, outbox'), AllFinal(w, channel'), AllFinal(w, tap'.items),
           \A h \in DOMAIN archive' :
              archive'[h].life = life' => FinalAt(w, archive'[h].id, h)
    PROVE  \E v : FinalStory(v)'
  BY DEF FinalStory

\* The service goes on with the story: a call of the engine adds to its final part.
LEMMA StoryUnderService ==
    ASSUME ServiceInv, ServiceNext, NEW v, FinalStory(v), UNCHANGED archiverOnly
    PROVE  \E w : FinalStory(w)'
<1>1. /\ InStep(v, canonical, last_irreversible_height)
      /\ AllFinal(v, outbox) /\ AllFinal(v, channel) /\ AllFinal(v, tap.items)
      /\ \A h \in DOMAIN archive :
            archive[h].life = life => FinalAt(v, archive[h].id, h)
  BY DEF FinalStory
<1>2. tap' = tap /\ archive' = archive /\ life' = life
  BY DEF archiverOnly
<1>3. channel \in Seq(Output) /\ outbox \in Seq(Output) /\ ServiceInv'
  BY ServiceStepKeeps DEF ServiceInv
<1>4. CASE EngineCall
  <2>1. /\ outbox' = ret'.out /\ channel' = channel
        /\ \/ \E b \in Block : Accept(b)
           \/ \E h \in SolidHead : SetSolidifiedHead(h)
    BY <1>4 DEF EngineCall
  <2>2. PICK w : w = Replay(v, ret'.out)
    OBVIOUS
  <2>3. InStep(w, canonical', last_irreversible_height')
    BY <1>1, <2>1, <2>2, CallKeepsInStep DEF ServiceInv
  <2>4. v \in View /\ v.final <= Len(v.chain) /\ w \in View /\ w.ok
    BY <1>1, <2>3 DEF InStep
  <2>5. ret'.out \in Seq(Output)
    BY <1>3, <2>1 DEF ServiceInv
  <2>6. Extends(v, w) /\ AllFinal(w, ret'.out)
    BY <2>2, <2>4, <2>5, ReplayFinal DEF AllFinal
  <2>7. v.final \in Nat /\ w.final \in Nat
    BY <2>4 DEF View
  <2>8. /\ AllFinal(w, channel) /\ AllFinal(w, tap.items)
        /\ \A h \in DOMAIN archive :
              archive[h].life = life => FinalAt(w, archive[h].id, h)
    BY <1>1, <2>6, <2>7, StoryGrows
  <2> QED
    BY <1>2, <2>1, <2>3, <2>6, <2>8, StoryFrom
<1>5. ASSUME UNCHANGED engineVars, AllFinal(v, outbox'), AllFinal(v, channel')
      PROVE  \E w : FinalStory(w)'
  BY <1>1, <1>2, <1>5, StoryFrom DEF engineVars
<1>6. CASE UNCHANGED engineVars /\ FeedOutput
  BY <1>1, <1>5, <1>6 DEF FeedOutput
<1>7. CASE UNCHANGED engineVars /\ SendOutput
  <2>1. /\ outbox # <<>> /\ channel' = Append(channel, Head(outbox)) /\ outbox' = Tail(outbox)
    BY <1>7 DEF SendOutput, TakeFirst, ServiceInv
  <2>2. Head(outbox) \in Output
    BY <1>3, <2>1, MoveHead
  <2>3. /\ AllFinal(v, Tail(outbox))
        /\ Head(outbox).step = "Irreversible" => IsFinal(v, Head(outbox).block)
    BY <1>1, <1>3, <2>1, QueueMoves
  <2>4. AllFinal(v, Append(channel, Head(outbox)))
    BY <1>1, <1>3, <2>2, <2>3, QueueMoves
  <2> QED
    BY <1>5, <1>7, <2>1, <2>3, <2>4
<1>8. CASE UNCHANGED engineVars /\ Recv
  <2>1. channel # <<>> /\ channel' = Tail(channel) /\ outbox' = outbox
    BY <1>8 DEF Recv
  <2>2. AllFinal(v, Tail(channel))
    BY <1>1, <1>3, <2>1, QueueMoves
  <2> QED
    BY <1>1, <1>5, <1>8, <2>1, <2>2
<1>9. CASE UNCHANGED engineVars /\ CloseChannel
  <2>1. channel' = <<>> /\ outbox' = outbox
    BY <1>9 DEF CloseChannel
  <2>2. AllFinal(v, <<>>)
    BY DEF AllFinal
  <2> QED
    BY <1>1, <1>5, <1>9, <2>1, <2>2
<1>10. CASE UNCHANGED <<engineVars, outbox, fed, channel, closed, cache, seen_at>>
  BY <1>1, <1>5, <1>10
<1> QED
  BY <1>4, <1>6, <1>7, <1>8, <1>9, <1>10, ServiceCases

\* A published output is under way to the archiver.
LEMMA StoryUnderPump ==
    ASSUME TapInv, PumpToTap, NEW v, FinalStory(v)
    PROVE  \E w : FinalStory(w)'
<1>1. /\ InStep(v, canonical, last_irreversible_height)
      /\ AllFinal(v, outbox) /\ AllFinal(v, channel) /\ AllFinal(v, tap.items)
      /\ \A h \in DOMAIN archive :
            archive[h].life = life => FinalAt(v, archive[h].id, h)
  BY DEF FinalStory
<1> DEFINE o == Head(channel)
           q == tap.items
<1>2. /\ channel # <<>> /\ channel' = Tail(channel) /\ outbox' = outbox
      /\ UNCHANGED <<canonical, last_irreversible_height, archive, life>>
      /\ tap' = Broadcast(tap, o)
  BY DEF PumpToTap, Recv, engineVars
<1>3. channel \in Seq(Output) /\ q \in Seq(Output) /\ tap = [items |-> q, lagged |-> tap.lagged]
  BY DEF TapInv, ServiceInv
<1>4. o \in Output
  BY <1>2, <1>3, MoveHead
<1>5. AllFinal(v, Tail(channel)) /\ (o.step = "Irreversible" => IsFinal(v, o.block))
  BY <1>1, <1>2, <1>3, QueueMoves
<1>6. tap'.items = Append(q, o) \/ (q # <<>> /\ tap'.items = Append(Tail(q), o))
  BY <1>2, <1>3, <1>4, BroadcastTyped
<1>7. AllFinal(v, Append(q, o))
  BY <1>1, <1>3, <1>4, <1>5, QueueMoves
<1>8. ASSUME q # <<>> PROVE AllFinal(v, Append(Tail(q), o))
  <2>1. Tail(q) \in Seq(Output) /\ AllFinal(v, Tail(q))
    BY <1>1, <1>3, <1>8, QueueMoves, MoveHead
  <2> QED
    BY <1>4, <1>5, <2>1, QueueMoves
<1> QED
  BY <1>1, <1>2, <1>5, <1>6, <1>7, <1>8, StoryFrom

\* A new row lies on the branch the other rows of the process lie on.
LEMMA RowJoins ==
    ASSUME LinkedInv, ArchiverRecv
    PROVE  ArchiveLinked' /\ RowsAreOld' /\ \E w : FinalStory(w)'
<1> DEFINE o == Head(tap.items)
           t == Tail(tap.items)
<1>1. /\ TapInv /\ ArchiveLinked /\ RowsAreOld
      /\ tap.items \in Seq(Output) /\ tap = [items |-> tap.items, lagged |-> tap.lagged]
      /\ DOMAIN archive \subseteq Nat /\ life \in Nat
  BY DEF LinkedInv, TapInv
<1>2. PICK v : FinalStory(v)
  BY DEF LinkedInv
<1>3. /\ InStep(v, canonical, last_irreversible_height)
      /\ AllFinal(v, outbox) /\ AllFinal(v, channel) /\ AllFinal(v, tap.items)
      /\ \A h \in DOMAIN archive :
            archive[h].life = life => FinalAt(v, archive[h].id, h)
  BY <1>2 DEF FinalStory
<1>4. /\ tap.items # <<>> /\ tap' = [tap EXCEPT !.items = t] /\ life' = life
      /\ UNCHANGED <<canonical, last_irreversible_height, outbox, channel>>
      /\ \/ o.step = "Irreversible" /\ archive' = ArchivePut(archive, Ht(o.block),
                                                [id |-> o.block.id, life |-> life])
         \/ archive' = archive
  BY DEF ArchiverRecv, IsArchived, serviceVars, serviceOnly, engineVars
<1>5. o \in Output
  BY <1>1, <1>4, MoveHead
<1>6. AllFinal(v, t) /\ (o.step = "Irreversible" => IsFinal(v, o.block))
  BY <1>1, <1>3, <1>4, QueueMoves
<1> HIDE DEF o, t
<1>7. tap'.items = t
  BY <1>1, <1>4
<1>8. CASE archive' = archive
  <2>1. ArchiveLinked' /\ RowsAreOld'
    BY <1>1, <1>4, <1>8 DEF ArchiveLinked, RowsAreOld
  <2> QED
    BY <1>3, <1>4, <1>6, <1>7, <1>8, <2>1, StoryFrom
<1>9. CASE o.step = "Irreversible" /\ archive' = ArchivePut(archive, Ht(o.block),
                                                [id |-> o.block.id, life |-> life])
  <2> DEFINE h == Ht(o.block)
             x == o.block.id
             r == [id |-> x, life |-> life]
  <2>1. o.block \in Entry
    BY <1>5, <1>9 DEF Output
  <2>2. h \in Nat
    BY <2>1, HtType
  <2>3. FinalAt(v, x, h)
    BY <1>6, <1>9 DEF IsFinal, FinalAt
  <2>4. archive' = ArchivePut(archive, h, r) /\ r.id = x /\ r.life = life
    BY <1>9
  <2> HIDE DEF h, x, r
  <2>5. /\ DOMAIN archive' = DOMAIN archive \cup {h} /\ archive'[h] = r
        /\ \A k \in DOMAIN archive : k # h => archive'[k] = archive[k]
    BY <2>4 DEF ArchivePut
  <2>6. ASSUME NEW k \in DOMAIN archive'
        PROVE  /\ archive'[k].life \in Nat /\ archive'[k].life <= life
               /\ archive'[k].life = life => FinalAt(v, archive'[k].id, k)
    <3>1. CASE k = h
      BY <1>1, <2>3, <2>4, <2>5, <3>1
    <3>2. CASE k # h
      BY <1>1, <1>3, <2>5, <3>2 DEF RowsAreOld
    <3> QED
      BY <3>1, <3>2
  <2>7. canonical \in Seq(Entry) /\ last_irreversible_height \in OptHeight
    BY <1>1, BufferFacts DEF TapInv, ServiceInv, IInv, TypeOK
  <2>8. ASSUME NEW k \in DOMAIN archive', k + 1 \in DOMAIN archive',
               archive'[k].life = archive'[k + 1].life
        PROVE  Parent[archive'[k + 1].id] = archive'[k].id
    <3>1. k \in Nat
      BY <1>1, <2>2, <2>5
    <3>2. CASE k # h /\ k + 1 # h
      <4>1. /\ k \in DOMAIN archive /\ k + 1 \in DOMAIN archive
            /\ archive'[k] = archive[k] /\ archive'[k + 1] = archive[k + 1]
        BY <2>5, <2>8, <3>2
      <4> QED
        BY <1>1, <2>8, <4>1 DEF ArchiveLinked
    <3>3. CASE k = h \/ k + 1 = h
      <4>1. archive'[k].life = life /\ archive'[k + 1].life = life
        BY <2>4, <2>5, <2>8, <3>3
      <4>2. FinalAt(v, archive'[k].id, k) /\ FinalAt(v, archive'[k + 1].id, k + 1)
        BY <2>6, <2>8, <4>1
      <4> QED
        BY <1>3, <2>7, <3>1, <4>2, NeighboursLinked
    <3> QED
      BY <3>2, <3>3
  <2>9. ArchiveLinked' /\ RowsAreOld'
    BY <1>4, <2>6, <2>8 DEF ArchiveLinked, RowsAreOld
  <2> QED
    BY <1>3, <1>4, <1>6, <1>7, <2>6, <2>9, StoryFrom
<1> QED
  BY <1>4, <1>8, <1>9

\* Every step keeps the archive's invariant.
LEMMA LinkedStep ==
    ASSUME LinkedInv, ArchiverNext
    PROVE  LinkedInv'
<1>1. TapInv' /\ TapInv /\ ArchiveLinked /\ RowsAreOld
  BY TapStep DEF LinkedInv
<1>2. PICK v : FinalStory(v)
  BY DEF LinkedInv
<1>3. /\ InStep(v, canonical, last_irreversible_height)
      /\ AllFinal(v, outbox) /\ AllFinal(v, channel) /\ AllFinal(v, tap.items)
      /\ \A h \in DOMAIN archive :
            archive[h].life = life => FinalAt(v, archive[h].id, h)
  BY <1>2 DEF FinalStory
<1> DEFINE Rows == ArchiveLinked' /\ RowsAreOld'
           Story == \E w : FinalStory(w)'
<1>4. ASSUME UNCHANGED <<archive, life>> PROVE Rows
  BY <1>1, <1>4 DEF ArchiveLinked, RowsAreOld
<1>5. ASSUME ServiceNext, UNCHANGED archiverOnly PROVE Rows /\ Story
  BY <1>1, <1>2, <1>4, <1>5, StoryUnderService DEF archiverOnly, TapInv
<1>6. ASSUME RelayerRuns PROVE Rows /\ Story
  BY <1>5, <1>6, ArchiverCases DEF RelayerRuns, ServiceNext
<1>7. ASSUME \E b \in Block : ChainMoves(b) PROVE Rows /\ Story
  BY <1>5, <1>7 DEF ChainMoves, ServiceNext
<1>8. ASSUME PumpToTap PROVE Rows /\ Story
  BY <1>1, <1>2, <1>4, <1>8, StoryUnderPump DEF PumpToTap
<1>9. ASSUME ArchiverRecv PROVE Rows /\ Story
  BY <1>9, RowJoins
<1>10. ASSUME ArchiverLags \/ \E b \in Block : ChainSolidifies(b) PROVE Rows /\ Story
  <2>1. /\ UNCHANGED <<canonical, last_irreversible_height, outbox, channel, archive, life>>
        /\ tap'.items = tap.items
    <3>1. ASSUME ArchiverLags PROVE tap'.items = tap.items
      BY <1>1, <3>1 DEF ArchiverLags, TapInv
    <3> QED
      BY <1>10, <3>1
         DEF ArchiverLags, ChainSolidifies, serviceVars, serviceOnly, engineVars
  <2> QED
    BY <1>3, <1>4, <2>1, StoryFrom
<1>11. ASSUME PruneArchive PROVE Rows /\ Story
  <2>1. /\ UNCHANGED <<canonical, last_irreversible_height, outbox, channel, tap, life>>
        /\ DOMAIN archive' \subseteq DOMAIN archive
        /\ \A k \in DOMAIN archive' : archive'[k] = archive[k]
    BY <1>11 DEF PruneArchive, ArchiveDeleteBelow, serviceVars, serviceOnly, engineVars
  <2>2. Rows
    BY <1>1, <2>1 DEF ArchiveLinked, RowsAreOld
  <2> QED
    BY <1>3, <2>1, <2>2, StoryFrom
<1>12. ASSUME Restart PROVE Rows /\ Story
  <2>1. /\ canonical' = <<>> /\ last_irreversible_height' = None /\ outbox' = <<>>
        /\ channel' = <<>> /\ tap' = FreshRing /\ archive' = archive /\ life' = life + 1
    BY <1>12 DEF Restart
  <2>2. life \in Nat
    BY <1>1 DEF TapInv
  <2>3. \A h \in DOMAIN archive : archive[h].life \in Nat /\ archive[h].life <= life
    BY <1>1 DEF RowsAreOld
  <2>4. \A h \in DOMAIN archive : archive[h].life <= life + 1 /\ archive[h].life # life + 1
    BY <2>2, <2>3
  <2>5. Rows
    BY <1>1, <2>1, <2>3, <2>4 DEF ArchiveLinked, RowsAreOld
  <2>6. AllFinal(FreshView, <<>>) /\ tap'.items = <<>>
    BY <2>1 DEF AllFinal, FreshRing
  <2>7. \A h \in DOMAIN archive' :
            archive'[h].life = life' => FinalAt(FreshView, archive'[h].id, h)
    BY <2>1, <2>4
  <2>8. PICK w : w = FreshView
    OBVIOUS
  <2> QED
    BY <2>1, <2>5, <2>6, <2>7, <2>8, FreshInStep, StoryFrom
<1>13. Rows /\ Story
  BY <1>6, <1>7, <1>8, <1>9, <1>10, <1>11, <1>12 DEF ArchiverNext
<1> QED
  BY <1>1, <1>13 DEF LinkedInv

\* A new process satisfies it.
LEMMA LinkedStart == ArchiverInit => LinkedInv
<1> SUFFICES ASSUME ArchiverInit PROVE LinkedInv
  OBVIOUS
<1>1. TapInv
  BY TapStart
<1>2. /\ canonical = <<>> /\ last_irreversible_height = None /\ outbox = <<>>
      /\ channel = <<>> /\ tap.items = <<>> /\ DOMAIN archive = {}
  BY DEF ArchiverInit, ServiceInit, EngineInit, FreshRing, EmptyArchive
<1>3. AllFinal(FreshView, <<>>)
  BY DEF AllFinal
<1>4. FinalStory(FreshView)
  BY <1>2, <1>3, FreshInStep DEF FinalStory
<1> QED
  BY <1>1, <1>2, <1>4 DEF LinkedInv, ArchiveLinked, RowsAreOld

\* Every state satisfies it.
LEMMA LinkedInvariance == ArchiverSpec => []LinkedInv
<1>1. ArchiverInit => LinkedInv
  BY LinkedStart
<1>2. LinkedInv /\ [ArchiverNext]_archiverVars => LinkedInv'
  <2>1. LinkedInv /\ ArchiverNext => LinkedInv'
    BY LinkedStep
  <2>2. ASSUME LinkedInv, UNCHANGED archiverVars PROVE LinkedInv'
    <3>2. UNCHANGED <<canonical, last_irreversible_height, outbox, channel, tap, archive, life,
                      node_solid, watch_head>>
      BY <2>2 DEF archiverVars, archiverOnly, serviceVars, serviceOnly, engineVars
    <3>3. TapInv'
      <4>1. ServiceInv'
        BY <2>2, ServiceStepKeeps DEF archiverVars, TapInv, LinkedInv
      <4>2. SolidHeight' = SolidHeight
        BY <3>2 DEF SolidHeight
      <4> QED
        BY <2>2, <3>2, <4>1, <4>2 DEF TapInv, LinkedInv
    <3>4. \E w : FinalStory(w)'
      BY <2>2, <3>2 DEF LinkedInv, FinalStory
    <3> QED
      BY <2>2, <3>2, <3>3, <3>4 DEF LinkedInv, ArchiveLinked, RowsAreOld
  <2> QED
    BY <2>1, <2>2
<1> QED
  BY <1>1, <1>2, PTL DEF ArchiverSpec

\* The rows one process wrote at adjacent heights are parent and child, for every
\* tree, window, hub capacity, retention and schedule, through lag, failing writes,
\* pruning and restarts, although the archive never compares a row with its neighbour.
THEOREM ArchiveIsLinked == ArchiverSpec => []ArchiveLinked
  BY LinkedInvariance, PTL DEF LinkedInv

-----------------------------------------------------------------------------
(* The cache with two writers *)

\* Every block of the cache c sits at its own height, under its own id.
Placed(c) ==
    \A h \in DOMAIN c.by_height :
        /\ Height[c.by_height[h].id] = h
        /\ c.by_height[h].value.id = c.by_height[h].id

\* A fetch that is about to fill the cache has a block.
FetchOK ==
    /\ fetch = [stage |-> fetch.stage, height |-> fetch.height, block |-> fetch.block]
    /\ fetch.stage = "fill" => fetch.block \in Block

\* The inductive invariant of the shared cache.
SharedInv ==
    /\ TapInv
    /\ CacheInv
    /\ Placed(cache)
    /\ FetchOK

\* An insert at the block's height keeps every block at its height.
LEMMA InsertPlaced ==
    ASSUME NEW c, Placed(c), NEW h, NEW id, NEW e, Height[id] = h, e.id = id
    PROVE  Placed(Insert(c, h, id, e))
<1> DEFINE row == [id |-> id, value |-> e]
           put == [by_height |-> With(Without(c.by_height, Moved(c, h, id)), h, row),
                   by_id     |-> With(Without(c.by_id, Displaced(c, h, id)), id, h)]
           d == DropHeights(put, Excess(put.by_height))
<1>1. Insert(c, h, id, e) = d
  BY DEF Insert
<1>2. row.id = id /\ row.value = e
  OBVIOUS
<1> HIDE DEF row
<1>3. /\ DOMAIN put.by_height \subseteq DOMAIN c.by_height \cup {h}
      /\ put.by_height[h] = row
      /\ \A k \in DOMAIN put.by_height : k # h => put.by_height[k] = c.by_height[k]
  <2>1. /\ DOMAIN Without(c.by_height, Moved(c, h, id)) \subseteq DOMAIN c.by_height
        /\ \A k \in DOMAIN Without(c.by_height, Moved(c, h, id)) :
              Without(c.by_height, Moved(c, h, id))[k] = c.by_height[k]
    BY DEF Without
  <2> QED
    BY <2>1 DEF With
<1> HIDE DEF put
<1>4. Placed(put)
  <2> SUFFICES ASSUME NEW k \in DOMAIN put.by_height
               PROVE  /\ Height[put.by_height[k].id] = k
                      /\ put.by_height[k].value.id = put.by_height[k].id
    BY DEF Placed
  <2>1. CASE k = h
    BY <1>2, <1>3, <2>1
  <2>2. CASE k # h
    BY <1>3, <2>2 DEF Placed
  <2> QED
    BY <2>1, <2>2
<1>5. /\ DOMAIN d.by_height \subseteq DOMAIN put.by_height
      /\ \A k \in DOMAIN d.by_height : d.by_height[k] = put.by_height[k]
  BY DEF DropHeights, Without
<1> HIDE DEF d
<1> QED
  BY <1>1, <1>4, <1>5 DEF Placed

\* So does a removal.
LEMMA RemovePlaced ==
    ASSUME NEW c, Placed(c), NEW id
    PROVE  Placed(RemoveById(c, id))
<1>1. /\ DOMAIN RemoveById(c, id).by_height \subseteq DOMAIN c.by_height
      /\ \A k \in DOMAIN RemoveById(c, id).by_height :
            RemoveById(c, id).by_height[k] = c.by_height[k]
  BY DEF RemoveById, Without
<1> QED
  BY <1>1 DEF Placed

\* What the process does to the cache by itself.
LEMMA ProcessKeepsCache ==
    ASSUME ServiceInv, CacheInv, Placed(cache), ArchiverNext
    PROVE  CacheInv' /\ Placed(cache')
<1>1. CASE Restart
  <2>1. CacheInit' /\ cache' = EmptyCache
    BY <1>1, RestartIsInit DEF ServiceInv, Restart
  <2>2. CacheInit' => CacheInv'
    BY CacheStart, PTL
  <2>3. Placed(EmptyCache)
    BY DEF Placed, EmptyCache
  <2> QED
    BY <2>1, <2>2, <2>3
<1>2. ASSUME [ServiceNext]_serviceVars PROVE CacheInv' /\ Placed(cache')
  <2>1. CacheInv'
    BY <1>2, FeedIsCacheStep, CacheStep
  <2>2. ASSUME FeedOutput PROVE Placed(cache')
    <3> DEFINE o == Head(outbox)
    <3>1. outbox # <<>> /\ cache' = FeedCache(cache, o) /\ outbox \in Seq(Output)
      BY <2>2 DEF FeedOutput, ServiceInv
    <3>2. o \in Output
      BY <3>1, MoveHead
    <3> HIDE DEF o
    <3>3. CASE o.step = "New"
      <4>1. cache' = Insert(cache, Height[o.block.id], o.block.id, o.block)
        BY <3>1, <3>3 DEF FeedCache, Ht
      <4> QED
        BY <4>1, InsertPlaced
    <3>4. CASE o.step = "Undo"
      BY <3>1, <3>4, RemovePlaced DEF FeedCache
    <3>5. CASE o.step \notin {"New", "Undo"}
      BY <3>1, <3>5 DEF FeedCache
    <3> QED
      BY <3>3, <3>4, <3>5
  <2>3. ASSUME ~ FeedOutput PROVE cache' = cache
    <3>1. CASE UNCHANGED serviceVars
      BY <3>1 DEF serviceVars, serviceOnly
    <3>2. CASE ServiceNext
      BY <2>3, <3>2, ServiceCases DEF EngineCall, SendOutput, Recv, CloseChannel
    <3> QED
      BY <1>2, <3>1, <3>2
  <2> QED
    BY <2>1, <2>2, <2>3
<1> QED
  BY <1>1, <1>2, ArchiverCases

\* A fill of the fetch service keeps the cache.
LEMMA FillKeepsCache ==
    ASSUME CacheInv, Placed(cache), FetchOK, FillCache
    PROVE  CacheInv' /\ Placed(cache')
<1> DEFINE b == fetch.block
           e == [id |-> b, fork_id |-> 0]
<1>1. b \in Block /\ cache' = Insert(cache, Height[b], b, e)
  BY DEF FillCache, Filled, FetchOK
<1>2. e \in Entry /\ e.id = b
  BY <1>1, EngineAssumption DEF Entry
<1> HIDE DEF e, b
<1>3. b \in CacheId /\ e \in CacheValue /\ Height[b] \in CacheHeight
  BY <1>1, <1>2, ServiceAssumption
<1>4. CacheNext
  BY <1>1, <1>3 DEF CacheNext
<1> QED
  BY <1>1, <1>2, <1>4, CacheStep, InsertPlaced

\* Every step keeps the invariant of the shared cache.
LEMMA SharedStep ==
    ASSUME SharedInv, [FetchNext]_fetchVars
    PROVE  SharedInv'
<1>1. TapInv /\ CacheInv /\ Placed(cache) /\ FetchOK
  BY DEF SharedInv
<1> DEFINE Core == TapInv /\ CacheInv /\ Placed(cache)
<1>2. ASSUME ArchiverNext PROVE Core'
  BY <1>1, <1>2, TapStep, ProcessKeepsCache DEF TapInv
<1>3. ASSUME ServiceInv', UNCHANGED <<tap, archive, life, node_solid, watch_head>>
      PROVE  TapInv'
  <2>1. SolidHeight' = SolidHeight
    BY <1>3 DEF SolidHeight
  <2> QED
    BY <1>1, <1>3, <2>1 DEF TapInv
<1>4. ASSUME UNCHANGED archiverVars PROVE Core'
  <2>1. ServiceInv'
    BY <1>1, <1>4, ServiceStepKeeps DEF archiverVars, TapInv
  <2>2. UNCHANGED <<tap, archive, life, node_solid, watch_head, cache>>
    BY <1>4 DEF archiverVars, archiverOnly, serviceVars, serviceOnly
  <2>3. CacheInv'
    BY <1>1, <2>2, CacheStep
  <2> QED
    BY <1>1, <1>3, <2>1, <2>2, <2>3
<1>5. ASSUME FillCache PROVE Core'
  <2>1. UNCHANGED <<engineVars, phase, outbox, fed, channel, closed, node_head>>
    BY <1>5 DEF FillCache
  <2>2. IInv'
    BY <1>1, <2>1, StepPreserves DEF TapInv, ServiceInv
  <2>3. ServiceInv'
    BY <1>1, <2>1, <2>2 DEF TapInv, ServiceInv
  <2>4. UNCHANGED <<tap, archive, life, node_solid, watch_head>>
    BY <1>5 DEF FillCache, archiverOnly
  <2> QED
    BY <1>1, <1>3, <1>5, <2>3, <2>4, FillKeepsCache
<1>6. Core'
  BY <1>2, <1>4, <1>5
     DEF FetchNext, fetchVars, FetchBlock, ProbeHit, ProbeMiss, UpstreamOk, FetchFails
<1>7. NoFetch = [stage |-> "off", height |-> 0, block |-> NoBlock]
  BY DEF NoFetch
<1>8. ASSUME fetch' = fetch \/ fetch' = NoFetch PROVE FetchOK'
  BY <1>1, <1>7, <1>8 DEF FetchOK
<1>9. ASSUME NEW h \in FetchHeight, FetchBlock(h) PROVE FetchOK'
  <2>1. fetch' = [NoFetch EXCEPT !.stage = "probe", !.height = h]
    BY <1>9 DEF FetchBlock
  <2> QED
    BY <1>7, <2>1 DEF FetchOK
<1>10. ASSUME ProbeMiss PROVE FetchOK'
  BY <1>1, <1>10 DEF ProbeMiss, FetchOK
<1>11. ASSUME NEW b \in Block, UpstreamOk(b) PROVE FetchOK'
  BY <1>1, <1>11 DEF UpstreamOk, FetchOK
<1>12. FetchOK'
  BY <1>8, <1>9, <1>10, <1>11 DEF FetchNext, fetchVars, ProbeHit, FetchFails, FillCache
<1> QED
  BY <1>6, <1>12 DEF SharedInv

\* The invariant of the shared cache holds initially.
LEMMA SharedStart == FetchInit => SharedInv
<1> SUFFICES ASSUME FetchInit PROVE SharedInv
  OBVIOUS
<1>1. TapInv
  BY TapStart DEF FetchInit
<1>2. CacheInit
  BY DEF FetchInit, ArchiverInit, ServiceInit
<1>3. Placed(cache)
  BY <1>2 DEF CacheInit, Placed, EmptyCache
<1>4. FetchOK
  BY DEF FetchInit, NoFetch, FetchOK
<1> QED
  BY <1>1, <1>2, <1>3, <1>4, CacheStart DEF SharedInv

-----------------------------------------------------------------------------
(* Heights in their order *)

\* The members of S below h.
Below(S, h) == {k \in S : k < h}

\* What is below a member, and below it with the member itself.
LEMMA BelowSpec ==
    ASSUME NEW S, S \subseteq Nat, IsFiniteSet(S), NEW h \in S
    PROVE  /\ IsFiniteSet(Below(S, h)) /\ Cardinality(Below(S, h)) \in Nat
           /\ Cardinality(Below(S, h)) < Cardinality(S)
           /\ \A g \in S : h < g => Cardinality(Below(S, h)) < Cardinality(Below(S, g))
<1> DEFINE B == Below(S, h)
           C == B \cup {h}
<1>1. B \subseteq S /\ h \notin B /\ C \subseteq S
  BY DEF Below
<1>2. ASSUME NEW g \in S, h < g PROVE C \subseteq Below(S, g)
  <2>1. ASSUME NEW k \in C PROVE k \in S /\ k < g
    <3>1. k \in S /\ (k < h \/ k = h)
      BY DEF Below
    <3>2. k \in Nat /\ g \in Nat /\ h \in Nat
      BY <3>1
    <3> QED
      BY <1>2, <3>1, <3>2
  <2> HIDE DEF C
  <2> QED
    BY <2>1 DEF Below
<1>3. \A g \in S : Below(S, g) \subseteq S
  BY DEF Below
<1> HIDE DEF B
<1>4. IsFiniteSet(B) /\ Cardinality(B) \in Nat
  <2>1. IsFiniteSet(B)
    BY <1>1, FS_Subset
  <2> QED
    BY <2>1, FS_CardinalityType
<1>5. IsFiniteSet(C) /\ Cardinality(C) = Cardinality(B) + 1
  BY <1>1, <1>4, FS_AddElement
<1> HIDE DEF C
<1>6. Cardinality(C) <= Cardinality(S) /\ Cardinality(S) \in Nat
  BY <1>1, FS_Subset, FS_CardinalityType
<1>7. ASSUME NEW g \in S, h < g PROVE Cardinality(B) < Cardinality(Below(S, g))
  <2>1. IsFiniteSet(Below(S, g))
    BY <1>3, FS_Subset
  <2>2. Cardinality(C) <= Cardinality(Below(S, g)) /\ Cardinality(Below(S, g)) \in Nat
    BY <1>2, <1>7, <2>1, FS_Subset, FS_CardinalityType
  <2> QED
    BY <1>4, <1>5, <2>2
<1>8. Cardinality(B) < Cardinality(S)
  BY <1>4, <1>5, <1>6
<1> QED
  BY <1>4, <1>7, <1>8 DEF B

\* There is a member with every number of members below it.
LEMMA RankExists ==
    ASSUME NEW S, S \subseteq Nat, IsFiniteSet(S), NEW r \in Nat, r < Cardinality(S)
    PROVE  \E h \in S : Cardinality(Below(S, h)) = r
<1> DEFINE n == Cardinality(S)
           T == {m \in Nat : m < n => \E h \in S : Cardinality(Below(S, h)) = m}
<1>1. n \in Nat
  BY FS_CardinalityType
<1> HIDE DEF n
<1>2. 0 \in T
  <2> SUFFICES ASSUME 0 < n PROVE \E h \in S : Cardinality(Below(S, h)) = 0
    OBVIOUS
  <2>1. S # {}
    BY FS_EmptySet DEF n
  <2>2. PICK x \in S : \A y \in S : x <= y
    BY <2>1, LeastNat
  <2>3. Below(S, x) = {}
    <3>1. \A y \in S : y \in Nat /\ x \in Nat
      OBVIOUS
    <3>2. \A y \in S : ~ (y < x)
      BY <2>2, <3>1
    <3> QED
      BY <3>2 DEF Below
  <2> QED
    BY <2>3, FS_EmptySet
<1>3. ASSUME NEW m \in Nat, m \in T PROVE m + 1 \in T
  <2> SUFFICES ASSUME m + 1 < n PROVE \E h \in S : Cardinality(Below(S, h)) = m + 1
    OBVIOUS
  <2>1. PICK h \in S : Cardinality(Below(S, h)) = m
    BY <1>1, <1>3
  <2> DEFINE U == {k \in S : k > h}
             C == Below(S, h) \cup {h}
  <2>2. /\ h \notin Below(S, h) /\ S = C \cup U /\ h \in Nat
        /\ \A k \in S : k \in C <=> ~ (k > h)
    <3>1. h \in Nat /\ \A k \in S : k \in Nat
      OBVIOUS
    <3>2. \A k \in S : k < h \/ k = h \/ k > h
      BY <3>1
    <3>3. \A k \in S : k > h => ~ (k < h) /\ k # h
      BY <3>1
    <3>4. ~ (h < h)
      BY <3>1
    <3>5. \A k \in S : k \in C <=> k < h \/ k = h
      BY DEF Below
    <3>6. C \subseteq S /\ U \subseteq S
      BY DEF Below
    <3>7. \A k \in S : k \in C \/ k \in U
      BY <3>2, <3>5
    <3>8. S = C \cup U
      BY <3>6, <3>7
    <3>9. h \notin Below(S, h)
      BY <3>4 DEF Below
    <3>10. \A k \in S : k \in C <=> ~ (k > h)
      BY <3>2, <3>3, <3>5
    <3> QED
      BY <3>1, <3>8, <3>9, <3>10
  <2>3. IsFiniteSet(Below(S, h))
    BY BelowSpec
  <2>4. Cardinality(C) = m + 1
    BY <2>1, <2>2, <2>3, FS_AddElement
  <2>5. U # {}
    <3> SUFFICES ASSUME U = {} PROVE FALSE
      OBVIOUS
    <3>1. S = C
      BY <2>2
    <3> QED
      BY <1>1, <2>4, <3>1 DEF n
  <2>6. PICK x \in U : \A y \in U : x <= y
    BY <2>5, LeastNat
  <2>7. Below(S, x) = C
    <3>1. \A k \in S : k \in Nat /\ x \in Nat /\ h \in Nat
      OBVIOUS
    <3>2. \A k \in S : k > h => x <= k
      BY <2>6
    <3>3. x > h
      BY <2>6
    <3>4. \A k \in S : k < x <=> ~ (k > h)
      BY <3>1, <3>2, <3>3
    <3>5. C \subseteq S
      BY <2>2
    <3> HIDE DEF C, U
    <3> QED
      BY <2>2, <3>4, <3>5 DEF Below
  <2> QED
    BY <2>4, <2>6, <2>7
<1> HIDE DEF T
<1>4. r \in T
  BY <1>2, <1>3, SetInduction
<1> QED
  BY <1>4 DEF T, n

\* Nth counts a set of heights from below.
LEMMA NthSpec ==
    ASSUME NEW S, S \subseteq Nat, IsFiniteSet(S)
    PROVE  /\ Cardinality(S) \in Nat
           /\ \A i \in 1 .. Cardinality(S) :
                 Nth(S, i) \in S /\ Cardinality(Below(S, Nth(S, i))) = i - 1
           /\ \A i, j \in 1 .. Cardinality(S) : i < j => Nth(S, i) < Nth(S, j)
           /\ \A i \in 1 .. Cardinality(S), h \in S :
                 Cardinality(Below(S, h)) = i - 1 => Nth(S, i) = h
           /\ \A h \in S : \E i \in 1 .. Cardinality(S) : Nth(S, i) = h
<1> DEFINE n == Cardinality(S)
           card(h) == Cardinality(Below(S, h))
<1>1. n \in Nat
  BY FS_CardinalityType
<1>2. \A h \in S : card(h) \in Nat /\ card(h) < n
  BY BelowSpec
<1>3. \A g, h \in S : h < g => card(h) < card(g)
  BY BelowSpec
<1>4. ASSUME NEW i \in 1 .. n PROVE Nth(S, i) \in S /\ card(Nth(S, i)) = i - 1
  <2>1. i - 1 \in Nat /\ i - 1 < n
    BY <1>1
  <2>2. \E h \in S : Cardinality(Below(S, h)) = i - 1
    BY <2>1, RankExists
  <2>3. \E h \in S : Cardinality({k \in S : k < h}) = i - 1
    BY <2>2 DEF Below
  <2>4. Nth(S, i) \in S /\ Cardinality({k \in S : k < Nth(S, i)}) = i - 1
    BY <2>3 DEF Nth
  <2> QED
    BY <2>4 DEF Below
<1> HIDE DEF n, card
<1>5. \A g, h \in S : card(g) = card(h) => g = h
  <2> SUFFICES ASSUME NEW g \in S, NEW h \in S, card(g) = card(h) PROVE g = h
    OBVIOUS
  <2>1. g \in Nat /\ h \in Nat
    OBVIOUS
  <2>2. ~ (g < h) /\ ~ (h < g)
    BY <1>2, <1>3
  <2> QED
    BY <2>1, <2>2
<1>6. ASSUME NEW i \in 1 .. n, NEW j \in 1 .. n, i < j PROVE Nth(S, i) < Nth(S, j)
  <2> DEFINE g == Nth(S, i)
             h == Nth(S, j)
  <2>1. g \in S /\ h \in S /\ card(g) = i - 1 /\ card(h) = j - 1
    BY <1>4
  <2> HIDE DEF g, h
  <2>2. g \in Nat /\ h \in Nat
    BY <2>1
  <2>3. ~ (h < g) /\ h # g
    BY <1>1, <1>3, <1>6, <2>1
  <2>4. g < h
    BY <2>2, <2>3
  <2> QED
    BY <2>4 DEF g, h
<1>7. ASSUME NEW i \in 1 .. n, NEW h \in S, card(h) = i - 1 PROVE Nth(S, i) = h
  BY <1>4, <1>5, <1>7
<1>8. ASSUME NEW h \in S PROVE \E i \in 1 .. n : Nth(S, i) = h
  <2>1. card(h) + 1 \in 1 .. n /\ (card(h) + 1) - 1 = card(h)
    BY <1>1, <1>2
  <2> QED
    BY <1>7, <2>1
<1> QED
  BY <1>1, <1>4, <1>6, <1>7, <1>8 DEF n, card

\* Least and Greatest are what they say.
LEMMA LeastGreatest ==
    ASSUME NEW S, S \subseteq Nat, IsFiniteSet(S), S # {}
    PROVE  /\ Least(S) \in S /\ \A k \in S : Least(S) <= k
           /\ Greatest(S) \in S /\ \A k \in S : k <= Greatest(S)
<1> DEFINE n == Cardinality(S)
<1>1. n \in Nat /\ n # 0
  BY FS_CardinalityType, FS_EmptySet
<1>2. 1 \in 1 .. n /\ n \in 1 .. n
  BY <1>1
<1>3. /\ Nth(S, 1) \in S /\ Nth(S, n) \in S
      /\ \A i, j \in 1 .. n : i < j => Nth(S, i) < Nth(S, j)
      /\ \A h \in S : \E i \in 1 .. n : Nth(S, i) = h
  BY <1>2, NthSpec
<1>4. ASSUME NEW k \in S PROVE Nth(S, 1) <= k /\ k <= Nth(S, n)
  <2>1. PICK i \in 1 .. n : Nth(S, i) = k
    BY <1>3
  <2>2. k \in Nat /\ Nth(S, 1) \in Nat /\ Nth(S, n) \in Nat
    BY <1>3
  <2>3. i = 1 \/ 1 < i
    BY <1>1
  <2>4. i = n \/ i < n
    BY <1>1
  <2> HIDE DEF n
  <2>5. Nth(S, 1) <= k
    BY <1>2, <1>3, <2>1, <2>2, <2>3
  <2>6. k <= Nth(S, n)
    BY <1>2, <1>3, <2>1, <2>2, <2>4
  <2> QED
    BY <2>5, <2>6
<1> QED
  BY <1>3, <1>4 DEF Least, Greatest

\* An interval, counted from below.
LEMMA IntervalNth ==
    ASSUME NEW lo \in Nat, NEW hi \in Int, lo <= hi + 1
    PROVE  /\ IsFiniteSet(lo .. hi) /\ lo .. hi \subseteq Nat
           /\ Cardinality(lo .. hi) = hi - lo + 1
           /\ \A i \in 1 .. hi - lo + 1 : Nth(lo .. hi, i) = lo + i - 1
<1>1. IsFiniteSet(lo .. hi) /\ Cardinality(lo .. hi) = IF lo > hi THEN 0 ELSE hi - lo + 1
  BY FS_Interval
<1>2. Cardinality(lo .. hi) = hi - lo + 1 /\ lo .. hi \subseteq Nat
  BY <1>1
<1>3. ASSUME NEW i \in 1 .. hi - lo + 1 PROVE Nth(lo .. hi, i) = lo + i - 1
  <2> DEFINE h == lo + i - 1
             S == lo .. hi
  <2>1. h \in S /\ lo \in Int /\ h - 1 \in Int /\ lo <= h
    OBVIOUS
  <2>2. Below(S, h) = lo .. h - 1
    BY <2>1 DEF Below
  <2>3. Cardinality(lo .. h - 1) = IF lo > h - 1 THEN 0 ELSE (h - 1) - lo + 1
    BY <2>1, FS_Interval
  <2>4. (h - 1) - lo + 1 = i - 1 /\ (lo > h - 1 => i - 1 = 0)
    OBVIOUS
  <2>5. Cardinality(Below(S, h)) = i - 1
    BY <2>2, <2>3, <2>4
  <2>6. i \in 1 .. Cardinality(S)
    BY <1>2
  <2> HIDE DEF S, h
  <2>7. S \subseteq Nat /\ IsFiniteSet(S)
    BY <1>1, <1>2 DEF S
  <2>8. Nth(S, i) = h
    BY <2>1, <2>5, <2>6, <2>7, NthSpec
  <2> QED
    BY <2>8 DEF S, h
<1> QED
  BY <1>1, <1>2, <1>3

-----------------------------------------------------------------------------
(* What a backfill reads *)

\* A row of the archive or of a backfill.
Row == [id : CacheId, life : Nat]

\* Heights rise from row to row.
RowsRise(r) == \A i \in 1 .. Len(r) - 1 : RowHeight(r[i]) < RowHeight(r[i + 1])

\* Every archived block sits at its own height.
Keyed ==
    /\ DOMAIN archive \subseteq Nat /\ IsFiniteSet(DOMAIN archive)
    /\ \A h \in DOMAIN archive : archive[h] \in Row /\ RowHeight(archive[h]) = h

\* archive_walk reads rows of the archive between the two heights, lowest first.
LEMMA RangeSpec ==
    ASSUME Keyed, NEW lo \in Nat, NEW hi \in Int, NEW limit \in Nat
    PROVE  LET r == ArchiveRange(archive, lo, hi, limit)
           IN  /\ r \in Seq(Row) /\ RowsRise(r)
               /\ \A i \in 1 .. Len(r) :
                     \E h \in DOMAIN archive : /\ lo <= h /\ h <= hi /\ h \in Nat
                                               /\ r[i] = archive[h] /\ RowHeight(r[i]) = h
<1> DEFINE S == {h \in DOMAIN archive : lo <= h /\ h <= hi}
           n == IF Cardinality(S) < limit THEN Cardinality(S) ELSE limit
           r == ArchiveRange(archive, lo, hi, limit)
<1>1. r = [i \in 1 .. n |-> archive[Nth(S, i)]]
  BY DEF ArchiveRange
<1>2. S \subseteq Nat /\ S \subseteq DOMAIN archive /\ \A h \in S : lo <= h /\ h <= hi
  BY DEF Keyed
<1> HIDE DEF S, r
<1>3. IsFiniteSet(S)
  BY <1>2, FS_Subset DEF Keyed
<1>4. /\ Cardinality(S) \in Nat
      /\ \A i \in 1 .. Cardinality(S) : Nth(S, i) \in S
      /\ \A i, j \in 1 .. Cardinality(S) : i < j => Nth(S, i) < Nth(S, j)
  BY <1>2, <1>3, NthSpec
<1>5. n \in Nat /\ 1 .. n \subseteq 1 .. Cardinality(S)
  BY <1>4
<1> HIDE DEF n
<1>6. ASSUME NEW i \in 1 .. n
      PROVE  /\ Nth(S, i) \in S /\ Nth(S, i) \in DOMAIN archive /\ r[i] = archive[Nth(S, i)]
             /\ lo <= Nth(S, i) /\ Nth(S, i) <= hi /\ Nth(S, i) \in Nat
             /\ r[i] \in Row /\ RowHeight(r[i]) = Nth(S, i)
  <2>1. Nth(S, i) \in S
    BY <1>4, <1>5
  <2>2. r[i] = archive[Nth(S, i)]
    BY <1>1
  <2> QED
    BY <1>2, <2>1, <2>2 DEF Keyed
<1>7. r \in [1 .. n -> Row]
  BY <1>1, <1>6
<1>8. r \in Seq(Row) /\ Len(r) = n
  BY <1>5, <1>7, FunctionIsSeq
<1>9. RowsRise(r)
  <2> SUFFICES ASSUME NEW i \in 1 .. n - 1 PROVE RowHeight(r[i]) < RowHeight(r[i + 1])
    BY <1>8 DEF RowsRise
  <2>1. i \in 1 .. n /\ i + 1 \in 1 .. n /\ i < i + 1
    BY <1>5
  <2> QED
    BY <1>4, <1>5, <1>6, <2>1
<1> QED
  BY <1>6, <1>8, <1>9 DEF r

\* ArchiveTop is a height, or -1.
LEMMA TopSpec ==
    ASSUME Keyed, window \subseteq Nat, IsFiniteSet(window)
    PROVE  /\ ArchiveTop \in Int
           /\ window # {} => ArchiveTop = Least(window) - 1
<1>1. CASE window = {}
  <2>1. CASE DOMAIN archive = {}
    BY <1>1, <2>1 DEF ArchiveTop, ArchiveMaxHeight
  <2>2. CASE DOMAIN archive # {}
    <3> DEFINE S == DOMAIN archive
    <3>1. Greatest(S) \in S /\ S \subseteq Nat
      BY <2>2, LeastGreatest DEF Keyed
    <3> QED
      BY <1>1, <2>2, <3>1 DEF ArchiveTop, ArchiveMaxHeight, Greatest
  <2> QED
    BY <1>1, <2>1, <2>2
<1>2. CASE window # {}
  <2>1. Least(window) \in Nat
    BY <1>2, LeastGreatest
  <2>2. ArchiveTop = Least(window) - 1
    BY <1>2 DEF ArchiveTop
  <2> QED
    BY <2>1, <2>2
<1> QED
  BY <1>1, <1>2

\* The archiver keeps every row at its block's height.
LEMMA KeyedStep ==
    ASSUME TapInv, Keyed, ArchiverNext
    PROVE  Keyed'
<1>1. ASSUME UNCHANGED archive PROVE Keyed'
  BY <1>1 DEF Keyed, RowHeight
<1>2. ASSUME PruneArchive PROVE Keyed'
  <2>1. /\ DOMAIN archive' \subseteq DOMAIN archive
        /\ \A k \in DOMAIN archive' : archive'[k] = archive[k]
    BY <1>2 DEF PruneArchive, ArchiveDeleteBelow
  <2>2. IsFiniteSet(DOMAIN archive')
    BY <2>1, FS_Subset DEF Keyed
  <2> QED
    BY <2>1, <2>2 DEF Keyed, RowHeight
<1>3. ASSUME ArchiverRecv, archive' # archive PROVE Keyed'
  <2> DEFINE o == Head(tap.items)
             h == Ht(o.block)
             row == [id |-> o.block.id, life |-> life]
  <2>1. /\ tap.items # <<>> /\ o.step = "Irreversible"
        /\ archive' = ArchivePut(archive, h, row)
    BY <1>3 DEF ArchiverRecv, IsArchived
  <2>2. o \in Output
    BY <2>1, MoveHead DEF TapInv
  <2>3. o.block \in Entry
    BY <2>1, <2>2 DEF Output
  <2>4. h \in Nat /\ o.block.id \in CacheId /\ life \in Nat
    BY <2>3, HtType, ServiceAssumption DEF TapInv, Entry
  <2>5. row \in Row /\ RowHeight(row) = h
    BY <2>4 DEF Row, RowHeight, Ht
  <2> HIDE DEF o, h, row
  <2>6. /\ DOMAIN archive' = DOMAIN archive \cup {h} /\ archive'[h] = row
        /\ \A k \in DOMAIN archive : k # h => archive'[k] = archive[k]
    BY <2>1 DEF ArchivePut
  <2>7. IsFiniteSet(DOMAIN archive \cup {h})
    BY FS_AddElement DEF Keyed
  <2>8. ASSUME NEW k \in DOMAIN archive' PROVE archive'[k] \in Row /\ RowHeight(archive'[k]) = k
    <3>1. CASE k = h
      BY <2>5, <2>6, <3>1
    <3>2. CASE k # h
      BY <2>6, <3>2 DEF Keyed
    <3> QED
      BY <3>1, <3>2
  <2> QED
    BY <2>4, <2>6, <2>7, <2>8 DEF Keyed, RowHeight
<1>4. ASSUME RelayerRuns \/ PumpToTap \/ ArchiverLags \/ Restart
             \/ \E b \in Block : ChainMoves(b) \/ ChainSolidifies(b)
      PROVE  UNCHANGED archive
  BY <1>4 DEF RelayerRuns, PumpToTap, ArchiverLags, Restart, ChainMoves, ChainSolidifies,
              archiverOnly
<1> QED
  BY <1>1, <1>2, <1>3, <1>4 DEF ArchiverNext

\* The window of a backfill is an interval of heights.
IsWindow == window = {} \/ \E lo, hi \in Nat : lo <= hi /\ window = lo .. hi

\* Its ends.
LEMMA WindowSpec ==
    ASSUME IsWindow
    PROVE  /\ window \subseteq Nat /\ IsFiniteSet(window)
           /\ window # {} => /\ Least(window) \in Nat /\ Greatest(window) \in Nat
                             /\ Least(window) <= Greatest(window)
                             /\ window = Least(window) .. Greatest(window)
<1>1. CASE window = {}
  BY <1>1, FS_EmptySet
<1>2. ASSUME NEW lo \in Nat, NEW hi \in Nat, lo <= hi, window = lo .. hi
      PROVE  /\ window \subseteq Nat /\ IsFiniteSet(window)
             /\ Least(window) = lo /\ Greatest(window) = hi
  <2>1. window \subseteq Nat /\ IsFiniteSet(window) /\ lo \in window /\ hi \in window
    BY <1>2, FS_Interval
  <2>2. /\ Least(window) \in window /\ Least(window) <= lo
        /\ Greatest(window) \in window /\ hi <= Greatest(window)
    BY <2>1, LeastGreatest
  <2> QED
    BY <1>2, <2>1, <2>2
<1> QED
  BY <1>1, <1>2 DEF IsWindow

-----------------------------------------------------------------------------
(* A backfill over a cache with two writers *)

\* The body of BackfillGapless, for rows q over the window W from height s on.
Gapless(q, W, s) ==
    /\ \A i \in 1 .. Len(q) - 1 :
          IF RowHeight(q[i + 1]) \in W /\ RowHeight(q[i]) \in W
          THEN RowHeight(q[i + 1]) = RowHeight(q[i]) + 1
          ELSE RowHeight(q[i + 1]) > RowHeight(q[i])
    /\ {h \in W : h >= s} \subseteq {RowHeight(q[i]) : i \in DOMAIN q}
    /\ W # {} /\ q # <<>> => RowHeight(q[Len(q)]) = Greatest(W)

\* Rows r as archive_walk leaves them: rising, and below the window.
BelowWindow(r) ==
    /\ r \in Seq(Row) /\ RowsRise(r)
    /\ \A i \in 1 .. Len(r) :
          /\ RowHeight(r[i]) \in Nat
          /\ window # {} => RowHeight(r[i]) < Least(window)

\* The inductive invariant: what each of the three reads leaves for the next one.
GapInv ==
    /\ SharedInv
    /\ Keyed
    /\ IsWindow /\ from \in Nat
    /\ stage = "archived" => BelowWindow(rows)
    /\ BackfillGapless

\* Where the heights from f to the top of the window stand behind m rows.
LEMMA WalkPlaces ==
    ASSUME NEW m \in Nat, NEW n \in Nat, NEW lo \in Nat, NEW hi \in Nat, NEW f \in Nat,
           lo <= f, f <= hi + 1, n = hi - f + 1
    PROVE  /\ \A k \in m + 1 .. m + n : f + (k - m) - 1 \in lo .. hi
           /\ \A h \in lo .. hi :
                 h >= f => LET i == m + (h - f) + 1
                           IN  i \in m + 1 .. m + n /\ f + (i - m) - 1 = h
           /\ n # 0 => m + n \in m + 1 .. m + n
           /\ f + ((m + n) - m) - 1 = hi
OBVIOUS

\* Rows r below the window lo .. hi, and rows w at every height from f, where r ends, to
\* the top of the window.
Joins(r, w, lo, hi, f, s) ==
    /\ r \in Seq(Row) /\ RowsRise(r)
    /\ \A i \in 1 .. Len(r) : RowHeight(r[i]) \in Nat /\ RowHeight(r[i]) < lo
    /\ f = IF r = <<>> THEN s ELSE RowHeight(r[Len(r)]) + 1
    /\ w \in Seq(Row) /\ Len(w) = hi - f + 1
    /\ \A i \in 1 .. Len(w) : RowHeight(w[i]) = f + i - 1

\* Such rows, one behind the other, have no hole.
LEMMA JoinGapless ==
    ASSUME NEW lo \in Nat, NEW hi \in Nat, lo <= hi, NEW f \in Nat, lo <= f, f <= hi + 1,
           NEW s \in Nat, Greatest(lo .. hi) = hi, NEW r, NEW w, Joins(r, w, lo, hi, f, s)
    PROVE  Gapless(r \o w, lo .. hi, s)
<1>0. PICK m \in Nat, n \in Nat : m = Len(r) /\ n = Len(w)
  BY DEF Joins
<1> DEFINE q == r \o w
<1>1. /\ m \in Nat /\ n \in Nat /\ Len(q) = m + n /\ q \in Seq(Row)
      /\ \A k \in 1 .. m + n : q[k] = IF k <= m THEN r[k] ELSE w[k - m]
  <2>1. r \in Seq(Row) /\ w \in Seq(Row)
    BY DEF Joins
  <2>2. /\ Len(r \o w) = Len(r) + Len(w) /\ r \o w \in Seq(Row)
        /\ \A k \in 1 .. Len(r) + Len(w) :
              (r \o w)[k] = IF k <= Len(r) THEN r[k] ELSE w[k - Len(r)]
    BY <2>1, ConcatProperties
  <2> QED
    BY <1>0, <2>2
<1>a. /\ \A i \in 1 .. m : RowHeight(r[i]) \in Nat /\ RowHeight(r[i]) < lo
      /\ n = hi - f + 1 /\ \A i \in 1 .. n : RowHeight(w[i]) = f + i - 1
      /\ f = IF r = <<>> THEN s ELSE RowHeight(r[m]) + 1
      /\ \A i \in 1 .. m - 1 : RowHeight(r[i]) < RowHeight(r[i + 1])
      /\ m = 0 => r = <<>>
      /\ r = <<>> => m = 0
  BY <1>0, EmptySeq DEF Joins, RowsRise
<1> HIDE DEF q
<1>b. m \in Nat /\ n \in Nat /\ n = hi - f + 1
  BY <1>1, <1>a
<1>c. \A k \in m + 1 .. m + n : f + (k - m) - 1 \in lo .. hi
  BY <1>b, WalkPlaces
<1>d. \A h \in lo .. hi :
          h >= f => LET i == m + (h - f) + 1
                    IN  i \in m + 1 .. m + n /\ f + (i - m) - 1 = h
  BY <1>b, WalkPlaces
<1>2. \A k \in 1 .. m : q[k] = r[k] /\ RowHeight(q[k]) \in Nat /\ RowHeight(q[k]) < lo
  <2> SUFFICES ASSUME NEW k \in 1 .. m
               PROVE  q[k] = r[k] /\ RowHeight(q[k]) \in Nat /\ RowHeight(q[k]) < lo
    OBVIOUS
  <2>1. k \in 1 .. m + n /\ k <= m
    BY <1>1
  <2> QED
    BY <1>1, <1>a, <2>1
<1>3. ASSUME NEW k \in m + 1 .. m + n
      PROVE  RowHeight(q[k]) = f + (k - m) - 1 /\ RowHeight(q[k]) \in lo .. hi
  <2>1. k \in 1 .. m + n /\ ~ (k <= m) /\ k - m \in 1 .. n
    BY <1>1
  <2>2. q[k] = w[k - m]
    BY <1>1, <2>1
  <2>3. RowHeight(q[k]) = f + (k - m) - 1
    BY <1>a, <2>1, <2>2
  <2>4. f + (k - m) - 1 \in lo .. hi
    BY <1>c
  <2> QED
    BY <2>3, <2>4
<1>4. m # 0 => f = lo /\ RowHeight(r[m]) + 1 = lo
  <2> SUFFICES ASSUME m # 0 PROVE f = lo /\ RowHeight(r[m]) + 1 = lo
    OBVIOUS
  <2>1. m \in 1 .. m /\ r # <<>>
    BY <1>1, <1>a
  <2>2. f = RowHeight(r[m]) + 1 /\ RowHeight(r[m]) \in Nat /\ RowHeight(r[m]) < lo
    BY <1>a, <2>1
  <2> QED
    BY <2>2
<1>5. ASSUME NEW i \in 1 .. Len(q) - 1
      PROVE  IF RowHeight(q[i + 1]) \in lo .. hi /\ RowHeight(q[i]) \in lo .. hi
             THEN RowHeight(q[i + 1]) = RowHeight(q[i]) + 1
             ELSE RowHeight(q[i + 1]) > RowHeight(q[i])
  <2>1. CASE i + 1 <= m
    <3>1. i \in 1 .. m /\ i + 1 \in 1 .. m /\ i \in 1 .. m - 1
      BY <1>1, <2>1
    <3>2. RowHeight(r[i]) < RowHeight(r[i + 1])
      BY <1>a, <3>1
    <3>3. /\ RowHeight(q[i]) \in Nat /\ RowHeight(q[i + 1]) \in Nat
          /\ RowHeight(q[i]) < RowHeight(q[i + 1]) /\ ~ (RowHeight(q[i]) \in lo .. hi)
      BY <1>2, <3>1, <3>2
    <3> QED
      BY <3>3
  <2>2. CASE i = m
    <3>1. /\ i \in 1 .. m /\ i + 1 \in m + 1 .. m + n /\ (i + 1) - m = 1 /\ m # 0
      BY <1>1, <2>2
    <3>2. RowHeight(q[i + 1]) = f + ((i + 1) - m) - 1
      BY <1>3, <3>1
    <3>3. RowHeight(q[i + 1]) = f
      BY <3>1, <3>2
    <3>4. RowHeight(q[i]) \in Nat /\ RowHeight(q[i]) < lo
      BY <1>2, <3>1
    <3> QED
      BY <3>3, <3>4
  <2>3. CASE i > m
    <3>1. i \in m + 1 .. m + n /\ i + 1 \in m + 1 .. m + n
      BY <1>1, <2>3
    <3>2. /\ RowHeight(q[i]) = f + (i - m) - 1
          /\ RowHeight(q[i + 1]) = f + ((i + 1) - m) - 1
          /\ RowHeight(q[i]) \in lo .. hi /\ RowHeight(q[i + 1]) \in lo .. hi
      BY <1>3, <3>1
    <3>3. f + ((i + 1) - m) - 1 = (f + (i - m) - 1) + 1
      BY <1>1
    <3> QED
      BY <3>2, <3>3
  <2> QED
    BY <1>1, <2>1, <2>2, <2>3
<1>6. ASSUME NEW h \in lo .. hi, h >= s PROVE \E i \in DOMAIN q : RowHeight(q[i]) = h
  <2>1. h >= f
    <3>1. CASE m = 0
      BY <1>6, <1>a, <3>1
    <3>2. CASE m # 0
      BY <1>4, <3>2
    <3> QED
      BY <3>1, <3>2
  <2> DEFINE i == m + (h - f) + 1
  <2>2. i \in m + 1 .. m + n /\ f + (i - m) - 1 = h
    BY <1>d, <2>1
  <2>3. DOMAIN q = 1 .. m + n
    BY <1>1
  <2>4. i \in DOMAIN q /\ RowHeight(q[i]) = h
    <3> HIDE DEF i
    <3>1. i \in 1 .. m + n
      BY <1>1, <2>2
    <3>2. RowHeight(q[i]) = f + (i - m) - 1
      BY <1>3, <2>2
    <3> QED
      BY <2>2, <2>3, <3>1, <3>2
  <2> QED
    BY <2>4
<1>7. ASSUME q # <<>> PROVE RowHeight(q[Len(q)]) = hi
  <2>1. m + n # 0
    BY <1>1, <1>7, EmptySeq
  <2>2. n # 0
    <3>1. CASE m = 0
      BY <1>1, <2>1, <3>1
    <3>2. CASE m # 0
      BY <1>1, <1>4, <1>a, <3>2
    <3> QED
      BY <3>1, <3>2
  <2>3. m + n \in m + 1 .. m + n /\ f + ((m + n) - m) - 1 = hi
    BY <1>b, <2>2, WalkPlaces
  <2>4. RowHeight(q[m + n]) = f + ((m + n) - m) - 1
    BY <1>3, <2>3
  <2> QED
    BY <1>1, <2>3, <2>4
<1> QED
  BY <1>5, <1>6, <1>7 DEF Gapless, q

\* Without a cache window the archive rows are the backfill.
LEMMA ArchiveAloneGapless ==
    ASSUME NEW r, RowsRise(r), NEW s
    PROVE  Gapless(r, {}, s)
BY DEF Gapless, RowsRise

\* The rows that a process in life l reads at the heights f .. hi of the cache.
CacheRows(f, hi, l) ==
    [i \in 1 .. Cardinality(f .. hi) |->
        [id |-> cache.by_height[Nth(f .. hi, i)].id, life |-> l]]

\* Rows w are the blocks of the cache at f .. hi, lowest first.
ReadInOrder(w, f, hi, l) ==
    /\ w \in Seq(Row) /\ Len(w) = hi - f + 1
    /\ \A i \in 1 .. Len(w) : /\ w[i].id = cache.by_height[f + i - 1].id
                              /\ w[i].life = l /\ RowHeight(w[i]) = f + i - 1

\* The cache holds every height of f .. hi.
Covered(f, hi) == f .. hi \subseteq CachedHeights

\* The rows the cache walk reads are its heights, in order.
LEMMA WalkRows ==
    ASSUME CacheInv, Placed(cache), NEW l \in Nat, NEW f \in Nat, NEW hi \in Nat, f <= hi + 1,
           Covered(f, hi)
    PROVE  ReadInOrder(CacheRows(f, hi, l), f, hi, l)
<1> DEFINE n == Cardinality(f .. hi)
           w == [i \in 1 .. n |->
                    [id |-> cache.by_height[Nth(f .. hi, i)].id, life |-> l]]
<1>1. n = hi - f + 1 /\ n \in Nat /\ \A i \in 1 .. n : Nth(f .. hi, i) = f + i - 1
  BY IntervalNth
<1> HIDE DEF n
<1>2. ASSUME NEW i \in 1 .. n
      PROVE  /\ w[i] = [id |-> cache.by_height[f + i - 1].id, life |-> l]
             /\ w[i] \in Row /\ RowHeight(w[i]) = f + i - 1
  <2> DEFINE h == f + i - 1
  <2>1. h \in f .. hi /\ Nth(f .. hi, i) = h
    BY <1>1
  <2> HIDE DEF h
  <2>2. h \in DOMAIN cache.by_height
    BY <2>1 DEF CachedHeights, Covered
  <2>3. cache.by_height[h].id \in CacheId /\ Height[cache.by_height[h].id] = h
    BY <2>2 DEF CacheInv, Typed, Placed
  <2>4. w[i] = [id |-> cache.by_height[h].id, life |-> l]
    BY <2>1
  <2>5. w[i] \in Row /\ RowHeight(w[i]) = h
    BY <2>3, <2>4 DEF Row, RowHeight
  <2> QED
    BY <2>4, <2>5 DEF h
<1>3. w \in [1 .. n -> Row]
  BY <1>2
<1>4. w \in Seq(Row) /\ Len(w) = n
  BY <1>1, <1>3, FunctionIsSeq
<1> HIDE DEF w
<1> QED
  BY <1>1, <1>2, <1>4 DEF w, n, CacheRows, ReadInOrder

\* Steps that leave the call alone, or end it.
LEMMA GapKept ==
    ASSUME GapInv, UNCHANGED backfillOnly \/ Idle
    PROVE  /\ IsWindow' /\ from' \in Nat
           /\ (stage = "archived" => BelowWindow(rows))'
           /\ BackfillGapless'
<1>1. CASE UNCHANGED backfillOnly
  BY <1>1 DEF GapInv, IsWindow, BelowWindow, RowsRise, RowHeight, BackfillGapless,
              backfillOnly, Least, Greatest
<1>2. CASE Idle
  BY <1>2 DEF Idle, IsWindow, BackfillGapless
<1> QED
  BY <1>1, <1>2

\* The first read leaves a window.
LEMMA WindowRead ==
    ASSUME CacheInv, ReadCacheWindow
    PROVE  IsWindow'
<1>1. CASE CachedHeights = {}
  BY <1>1 DEF ReadCacheWindow, IsWindow
<1>2. CASE CachedHeights # {}
  <2> DEFINE lo == Least(CachedHeights)
             hi == Greatest(CachedHeights)
  <2>1. CachedHeights \subseteq Nat /\ IsFiniteSet(CachedHeights)
    BY CacheAssumption DEF CacheInv, Typed, CachedHeights
  <2>2. lo \in Nat /\ hi \in Nat /\ lo <= hi
    BY <1>2, <2>1, LeastGreatest
  <2>3. window' = lo .. hi
    BY <1>2 DEF ReadCacheWindow
  <2> HIDE DEF lo, hi
  <2> QED
    BY <2>2, <2>3 DEF IsWindow
<1> QED
  BY <1>1, <1>2

\* The second read leaves rows below the window.
LEMMA ArchiveRead ==
    ASSUME Keyed, IsWindow, from \in Nat, WalkArchive
    PROVE  BelowWindow(rows)'
<1> DEFINE r == ArchiveRange(archive, from, ArchiveTop, WalkLimit)
<1>1. window \subseteq Nat /\ IsFiniteSet(window) /\ (window # {} => Least(window) \in Nat)
  BY WindowSpec
<1>2. ArchiveTop \in Int /\ (window # {} => ArchiveTop = Least(window) - 1)
  BY <1>1, TopSpec
<1>3. WalkLimit \in Nat
  BY BackfillAssumption
<1>4. /\ r \in Seq(Row) /\ RowsRise(r)
      /\ \A i \in 1 .. Len(r) :
            \E h \in DOMAIN archive : /\ from <= h /\ h <= ArchiveTop /\ h \in Nat
                                      /\ r[i] = archive[h] /\ RowHeight(r[i]) = h
  BY <1>2, <1>3, RangeSpec
<1>5. rows' = r /\ window' = window
  BY DEF WalkArchive
<1> HIDE DEF r
<1>6. ASSUME NEW i \in 1 .. Len(r)
      PROVE  RowHeight(r[i]) \in Nat /\ (window # {} => RowHeight(r[i]) < Least(window))
  BY <1>1, <1>2, <1>4
<1>7. BelowWindow(r)
  BY <1>4, <1>6 DEF BelowWindow
<1> QED
  BY <1>5, <1>7 DEF BelowWindow, RowsRise, RowHeight, Least

\* The third read leaves a backfill without a hole, or none.
LEMMA CacheRead ==
    ASSUME GapInv, WalkCacheWindow, ~ Idle
    PROVE  Gapless(rows', window, from) /\ UNCHANGED <<from, window>>
<1>1. /\ BelowWindow(rows) /\ IsWindow /\ from \in Nat /\ CacheInv /\ Placed(cache)
      /\ life \in Nat
  BY DEF GapInv, SharedInv, TapInv, WalkCacheWindow
<1>2. CASE window = {}
  <2>1. rows' = rows /\ UNCHANGED <<from, window>>
    BY <1>2 DEF WalkCacheWindow
  <2>2. Gapless(rows, {}, from)
    BY <1>1, ArchiveAloneGapless DEF BelowWindow
  <2> QED
    BY <1>2, <2>1, <2>2
<1>3. CASE window # {}
  <2> DEFINE lo == Least(window)
             hi == Greatest(window)
             f == WalkFrom
             w == CacheRows(f, hi, life)
  <2>1. lo \in Nat /\ hi \in Nat /\ lo <= hi /\ window = lo .. hi
    BY <1>1, <1>3, WindowSpec
  <2>2. /\ f >= lo /\ f <= hi + 1 /\ f .. hi \subseteq CachedHeights
        /\ rows' = rows \o w /\ UNCHANGED <<from, window>>
    BY <1>3 DEF WalkCacheWindow, CacheWalk, CacheRows
  <2>3. /\ rows \in Seq(Row) /\ RowsRise(rows)
        /\ \A i \in 1 .. Len(rows) : RowHeight(rows[i]) \in Nat /\ RowHeight(rows[i]) < lo
    BY <1>1, <1>3 DEF BelowWindow
  <2>4. f = IF rows = <<>> THEN from ELSE RowHeight(rows[Len(rows)]) + 1
    BY DEF WalkFrom
  <2> HIDE DEF lo, hi, f
  <2>5. f \in Nat
    <3>1. CASE rows = <<>>
      BY <1>1, <2>4, <3>1
    <3>2. CASE rows # <<>>
      <4>1. Len(rows) \in 1 .. Len(rows)
        BY <2>3, <3>2, EmptySeq
      <4> QED
        BY <2>3, <2>4, <3>2, <4>1
    <3> QED
      BY <3>1, <3>2
  <2>6. /\ w \in Seq(Row) /\ Len(w) = hi - f + 1
        /\ \A i \in 1 .. Len(w) : RowHeight(w[i]) = f + i - 1
    <3>1. hi \in Nat /\ f <= hi + 1 /\ Covered(f, hi)
      BY <2>1, <2>2 DEF Covered
    <3>2. ReadInOrder(w, f, hi, life)
      BY <1>1, <2>5, <3>1, WalkRows
    <3> HIDE DEF w
    <3> QED
      BY <3>2 DEF ReadInOrder
  <2> HIDE DEF w
  <2>7. Joins(rows, w, lo, hi, f, from)
    BY <2>3, <2>4, <2>6 DEF Joins
  <2>8. Greatest(lo .. hi) = hi
    BY <2>1 DEF hi
  <2>9. lo <= f
    BY <2>1, <2>2, <2>5
  <2>10. Gapless(rows \o w, lo .. hi, from)
    BY <1>1, <2>1, <2>2, <2>5, <2>7, <2>8, <2>9, JoinGapless
  <2> QED
    BY <2>1, <2>2, <2>10
<1> QED
  BY <1>2, <1>3

\* Every step keeps the invariant of the backfill.
LEMMA GapStep ==
    ASSUME GapInv, [FetchBackfillNext]_fetchBackfillVars
    PROVE  GapInv'
<1> DEFINE Call == /\ IsWindow /\ from \in Nat
                   /\ stage = "archived" => BelowWindow(rows)
                   /\ BackfillGapless
<1>1. SharedInv /\ Keyed /\ TapInv /\ CacheInv /\ IsWindow /\ from \in Nat
  BY DEF GapInv, SharedInv
<1>2. ASSUME UNCHANGED archive PROVE Keyed'
  BY <1>1, <1>2 DEF Keyed, RowHeight
<1>3. ASSUME UNCHANGED fetchVars PROVE SharedInv' /\ Keyed'
  BY <1>1, <1>2, <1>3, SharedStep DEF fetchVars, archiverVars, archiverOnly
<1>4. ASSUME FetchNext PROVE SharedInv' /\ Keyed'
  <2>1. ASSUME ~ ArchiverNext PROVE UNCHANGED archive
    BY <1>4, <2>1 DEF FetchNext, FetchBlock, ProbeHit, ProbeMiss, UpstreamOk, FetchFails,
                      FillCache, archiverVars, archiverOnly
  <2> QED
    BY <1>1, <1>2, <1>4, <2>1, KeyedStep, SharedStep
<1>5. ASSUME UNCHANGED backfillOnly \/ Idle PROVE Call'
  BY <1>5, GapKept
<1>6. ASSUME BackfillStep PROVE Call' /\ UNCHANGED archiverVars
  <2>1. UNCHANGED archiverVars
    BY <1>6 DEF BackfillStep, Ask, ReadCacheWindow, WalkArchive, WalkCacheWindow, EndCall
  <2>2. ASSUME NEW h \in StartBlock, Ask(h) PROVE Call'
    <3>1. h \in Nat /\ from' = h /\ window' = window /\ stage' = "asked"
      BY <2>2, BackfillAssumption DEF Ask
    <3> QED
      BY <1>1, <3>1 DEF IsWindow, BackfillGapless
  <2>3. ASSUME ReadCacheWindow PROVE Call'
    <3>1. IsWindow'
      BY <1>1, <2>3, WindowRead
    <3> QED
      BY <1>1, <2>3, <3>1 DEF ReadCacheWindow, BackfillGapless
  <2>4. ASSUME WalkArchive PROVE Call'
    <3>1. BelowWindow(rows)'
      BY <1>1, <2>4, ArchiveRead
    <3>2. from' = from /\ window' = window /\ stage' = "archived"
      BY <2>4 DEF WalkArchive
    <3> QED
      BY <1>1, <3>1, <3>2 DEF IsWindow, BackfillGapless
  <2>5. ASSUME WalkCacheWindow, ~ Idle PROVE Call'
    <3>1. Gapless(rows', window, from) /\ from' = from /\ window' = window
      BY <2>5, CacheRead
    <3>2. stage' = "done"
      BY <2>5 DEF WalkCacheWindow
    <3>3. Gapless(rows', window', from')
      BY <3>1
    <3>4. BackfillGapless'
      BY <3>3 DEF Gapless, BackfillGapless, RowHeight, Greatest
    <3> QED
      BY <1>1, <3>1, <3>2, <3>4 DEF IsWindow
  <2> QED
    BY <1>5, <1>6, <2>1, <2>2, <2>3, <2>4, <2>5 DEF BackfillStep, EndCall
<1>7. Call'
  BY <1>5, <1>6 DEF FetchBackfillNext, fetchBackfillVars
<1>8. SharedInv' /\ Keyed'
  BY <1>3, <1>4, <1>6 DEF FetchBackfillNext, fetchBackfillVars, fetchVars
<1> QED
  BY <1>7, <1>8 DEF GapInv

\* A backfill of Stream.Blocks over a cache that Fetch.Block also fills is refused or
\* ships every height of the cache window from its start on, rising by one up to the top
\* of the window and rising below it, whatever the relayer, the archiver, the retention
\* task, a fill or a restart did between its three reads.
THEOREM BackfillHasNoHole == FetchBackfillSpec => []BackfillGapless
<1>1. FetchBackfillInit => GapInv
  <2> SUFFICES ASSUME FetchBackfillInit PROVE GapInv
    OBVIOUS
  <2>1. SharedInv
    BY SharedStart DEF FetchBackfillInit
  <2>2. archive = EmptyArchive
    BY DEF FetchBackfillInit, FetchInit, ArchiverInit
  <2>3. Keyed
    <3>1. DOMAIN archive = {}
      BY <2>2 DEF EmptyArchive
    <3> QED
      BY <3>1, FS_EmptySet DEF Keyed
  <2> QED
    BY <2>1, <2>3 DEF FetchBackfillInit, GapInv, IsWindow, BackfillGapless
<1>2. GapInv => BackfillGapless
  BY DEF GapInv
<1>3. FetchBackfillSpec => []GapInv
  BY <1>1, GapStep, PTL DEF FetchBackfillSpec
<1> QED
  BY <1>2, <1>3, PTL
-----------------------------------------------------------------------------
(* The chain that cache and archive are parts of *)

\* The block id is on the chain of v, at height h.
OnChain(v, id, h) == \E i \in 1 .. Len(v.chain) : v.chain[i].id = id /\ Ht(v.chain[i]) = h

\* u is what all outputs fed so far, since the process started, add up to.  What is
\* pending takes it to the engine's buffer; what is under way to the archiver and what
\* this process archived is final in it; every cached block is on its chain.
FedStory(u) ==
    /\ u \in View /\ Linked(u.chain) /\ Contiguous(u.chain) /\ u.final <= Len(u.chain)
    /\ InStep(Replay(u, Pending), canonical, last_irreversible_height)
    /\ fed /\ Head(outbox).step = "Irreversible" => IsFinal(u, Head(outbox).block)
    /\ AllFinal(u, channel) /\ AllFinal(u, tap.items)
    /\ \A h \in DOMAIN archive : archive[h].life = life => FinalAt(u, archive[h].id, h)
    /\ \A h \in DOMAIN cache.by_height : OnChain(u, cache.by_height[h].id, h)

\* After the step the story goes on, with a final part that has only grown unless the
\* step was a restart.
FedOn(u) == \E w : FedStory(w)' /\ (life' = life => Extends(u, w))

\* Blocks of a chain at adjacent heights are parent and child.
LEMMA ChainNeighbours ==
    ASSUME NEW v \in View, Linked(v.chain), Contiguous(v.chain),
           NEW h \in Nat, NEW x, NEW y, OnChain(v, x, h), OnChain(v, y, h + 1)
    PROVE  Parent[y] = x
<1> DEFINE ch == v.chain
           L == Len(ch)
<1>1. ch \in Seq(Entry) /\ L \in Nat
  <2>1. ch \in Seq(Entry)
    BY DEF View
  <2> QED
    BY <2>1
<1>2. \A i \in 1 .. L : Ht(ch[i]) \in Nat
  BY <1>1, HtType
<1>3. PICK i \in 1 .. L : ch[i].id = x /\ Ht(ch[i]) = h
  BY DEF OnChain
<1>4. PICK j \in 1 .. L : ch[j].id = y /\ Ht(ch[j]) = h + 1
  BY DEF OnChain
<1>5. 1 \in 1 .. L
  BY <1>1
<1>6. Ht(ch[i]) = Ht(ch[1]) + i - 1 /\ Ht(ch[j]) = Ht(ch[1]) + j - 1 /\ Ht(ch[1]) \in Nat
  BY <1>2, <1>5 DEF Contiguous
<1>7. j = i + 1
  BY <1>1, <1>3, <1>4, <1>6
<1>8. j \in 2 .. L /\ j - 1 = i
  BY <1>1, <1>7
<1> QED
  BY <1>3, <1>4, <1>8 DEF Linked

\* Final blocks are on the chain.
LEMMA FinalOnChain ==
    ASSUME NEW v \in View, v.final <= Len(v.chain), NEW id, NEW h, FinalAt(v, id, h)
    PROVE  OnChain(v, id, h)
<1>1. v.chain \in Seq(Entry) /\ v.final \in Nat
  BY DEF View
<1>2. Len(v.chain) \in Nat
  BY <1>1
<1>3. \A i \in 1 .. v.final : i \in 1 .. Len(v.chain)
  BY <1>1, <1>2
<1> QED
  BY <1>3 DEF FinalAt, OnChain

\* The parts of the story, after a step.
LEMMA FedFrom ==
    ASSUME NEW u, NEW w, w \in View, Linked(w.chain), Contiguous(w.chain),
           w.final <= Len(w.chain),
           InStep(Replay(w, Pending'), canonical', last_irreversible_height'),
           fed' /\ Head(outbox').step = "Irreversible" => IsFinal(w, Head(outbox').block),
           AllFinal(w, channel'), AllFinal(w, tap'.items),
           \A h \in DOMAIN archive' : archive'[h].life = life' => FinalAt(w, archive'[h].id, h),
           \A h \in DOMAIN cache'.by_height : OnChain(w, cache'.by_height[h].id, h),
           life' = life => Extends(u, w)
    PROVE  FedOn(u)
  BY DEF FedStory, FedOn

\* The cache after a New holds blocks of the longer chain.
LEMMA NewOnChain ==
    ASSUME NEW c, NEW v \in View, \A k \in DOMAIN c.by_height : OnChain(v, c.by_height[k].id, k),
           NEW e \in Entry, NEW w, w.chain = Append(v.chain, e), NEW d,
           d = Insert(c, Ht(e), e.id, e)
    PROVE  \A k \in DOMAIN d.by_height : OnChain(w, d.by_height[k].id, k)
<1> DEFINE h == Ht(e)
           row == [id |-> e.id, value |-> e]
           put == [by_height |-> With(Without(c.by_height, Moved(c, h, e.id)), h, row),
                   by_id     |-> With(Without(c.by_id, Displaced(c, h, e.id)), e.id, h)]
<1>1. d = DropHeights(put, Excess(put.by_height))
  BY DEF Insert
<1>2. row.id = e.id
  OBVIOUS
<1> HIDE DEF row
<1>3. /\ DOMAIN put.by_height \subseteq DOMAIN c.by_height \cup {h}
      /\ put.by_height[h] = row
      /\ \A k \in DOMAIN put.by_height : k # h => put.by_height[k] = c.by_height[k]
  <2>1. /\ DOMAIN Without(c.by_height, Moved(c, h, e.id)) \subseteq DOMAIN c.by_height
        /\ \A k \in DOMAIN Without(c.by_height, Moved(c, h, e.id)) :
              Without(c.by_height, Moved(c, h, e.id))[k] = c.by_height[k]
    BY DEF Without
  <2> QED
    BY <2>1 DEF With
<1> HIDE DEF put
<1>4. /\ DOMAIN d.by_height \subseteq DOMAIN put.by_height
      /\ \A k \in DOMAIN d.by_height : d.by_height[k] = put.by_height[k]
  BY <1>1 DEF DropHeights, Without
<1>5. v.chain \in Seq(Entry)
  BY DEF View
<1>6. /\ Len(v.chain) \in Nat /\ Len(w.chain) = Len(v.chain) + 1
      /\ w.chain[Len(v.chain) + 1] = e
      /\ \A i \in 1 .. Len(v.chain) : w.chain[i] = v.chain[i]
  BY <1>5, AppendProperties
<1>7. Len(w.chain) \in 1 .. Len(w.chain) /\ \A i \in 1 .. Len(v.chain) : i \in 1 .. Len(w.chain)
  BY <1>6
<1>8. ASSUME NEW k \in DOMAIN d.by_height PROVE OnChain(w, d.by_height[k].id, k)
  <2>1. CASE k = h
    <3>1. d.by_height[k].id = e.id
      BY <1>2, <1>3, <1>4, <2>1
    <3> QED
      BY <1>6, <1>7, <2>1, <3>1 DEF OnChain
  <2>2. CASE k # h
    <3>1. k \in DOMAIN c.by_height /\ d.by_height[k] = c.by_height[k]
      BY <1>3, <1>4, <2>2
    <3>2. OnChain(v, d.by_height[k].id, k)
      BY <3>1
    <3> QED
      BY <1>6, <1>7, <3>2 DEF OnChain
  <2> QED
    BY <2>1, <2>2
<1> QED
  BY <1>8

\* The cache after an Undo holds blocks of the shorter chain.
LEMMA UndoOnChain ==
    ASSUME NEW c, Agree(c), NEW v \in View, v.chain # <<>>,
           \A k \in DOMAIN c.by_height : OnChain(v, c.by_height[k].id, k),
           NEW w, w.chain = SubSeq(v.chain, 1, Len(v.chain) - 1), NEW d,
           d = RemoveById(c, v.chain[Len(v.chain)].id)
    PROVE  \A k \in DOMAIN d.by_height : OnChain(w, d.by_height[k].id, k)
<1> DEFINE L == Len(v.chain)
           x == v.chain[L].id
<1>1. v.chain \in Seq(Entry)
  BY DEF View
<1>2. L \in Nat /\ L >= 1
  BY <1>1, EmptySeq
<1>3. Len(w.chain) = L - 1 /\ \A i \in 1 .. L - 1 : w.chain[i] = v.chain[i]
  <2>1. L - 1 \in Int /\ \A i \in 1 .. L - 1 : v.chain[i] \in Entry
    BY <1>1, <1>2
  <2>2. /\ Len(w.chain) = IF 1 <= L - 1 THEN (L - 1) - 1 + 1 ELSE 0
        /\ \A i \in 1 .. (L - 1) - 1 + 1 : w.chain[i] = v.chain[1 + i - 1]
    BY <2>1, SubSeqProperties
  <2> HIDE DEF L
  <2>3. \A i \in 1 .. L - 1 : i \in 1 .. (L - 1) - 1 + 1 /\ 1 + i - 1 = i
    BY <1>2
  <2> QED
    BY <1>2, <2>2, <2>3
<1>4. ASSUME NEW k \in DOMAIN d.by_height
      PROVE  k \in DOMAIN c.by_height /\ d.by_height[k] = c.by_height[k] /\ c.by_height[k].id # x
  <2>1. CASE x \in DOMAIN c.by_id
    <3>1. k \in DOMAIN c.by_height /\ k # c.by_id[x] /\ d.by_height[k] = c.by_height[k]
      BY <2>1 DEF RemoveById, Without
    <3> QED
      BY <3>1 DEF Agree
  <2>2. CASE x \notin DOMAIN c.by_id
    <3>1. d = c
      BY <2>2 DEF RemoveById
    <3> QED
      BY <2>2, <3>1 DEF Agree
  <2> QED
    BY <2>1, <2>2
<1> HIDE DEF x
<1>5. ASSUME NEW k \in DOMAIN d.by_height PROVE OnChain(w, d.by_height[k].id, k)
  <2>1. PICK i \in 1 .. L : v.chain[i].id = c.by_height[k].id /\ Ht(v.chain[i]) = k
    BY <1>4 DEF OnChain
  <2>2. i # L
    BY <1>4, <2>1 DEF x
  <2>3. i \in 1 .. L - 1
    BY <1>2, <2>2
  <2> QED
    BY <1>3, <1>4, <2>1, <2>3 DEF OnChain
<1> QED
  BY <1>5

\* The facts of a story.
LEMMA FedFacts ==
    ASSUME NEW u, FedStory(u)
    PROVE  /\ u \in View /\ Linked(u.chain) /\ Contiguous(u.chain) /\ u.final <= Len(u.chain)
           /\ u.chain \in Seq(Entry) /\ Len(u.chain) \in Nat /\ u.final \in Nat
           /\ InStep(Replay(u, Pending), canonical, last_irreversible_height)
           /\ fed /\ Head(outbox).step = "Irreversible" => IsFinal(u, Head(outbox).block)
           /\ AllFinal(u, channel) /\ AllFinal(u, tap.items)
           /\ \A h \in DOMAIN archive :
                 archive[h].life = life => FinalAt(u, archive[h].id, h)
           /\ \A h \in DOMAIN cache.by_height : OnChain(u, cache.by_height[h].id, h)
           /\ Extends(u, u)
<1>1. u \in View /\ u.final <= Len(u.chain)
  BY DEF FedStory
<1>2. u.chain \in Seq(Entry) /\ u.final \in Nat
  BY <1>1 DEF View
<1>3. Len(u.chain) \in Nat
  BY <1>2
<1>4. Extends(u, u)
  BY <1>1, <1>2 DEF Extends
<1> QED
  BY <1>2, <1>3, <1>4 DEF FedStory

\* Feeding the next output takes the story one output further.
LEMMA FedByFeed ==
    ASSUME ServiceInv, CacheInv, FeedOutput, NEW u, FedStory(u), UNCHANGED archiverOnly
    PROVE  FedOn(u)
<1> DEFINE o == Head(outbox)
           t == Tail(outbox)
           c == u.chain
<1>1. /\ outbox # <<>> /\ outbox \in Seq(Output) /\ ~ fed /\ fed' = TRUE
      /\ cache' = FeedCache(cache, o)
      /\ UNCHANGED <<canonical, last_irreversible_height, outbox, channel>>
  BY DEF FeedOutput, ServiceInv, engineVars
<1>2. tap' = tap /\ archive' = archive /\ life' = life
  BY DEF archiverOnly
<1>3. o \in Output /\ t \in Seq(Output) /\ <<o>> \in Seq(Output) /\ outbox = <<o>> \o t
  BY <1>1, MoveHead
<1>4. Pending = outbox /\ Pending' = t
  BY <1>1 DEF Pending
<1>5. PICK w : w = Apply(u, o)
  OBVIOUS
<1>6. u \in View /\ Linked(c) /\ Contiguous(c) /\ u.final <= Len(c) /\ u.final \in Nat
      /\ c \in Seq(Entry) /\ Len(c) \in Nat
  BY FedFacts
<1>7. Replay(u, outbox) = Replay(w, t)
  <2> HIDE DEF o, t
  <2>1. Replay(u, <<o>> \o t) = Replay(Replay(u, <<o>>), t)
    BY <1>3, ReplayOutputs, Zenon
  <2>2. Replay(u, <<o>>) = Apply(u, o)
    BY ReplayShort
  <2> QED
    BY <1>3, <1>5, <2>1, <2>2
<1>8. InStep(Replay(w, t), canonical, last_irreversible_height)
  BY <1>4, <1>7, FedFacts
<1> HIDE DEF o, t
<1>9. w \in View /\ (o.step \notin {"New", "Undo"} => w.chain = c)
  BY <1>3, <1>5, <1>6, ApplyView
<1>10. w.ok
  <2>1. Replay(w, t).ok
    BY <1>8 DEF InStep
  <2> QED
    BY <1>3, <1>9, <2>1, ReplayView
<1>11. Extends(u, w) /\ (o.step = "Irreversible" => IsFinal(w, o.block))
  BY <1>3, <1>5, <1>6, <1>10, ApplyFinal
<1>12. w.final \in Nat /\ w.final <= Len(w.chain)
  BY <1>9, <1>11 DEF View, Extends
<1>13. /\ AllFinal(w, channel) /\ AllFinal(w, tap.items)
       /\ \A h \in DOMAIN archive : archive[h].life = life => FinalAt(w, archive[h].id, h)
  BY <1>6, <1>11, <1>12, StoryGrows, FedFacts
<1> DEFINE Goal == /\ Linked(w.chain) /\ Contiguous(w.chain)
                   /\ \A h \in DOMAIN cache'.by_height : OnChain(w, cache'.by_height[h].id, h)
<1>14. \A h \in DOMAIN cache.by_height : OnChain(u, cache.by_height[h].id, h)
  BY FedFacts
<1>15. ASSUME o.step = "New" PROVE Goal
  <2> DEFINE e == o.block
  <2>1. e \in Entry /\ w.chain = Append(c, e) /\ (c # <<>> => Parent[e.id] = c[Len(c)].id)
    BY <1>3, <1>5, <1>6, <1>10, <1>15, ApplyMeans
  <2>2. cache' = Insert(cache, Ht(e), e.id, e)
    BY <1>1, <1>15 DEF FeedCache
  <2> HIDE DEF e
  <2>3. Linked(w.chain) /\ Contiguous(w.chain)
    BY <1>6, <2>1, AppendBranch
  <2>4. \A h \in DOMAIN cache'.by_height : OnChain(w, cache'.by_height[h].id, h)
    BY <1>6, <1>14, <2>1, <2>2, NewOnChain
  <2> QED
    BY <2>3, <2>4
<1>16. ASSUME o.step = "Undo" PROVE Goal
  <2>1. c # <<>> /\ c[Len(c)] = o.block /\ w.chain = SubSeq(c, 1, Len(c) - 1)
    BY <1>3, <1>5, <1>6, <1>10, <1>16, ApplyMeans
  <2>2. cache' = RemoveById(cache, c[Len(c)].id)
    BY <1>1, <1>16, <2>1 DEF FeedCache
  <2>3. 1 \in 1 .. Len(c) + 1 /\ Len(c) - 1 \in 0 .. Len(c) /\ 1 <= (Len(c) - 1) + 1
    BY <1>6, <2>1, EmptySeq
  <2>4. Linked(w.chain) /\ Contiguous(w.chain)
    BY <1>6, <2>1, <2>3, SubBranch
  <2>5. Agree(cache)
    BY DEF CacheInv
  <2>6. \A h \in DOMAIN cache'.by_height : OnChain(w, cache'.by_height[h].id, h)
    BY <1>6, <1>14, <2>1, <2>2, <2>5, UndoOnChain
  <2> QED
    BY <2>4, <2>6
<1>17. ASSUME o.step \notin {"New", "Undo"} PROVE Goal
  <2>1. cache' = cache /\ w.chain = c
    BY <1>1, <1>9, <1>17 DEF FeedCache
  <2> QED
    BY <1>6, <1>14, <2>1 DEF OnChain
<1> HIDE DEF Goal
<1>18. Goal
  BY <1>15, <1>16, <1>17
<1>19. Head(outbox').step = "Irreversible" => IsFinal(w, Head(outbox').block)
  BY <1>1, <1>11 DEF o
<1> QED
  BY <1>1, <1>2, <1>4, <1>8, <1>9, <1>11, <1>12, <1>13, <1>18, <1>19, FedFrom DEF Goal

\* The service goes on with the story.
LEMMA FedUnderService ==
    ASSUME ServiceInv, CacheInv, ServiceNext, NEW u, FedStory(u), UNCHANGED archiverOnly
    PROVE  FedOn(u)
<1>1. /\ u \in View /\ Linked(u.chain) /\ Contiguous(u.chain) /\ u.final <= Len(u.chain)
      /\ InStep(Replay(u, Pending), canonical, last_irreversible_height)
      /\ fed /\ Head(outbox).step = "Irreversible" => IsFinal(u, Head(outbox).block)
      /\ AllFinal(u, channel) /\ AllFinal(u, tap.items)
      /\ \A h \in DOMAIN archive :
            archive[h].life = life => FinalAt(u, archive[h].id, h)
      /\ \A h \in DOMAIN cache.by_height : OnChain(u, cache.by_height[h].id, h)
      /\ Extends(u, u)
  BY FedFacts
<1>2. tap' = tap /\ archive' = archive /\ life' = life
  BY DEF archiverOnly
<1>3. channel \in Seq(Output) /\ outbox \in Seq(Output) /\ fed \in BOOLEAN
      /\ (fed => outbox # <<>>) /\ IInv
  BY DEF ServiceInv
<1>4. CASE EngineCall
  <2>1. /\ outbox = <<>> /\ outbox' = ret'.out /\ UNCHANGED <<fed, channel, cache>>
        /\ \/ \E b \in Block : Accept(b)
           \/ \E h \in SolidHead : SetSolidifiedHead(h)
    BY <1>4 DEF EngineCall
  <2>2. ~ fed /\ ~ fed' /\ Pending = <<>> /\ Pending' = ret'.out
    BY <1>3, <2>1 DEF Pending
  <2>3. InStep(u, canonical, last_irreversible_height)
    BY <1>1, <2>2, ReplayShort
  <2>4. InStep(Replay(u, Pending'), canonical', last_irreversible_height')
    BY <1>3, <2>1, <2>2, <2>3, CallKeepsInStep
  <2> QED
    BY <1>1, <1>2, <2>1, <2>2, <2>4, FedFrom
<1>5. ASSUME UNCHANGED <<canonical, last_irreversible_height, cache>>, Pending' = Pending,
             fed' /\ Head(outbox').step = "Irreversible" => IsFinal(u, Head(outbox').block),
             AllFinal(u, channel')
      PROVE  FedOn(u)
  BY <1>1, <1>2, <1>5, FedFrom
<1>6. CASE UNCHANGED engineVars /\ FeedOutput
  BY <1>6, FedByFeed
<1>7. CASE UNCHANGED engineVars /\ SendOutput
  <2> DEFINE o == Head(outbox)
  <2>1. /\ outbox # <<>> /\ channel' = Append(channel, o) /\ outbox' = Tail(outbox)
        /\ fed /\ fed' = FALSE /\ UNCHANGED <<canonical, last_irreversible_height, cache>>
    BY <1>3, <1>7 DEF SendOutput, TakeFirst, engineVars
  <2>2. o \in Output
    BY <1>3, <2>1, MoveHead
  <2>3. o.step = "Irreversible" => IsFinal(u, o.block)
    BY <1>1, <2>1
  <2> HIDE DEF o
  <2>4. AllFinal(u, Append(channel, o))
    BY <1>1, <1>3, <2>2, <2>3, QueueMoves
  <2>5. Pending' = Pending
    BY <2>1 DEF Pending
  <2> QED
    BY <1>5, <2>1, <2>4, <2>5
<1>8. CASE UNCHANGED engineVars /\ Recv
  <2>1. /\ channel # <<>> /\ channel' = Tail(channel)
        /\ UNCHANGED <<outbox, fed, canonical, last_irreversible_height, cache>>
    BY <1>8 DEF Recv, engineVars
  <2>2. AllFinal(u, Tail(channel))
    BY <1>1, <1>3, <2>1, QueueMoves
  <2> QED
    BY <1>1, <1>5, <2>1, <2>2 DEF Pending
<1>9. CASE UNCHANGED engineVars /\ CloseChannel
  <2>1. channel' = <<>> /\ UNCHANGED <<outbox, fed, canonical, last_irreversible_height, cache>>
    BY <1>9 DEF CloseChannel, engineVars
  <2>2. AllFinal(u, <<>>)
    BY DEF AllFinal
  <2> QED
    BY <1>1, <1>5, <2>1, <2>2 DEF Pending
<1>10. CASE UNCHANGED <<engineVars, outbox, fed, channel, closed, cache, seen_at>>
  BY <1>1, <1>5, <1>10 DEF Pending, engineVars
<1> QED
  BY <1>4, <1>6, <1>7, <1>8, <1>9, <1>10, ServiceCases

\* The pump takes an output to the archiver.
LEMMA FedUnderPump ==
    ASSUME TapInv, PumpToTap, NEW u, FedStory(u)
    PROVE  FedOn(u)
<1>1. /\ u \in View /\ Linked(u.chain) /\ Contiguous(u.chain) /\ u.final <= Len(u.chain)
      /\ InStep(Replay(u, Pending), canonical, last_irreversible_height)
      /\ fed /\ Head(outbox).step = "Irreversible" => IsFinal(u, Head(outbox).block)
      /\ AllFinal(u, channel) /\ AllFinal(u, tap.items)
      /\ \A h \in DOMAIN archive :
            archive[h].life = life => FinalAt(u, archive[h].id, h)
      /\ \A h \in DOMAIN cache.by_height : OnChain(u, cache.by_height[h].id, h)
      /\ Extends(u, u)
  BY FedFacts
<1> DEFINE o == Head(channel)
           q == tap.items
<1>2. /\ channel # <<>> /\ channel' = Tail(channel)
      /\ UNCHANGED <<outbox, fed, cache, canonical, last_irreversible_height, archive, life>>
      /\ tap' = Broadcast(tap, o)
  BY DEF PumpToTap, Recv, engineVars
<1>3. channel \in Seq(Output) /\ q \in Seq(Output) /\ tap = [items |-> q, lagged |-> tap.lagged]
  BY DEF TapInv, ServiceInv
<1>4. o \in Output
  BY <1>2, <1>3, MoveHead
<1>5. AllFinal(u, Tail(channel)) /\ (o.step = "Irreversible" => IsFinal(u, o.block))
  BY <1>1, <1>2, <1>3, QueueMoves
<1>6. tap'.items = Append(q, o) \/ (q # <<>> /\ tap'.items = Append(Tail(q), o))
  BY <1>2, <1>3, <1>4, BroadcastTyped
<1>7. AllFinal(u, Append(q, o))
  BY <1>1, <1>3, <1>4, <1>5, QueueMoves
<1>8. ASSUME q # <<>> PROVE AllFinal(u, Append(Tail(q), o))
  <2>1. Tail(q) \in Seq(Output) /\ AllFinal(u, Tail(q))
    BY <1>1, <1>3, <1>8, QueueMoves, MoveHead
  <2> QED
    BY <1>4, <1>5, <2>1, QueueMoves
<1>9. Pending' = Pending
  BY <1>2 DEF Pending
<1>10. AllFinal(u, tap'.items)
  BY <1>6, <1>7, <1>8
<1> QED
  BY <1>1, <1>2, <1>5, <1>9, <1>10, FedFrom

\* The archiver stores an output, or not.
LEMMA FedUnderRecv ==
    ASSUME TapInv, ArchiverRecv, NEW u, FedStory(u)
    PROVE  FedOn(u)
<1>1. /\ u \in View /\ Linked(u.chain) /\ Contiguous(u.chain) /\ u.final <= Len(u.chain)
      /\ InStep(Replay(u, Pending), canonical, last_irreversible_height)
      /\ fed /\ Head(outbox).step = "Irreversible" => IsFinal(u, Head(outbox).block)
      /\ AllFinal(u, channel) /\ AllFinal(u, tap.items)
      /\ \A h \in DOMAIN archive :
            archive[h].life = life => FinalAt(u, archive[h].id, h)
      /\ \A h \in DOMAIN cache.by_height : OnChain(u, cache.by_height[h].id, h)
      /\ Extends(u, u)
  BY FedFacts
<1> DEFINE o == Head(tap.items)
           t == Tail(tap.items)
           row == [id |-> o.block.id, life |-> life]
<1>2. /\ tap.items # <<>> /\ tap' = [tap EXCEPT !.items = t] /\ life' = life
      /\ UNCHANGED <<canonical, last_irreversible_height, outbox, fed, channel, cache>>
      /\ \/ o.step = "Irreversible" /\ archive' = ArchivePut(archive, Ht(o.block), row)
         \/ archive' = archive
  BY DEF ArchiverRecv, IsArchived, serviceVars, serviceOnly, engineVars
<1>3. tap.items \in Seq(Output) /\ tap = [items |-> tap.items, lagged |-> tap.lagged]
  BY DEF TapInv
<1>4. AllFinal(u, t) /\ (o.step = "Irreversible" => IsFinal(u, o.block))
  BY <1>1, <1>2, <1>3, QueueMoves
<1>5. row.id = o.block.id
  OBVIOUS
<1> HIDE DEF o, t, row
<1>6. tap'.items = t
  BY <1>2, <1>3
<1>7. ASSUME NEW h \in DOMAIN archive', archive'[h].life = life
      PROVE  FinalAt(u, archive'[h].id, h)
  <2>1. CASE archive' = archive
    BY <1>1, <1>7, <2>1
  <2>2. CASE o.step = "Irreversible" /\ archive' = ArchivePut(archive, Ht(o.block), row)
    <3>1. /\ h = Ht(o.block) => archive'[h] = row
          /\ h # Ht(o.block) => h \in DOMAIN archive /\ archive'[h] = archive[h]
      BY <1>7, <2>2 DEF ArchivePut
    <3>2. CASE h = Ht(o.block)
      BY <1>4, <1>5, <2>2, <3>1, <3>2 DEF IsFinal, FinalAt
    <3>3. CASE h # Ht(o.block)
      BY <1>1, <1>7, <3>1, <3>3
    <3> QED
      BY <3>2, <3>3
  <2> QED
    BY <1>2, <2>1, <2>2
<1>8. Pending' = Pending
  BY <1>2 DEF Pending
<1> QED
  BY <1>1, <1>2, <1>4, <1>6, <1>7, <1>8, FedFrom

\* Nothing is under way, cached or archived by this process yet.
Anew ==
    /\ canonical = <<>> /\ last_irreversible_height = None /\ outbox = <<>> /\ ~ fed
    /\ channel = <<>> /\ tap.items = <<>> /\ cache = EmptyCache
    /\ \A h \in DOMAIN archive : archive[h].life # life

\* A new process starts a new story.
LEMMA FedAnew == Anew => FedStory(FreshView)
<1> SUFFICES ASSUME Anew PROVE FedStory(FreshView)
  OBVIOUS
<1> USE DEF Anew
<1>1. InStep(FreshView, <<>>, None)
  BY FreshInStep
<1>2. /\ FreshView \in View /\ Linked(FreshView.chain) /\ Contiguous(FreshView.chain)
      /\ FreshView.final <= Len(FreshView.chain)
  BY <1>1 DEF InStep
<1>3. Replay(FreshView, Pending) = FreshView
  BY ReplayShort DEF Pending
<1>4. AllFinal(FreshView, <<>>)
  BY DEF AllFinal
<1>5. DOMAIN cache.by_height = {}
  BY DEF EmptyCache
<1> QED
  BY <1>1, <1>2, <1>3, <1>4, <1>5 DEF FedStory

\* Every step of the process goes on with the story, or starts a new one.
LEMMA FedStep ==
    ASSUME LinkedInv, CacheInv, ArchiverNext, NEW u, FedStory(u)
    PROVE  FedOn(u)
<1>1. /\ u \in View /\ Linked(u.chain) /\ Contiguous(u.chain) /\ u.final <= Len(u.chain)
      /\ InStep(Replay(u, Pending), canonical, last_irreversible_height)
      /\ fed /\ Head(outbox).step = "Irreversible" => IsFinal(u, Head(outbox).block)
      /\ AllFinal(u, channel) /\ AllFinal(u, tap.items)
      /\ \A h \in DOMAIN archive :
            archive[h].life = life => FinalAt(u, archive[h].id, h)
      /\ \A h \in DOMAIN cache.by_height : OnChain(u, cache.by_height[h].id, h)
      /\ Extends(u, u)
  BY FedFacts
<1>2. TapInv /\ ServiceInv /\ RowsAreOld
  BY DEF LinkedInv, TapInv
<1>3. ASSUME RelayerRuns PROVE FedOn(u)
  BY <1>2, <1>3, FedUnderService DEF RelayerRuns, ServiceNext
<1>4. ASSUME NEW b \in Block, ChainMoves(b) PROVE FedOn(u)
  BY <1>2, <1>4, FedUnderService DEF ChainMoves, ServiceNext
<1>5. ASSUME PumpToTap PROVE FedOn(u)
  BY <1>2, <1>5, FedUnderPump
<1>6. ASSUME ArchiverRecv PROVE FedOn(u)
  BY <1>2, <1>6, FedUnderRecv
<1>7. ASSUME UNCHANGED <<serviceVars, life>>, tap'.items = tap.items,
             \A h \in DOMAIN archive' : h \in DOMAIN archive /\ archive'[h] = archive[h]
      PROVE  FedOn(u)
  <2>1. UNCHANGED <<canonical, last_irreversible_height, outbox, fed, channel, cache, life>>
    BY <1>7 DEF serviceVars, serviceOnly, engineVars
  <2>2. Pending' = Pending
    BY <2>1 DEF Pending
  <2> QED
    BY <1>1, <1>7, <2>1, <2>2, FedFrom
<1>8. ASSUME ArchiverLags PROVE FedOn(u)
  <2>1. tap'.items = tap.items
    BY <1>2, <1>8 DEF ArchiverLags, TapInv
  <2> QED
    BY <1>7, <1>8, <2>1 DEF ArchiverLags
<1>9. ASSUME PruneArchive PROVE FedOn(u)
  BY <1>7, <1>9 DEF PruneArchive, ArchiveDeleteBelow
<1>10. ASSUME NEW b \in Block, ChainSolidifies(b) PROVE FedOn(u)
  BY <1>7, <1>10 DEF ChainSolidifies
<1>11. ASSUME Restart PROVE FedOn(u)
  <2>1. life \in Nat /\ life' = life + 1 /\ archive' = archive
    BY <1>2, <1>11 DEF Restart, TapInv
  <2>2. \A h \in DOMAIN archive' : archive'[h].life # life'
    BY <1>2, <2>1 DEF RowsAreOld
  <2>3. /\ canonical' = <<>> /\ last_irreversible_height' = None /\ outbox' = <<>>
        /\ ~ fed' /\ channel' = <<>> /\ tap'.items = <<>> /\ cache' = EmptyCache
    BY <1>11 DEF Restart, FreshRing
  <2>4. Anew' => FedStory(FreshView)'
    BY FedAnew, PTL
  <2>5. life' # life
    BY <2>1
  <2>6. FedStory(FreshView)' => \E w : FedStory(w)'
    BY DEF FreshView
  <2> QED
    BY <2>2, <2>3, <2>4, <2>5, <2>6 DEF FedOn, Anew
<1> QED
  BY <1>3, <1>4, <1>5, <1>6, <1>8, <1>9, <1>10, <1>11 DEF ArchiverNext

-----------------------------------------------------------------------------
(* A backfill over archive and cache of one relayer *)

\* Rows of one process at adjacent heights are parent and child.
RowsLinked(q) ==
    \A i \in 1 .. Len(q) - 1 :
        /\ RowHeight(q[i + 1]) = RowHeight(q[i]) + 1
        /\ q[i].life = q[i + 1].life
        => Parent[q[i + 1].id] = q[i].id

\* The rows q that this process wrote are final in u.
RowsFinal(u, q) ==
    \A i \in 1 .. Len(q) : q[i].life = life => FinalAt(u, q[i].id, RowHeight(q[i]))

\* The inductive invariant: archive rows read below a window must still meet whatever
\* the cache holds when it is walked, after any reorg, eviction, prune or restart in
\* between.  They do because both are parts of the chain fed so far, in which the rows
\* are final.
SeamInv ==
    /\ LinkedInv /\ CacheInv /\ Placed(cache) /\ Keyed
    /\ IsWindow /\ from \in Nat
    /\ stage = "archived" => BelowWindow(rows) /\ RowsLinked(rows)
    /\ BackfillLinked
    /\ \E u : FedStory(u) /\ (stage = "archived" => RowsFinal(u, rows))

\* Every two neighbours of w are parent and child.
Chained(w) == \A i \in 1 .. Len(w) - 1 : Parent[w[i + 1].id] = w[i].id

\* The two parts of a backfill meet.
Meet(r, w) ==
    r # <<>> /\ w # <<>> /\ r[Len(r)].life = w[1].life => Parent[w[1].id] = r[Len(r)].id

\* Linked rows, then a chain that they meet.
LEMMA JoinLinked ==
    ASSUME NEW lo \in Nat, NEW hi \in Nat, NEW f \in Nat, lo <= f, f <= hi + 1,
           NEW s \in Nat, NEW r, NEW w, Joins(r, w, lo, hi, f, s),
           RowsLinked(r), Chained(w), Meet(r, w)
    PROVE  RowsLinked(r \o w) /\ RowsRise(r \o w)
<1>1. PICK m \in Nat, n \in Nat : m = Len(r) /\ n = Len(w)
  BY DEF Joins
<1> DEFINE q == r \o w
<1>2. Len(q) = m + n /\ \A k \in 1 .. m + n : q[k] = IF k <= m THEN r[k] ELSE w[k - m]
  <2>1. r \in Seq(Row) /\ w \in Seq(Row)
    BY DEF Joins
  <2>2. /\ Len(r \o w) = Len(r) + Len(w)
        /\ \A k \in 1 .. Len(r) + Len(w) :
              (r \o w)[k] = IF k <= Len(r) THEN r[k] ELSE w[k - Len(r)]
    BY <2>1, ConcatProperties
  <2> QED
    BY <1>1, <2>2
<1>3. /\ \A i \in 1 .. m : RowHeight(r[i]) \in Nat /\ RowHeight(r[i]) < lo
      /\ \A i \in 1 .. n : RowHeight(w[i]) = f + i - 1
      /\ \A i \in 1 .. m - 1 : RowHeight(r[i]) < RowHeight(r[i + 1])
      /\ m = 0 <=> r = <<>>
      /\ n = 0 <=> w = <<>>
  BY <1>1, EmptySeq DEF Joins, RowsRise
<1> HIDE DEF q
<1>4. ASSUME NEW i \in 1 .. Len(q) - 1
      PROVE  /\ RowHeight(q[i]) < RowHeight(q[i + 1])
             /\ /\ RowHeight(q[i + 1]) = RowHeight(q[i]) + 1
                /\ q[i].life = q[i + 1].life
                => Parent[q[i + 1].id] = q[i].id
  <2>1. i \in 1 .. m + n /\ i + 1 \in 1 .. m + n
    BY <1>2
  <2>2. CASE i + 1 <= m
    <3>1. i \in 1 .. m - 1 /\ i <= m
      BY <2>1, <2>2
    <3>2. q[i] = r[i] /\ q[i + 1] = r[i + 1]
      BY <1>2, <2>1, <2>2, <3>1
    <3> QED
      BY <1>1, <1>3, <3>1, <3>2 DEF RowsLinked
  <2>3. CASE i = m
    <3>1. /\ i \in 1 .. m /\ ~ (i + 1 <= m) /\ (i + 1) - m = 1 /\ 1 \in 1 .. n
          /\ m # 0 /\ n # 0 /\ i <= m /\ f + 1 - 1 = f
      BY <2>1, <2>3
    <3>2. q[i] = r[m] /\ q[i + 1] = w[1]
      BY <1>2, <2>1, <2>3, <3>1
    <3>3. RowHeight(q[i]) \in Nat /\ RowHeight(q[i]) < lo /\ RowHeight(q[i + 1]) = f
      BY <1>3, <2>3, <3>1, <3>2
    <3>4. RowHeight(q[i]) < RowHeight(q[i + 1])
      BY <3>3
    <3> QED
      BY <1>1, <1>3, <3>1, <3>2, <3>4 DEF Meet
  <2>4. CASE i > m
    <3>1. /\ ~ (i <= m) /\ ~ (i + 1 <= m) /\ (i + 1) - m = (i - m) + 1
          /\ i - m \in 1 .. n - 1 /\ i - m \in 1 .. n /\ (i - m) + 1 \in 1 .. n
      BY <2>1, <2>4
    <3>2. q[i] = w[i - m] /\ q[i + 1] = w[(i - m) + 1]
      BY <1>2, <2>1, <3>1
    <3>3. RowHeight(q[i]) = f + (i - m) - 1 /\ RowHeight(q[i + 1]) = f + ((i - m) + 1) - 1
      BY <1>3, <3>1, <3>2
    <3>4. RowHeight(q[i]) < RowHeight(q[i + 1])
      BY <3>1, <3>3
    <3> QED
      BY <1>1, <3>1, <3>2, <3>4 DEF Chained
  <2> QED
    BY <2>1, <2>2, <2>3, <2>4
<1> QED
  BY <1>4 DEF RowsLinked, RowsRise, q

\* What archive_walk reads is linked, and final as far as this process wrote it.
LEMMA ArchiveReadLinked ==
    ASSUME Keyed, ArchiveLinked, IsWindow, from \in Nat, WalkArchive, NEW u, FedStory(u)
    PROVE  RowsLinked(rows') /\ RowsFinal(u, rows')
<1> DEFINE r == ArchiveRange(archive, from, ArchiveTop, WalkLimit)
<1>1. window \subseteq Nat /\ IsFiniteSet(window)
  BY WindowSpec
<1>2. ArchiveTop \in Int /\ WalkLimit \in Nat
  BY <1>1, TopSpec, BackfillAssumption
<1>0. /\ r \in Seq(Row) /\ RowsRise(r)
      /\ \A i \in 1 .. Len(r) :
            \E h \in DOMAIN archive : /\ from <= h /\ h <= ArchiveTop /\ h \in Nat
                                      /\ r[i] = archive[h] /\ RowHeight(r[i]) = h
  BY <1>2, RangeSpec
<1>3. /\ r \in Seq(Row)
      /\ \A i \in 1 .. Len(r) : \E h \in DOMAIN archive : r[i] = archive[h] /\ RowHeight(r[i]) = h
  <2> HIDE DEF r
  <2> QED
    BY <1>0
<1>4. rows' = r
  BY DEF WalkArchive
<1> HIDE DEF r
<1>5. Len(r) \in Nat
  BY <1>3
<1>6. ASSUME NEW i \in 1 .. Len(r) - 1, RowHeight(r[i + 1]) = RowHeight(r[i]) + 1,
             r[i].life = r[i + 1].life
      PROVE  Parent[r[i + 1].id] = r[i].id
  <2>1. i \in 1 .. Len(r) /\ i + 1 \in 1 .. Len(r)
    BY <1>5
  <2>2. PICK h \in DOMAIN archive : r[i] = archive[h] /\ RowHeight(r[i]) = h
    BY <1>3, <2>1
  <2>3. PICK g \in DOMAIN archive : r[i + 1] = archive[g] /\ RowHeight(r[i + 1]) = g
    BY <1>3, <2>1
  <2>4. g = h + 1
    BY <1>6, <2>2, <2>3
  <2> QED
    BY <1>6, <2>2, <2>3, <2>4 DEF ArchiveLinked
<1>7. \A h \in DOMAIN archive : archive[h].life = life => FinalAt(u, archive[h].id, h)
  BY FedFacts
<1>8. ASSUME NEW i \in 1 .. Len(r), r[i].life = life PROVE FinalAt(u, r[i].id, RowHeight(r[i]))
  BY <1>3, <1>7, <1>8
<1> QED
  BY <1>4, <1>6, <1>8 DEF RowsLinked, RowsFinal

\* What the cache walk reads is a chain.
LEMMA CacheChained ==
    ASSUME NEW u, FedStory(u), NEW f \in Nat, NEW hi \in Nat, f <= hi + 1, Covered(f, hi),
           NEW w, NEW l, ReadInOrder(w, f, hi, l)
    PROVE  Chained(w)
<1>1. PICK n \in Nat : n = Len(w) /\ n = hi - f + 1
  BY DEF ReadInOrder
<1>2. \A i \in 1 .. n : w[i].id = cache.by_height[f + i - 1].id
  BY <1>1 DEF ReadInOrder
<1>3. /\ u \in View /\ Linked(u.chain) /\ Contiguous(u.chain)
      /\ \A h \in DOMAIN cache.by_height : OnChain(u, cache.by_height[h].id, h)
  BY FedFacts
<1>4. ASSUME NEW i \in 1 .. n - 1 PROVE Parent[w[i + 1].id] = w[i].id
  <2> DEFINE h == f + i - 1
  <2>1. h \in Nat /\ h \in f .. hi /\ h + 1 \in f .. hi /\ f + (i + 1) - 1 = h + 1
        /\ i \in 1 .. n /\ i + 1 \in 1 .. n
    BY <1>1
  <2>2. w[i].id = cache.by_height[h].id /\ w[i + 1].id = cache.by_height[h + 1].id
    BY <1>2, <2>1
  <2> HIDE DEF h
  <2>3. h \in DOMAIN cache.by_height /\ h + 1 \in DOMAIN cache.by_height
    BY <2>1 DEF Covered, CachedHeights
  <2>4. OnChain(u, w[i].id, h) /\ OnChain(u, w[i + 1].id, h + 1)
    BY <1>3, <2>2, <2>3
  <2> QED
    BY <1>3, <2>1, <2>4, ChainNeighbours
<1> QED
  BY <1>1, <1>4 DEF Chained

\* It continues the archive rows of this process.
LEMMA PartsMeet ==
    ASSUME NEW u, FedStory(u), NEW r, RowsFinal(u, r), NEW f \in Nat, NEW hi \in Nat,
           f <= hi + 1, Covered(f, hi), NEW w, ReadInOrder(w, f, hi, life),
           r \in Seq(Row), r # <<>> => f = RowHeight(r[Len(r)]) + 1 /\ RowHeight(r[Len(r)]) \in Nat
    PROVE  Meet(r, w)
<1> SUFFICES ASSUME r # <<>>, w # <<>>, r[Len(r)].life = w[1].life
             PROVE  Parent[w[1].id] = r[Len(r)].id
  BY DEF Meet
<1>1. PICK n \in Nat : n = Len(w) /\ n = hi - f + 1 /\ w \in Seq(Row)
  BY DEF ReadInOrder
<1>2. n # 0
  BY <1>1, EmptySeq
<1>3. 1 \in 1 .. n /\ f \in f .. hi /\ f + 1 - 1 = f
  BY <1>1, <1>2
<1>4. w[1].id = cache.by_height[f].id /\ w[1].life = life
  BY <1>1, <1>3 DEF ReadInOrder
<1>5. PICK h \in Nat : h = RowHeight(r[Len(r)]) /\ f = h + 1
  OBVIOUS
<1>6. Len(r) \in 1 .. Len(r)
  BY EmptySeq
<1>7. FinalAt(u, r[Len(r)].id, h)
  BY <1>4, <1>5, <1>6 DEF RowsFinal
<1>8. /\ u \in View /\ Linked(u.chain) /\ Contiguous(u.chain) /\ u.final <= Len(u.chain)
      /\ \A k \in DOMAIN cache.by_height : OnChain(u, cache.by_height[k].id, k)
  BY FedFacts
<1>9. OnChain(u, r[Len(r)].id, h)
  BY <1>7, <1>8, FinalOnChain
<1>10. f \in DOMAIN cache.by_height
  BY <1>3 DEF Covered, CachedHeights
<1>11. OnChain(u, w[1].id, h + 1)
  BY <1>4, <1>5, <1>8, <1>10
<1> QED
  BY <1>8, <1>9, <1>11, ChainNeighbours

\* The third read leaves a linked backfill, or none.
LEMMA CacheReadLinked ==
    ASSUME SeamInv, WalkCacheWindow, ~ Idle
    PROVE  BackfillLinked' /\ UNCHANGED <<from, window>> /\ stage' = "done"
<1>1. /\ BelowWindow(rows) /\ RowsLinked(rows) /\ IsWindow /\ from \in Nat
      /\ CacheInv /\ Placed(cache) /\ life \in Nat
  BY DEF SeamInv, LinkedInv, TapInv, WalkCacheWindow
<1>2. PICK u : FedStory(u) /\ RowsFinal(u, rows)
  BY DEF SeamInv, WalkCacheWindow
<1>3. stage' = "done"
  BY DEF WalkCacheWindow
<1> DEFINE Whole(q, W) ==
              /\ {h \in W : h >= from} \subseteq {RowHeight(q[i]) : i \in DOMAIN q}
              /\ RowsRise(q) /\ RowsLinked(q)
<1>4. ASSUME UNCHANGED <<from, window>>, NEW q, rows' = q, Whole(q, window)
      PROVE  BackfillLinked'
  <2>1. /\ {h \in window' : h >= from'} \subseteq {RowHeight(q[i]) : i \in DOMAIN q}
        /\ RowsRise(q) /\ RowsLinked(q)
    BY <1>4
  <2> QED
    BY <1>4, <2>1 DEF BackfillLinked, RowsRise, RowsLinked, RowHeight
<1>5. CASE window = {}
  <2>1. rows' = rows /\ UNCHANGED <<from, window>>
    BY <1>5 DEF WalkCacheWindow
  <2>2. Whole(rows, window)
    BY <1>1, <1>5 DEF BelowWindow
  <2> QED
    BY <1>3, <1>4, <2>1, <2>2
<1>6. CASE window # {}
  <2> DEFINE lo == Least(window)
             hi == Greatest(window)
             f == WalkFrom
             w == CacheRows(f, hi, life)
  <2>1. lo \in Nat /\ hi \in Nat /\ lo <= hi /\ window = lo .. hi
    BY <1>1, <1>6, WindowSpec
  <2>2. /\ f >= lo /\ f <= hi + 1 /\ f .. hi \subseteq CachedHeights
        /\ rows' = rows \o w /\ UNCHANGED <<from, window>>
    BY <1>6 DEF WalkCacheWindow, CacheWalk, CacheRows
  <2>3. /\ rows \in Seq(Row) /\ RowsRise(rows)
        /\ \A i \in 1 .. Len(rows) : RowHeight(rows[i]) \in Nat /\ RowHeight(rows[i]) < lo
    BY <1>1, <1>6 DEF BelowWindow
  <2>4. f = IF rows = <<>> THEN from ELSE RowHeight(rows[Len(rows)]) + 1
    BY DEF WalkFrom
  <2> HIDE DEF lo, hi, f
  <2>5. rows # <<>> => RowHeight(rows[Len(rows)]) \in Nat
    <3>1. rows # <<>> => Len(rows) \in 1 .. Len(rows)
      BY <2>3, EmptySeq
    <3> QED
      BY <2>3, <3>1
  <2>6. f \in Nat /\ (rows # <<>> => f = RowHeight(rows[Len(rows)]) + 1)
    BY <1>1, <2>4, <2>5
  <2>7. hi \in Nat /\ f <= hi + 1 /\ Covered(f, hi)
    BY <2>1, <2>2 DEF Covered
  <2>8. ReadInOrder(w, f, hi, life)
    BY <1>1, <2>6, <2>7, WalkRows
  <2> HIDE DEF w
  <2>9. /\ w \in Seq(Row) /\ Len(w) = hi - f + 1
        /\ \A i \in 1 .. Len(w) : RowHeight(w[i]) = f + i - 1
    BY <2>8 DEF ReadInOrder
  <2>10. Joins(rows, w, lo, hi, f, from)
    BY <2>3, <2>4, <2>9 DEF Joins
  <2>11. Greatest(lo .. hi) = hi
    BY <2>1 DEF hi
  <2>12. lo <= f
    BY <2>1, <2>2, <2>6
  <2>13. Gapless(rows \o w, lo .. hi, from)
    BY <1>1, <2>1, <2>2, <2>6, <2>10, <2>11, <2>12, JoinGapless
  <2>14. Chained(w)
    BY <1>2, <2>6, <2>7, <2>8, CacheChained
  <2>15. Meet(rows, w)
    BY <1>2, <2>3, <2>5, <2>6, <2>7, <2>8, PartsMeet
  <2>16. RowsLinked(rows \o w) /\ RowsRise(rows \o w)
    BY <1>1, <2>1, <2>6, <2>7, <2>10, <2>12, <2>14, <2>15, JoinLinked
  <2>17. Whole(rows \o w, window)
    BY <2>1, <2>13, <2>16 DEF Gapless
  <2> HIDE DEF Whole
  <2> QED
    BY <1>3, <1>4, <2>2, <2>17
<1> QED
  BY <1>5, <1>6

\* Every step keeps the invariant of the seam.
LEMMA SeamStep ==
    ASSUME SeamInv, [BackfillNext]_backfillVars
    PROVE  SeamInv'
<1> DEFINE Core == LinkedInv /\ CacheInv /\ Placed(cache) /\ Keyed
           Read == /\ IsWindow /\ from \in Nat
                   /\ stage = "archived" => BelowWindow(rows) /\ RowsLinked(rows)
                   /\ BackfillLinked
           Told == \E u : FedStory(u) /\ (stage = "archived" => RowsFinal(u, rows))
<1>1. Core /\ Read /\ ServiceInv /\ TapInv /\ ArchiveLinked
  BY DEF SeamInv, LinkedInv, TapInv
<1>2. PICK u : FedStory(u) /\ (stage = "archived" => RowsFinal(u, rows))
  BY DEF SeamInv
<1>3. ASSUME ArchiverNext PROVE Core'
  BY <1>1, <1>3, LinkedStep, ProcessKeepsCache, KeyedStep
<1>4. ASSUME UNCHANGED archiverVars PROVE Core' /\ FedStory(u)'
  <2>1. UNCHANGED <<canonical, last_irreversible_height, outbox, fed, channel, tap, archive, life,
                    node_solid, watch_head, cache>>
    BY <1>4 DEF archiverVars, archiverOnly, serviceVars, serviceOnly, engineVars
  <2>2. LinkedInv'
    <3>1. ServiceInv'
      BY <1>1, <1>4, ServiceStepKeeps DEF archiverVars
    <3>2. SolidHeight' = SolidHeight
      BY <2>1 DEF SolidHeight
    <3>3. TapInv'
      BY <1>1, <2>1, <3>1, <3>2 DEF TapInv
    <3>4. \E x : FinalStory(x)'
      BY <1>1, <2>1 DEF LinkedInv, FinalStory
    <3> QED
      BY <1>1, <2>1, <3>3, <3>4 DEF LinkedInv, ArchiveLinked, RowsAreOld
  <2>3. CacheInv'
    BY <1>1, <2>1, CacheStep
  <2>4. Keyed'
    BY <1>1, <2>1 DEF Keyed, RowHeight
  <2>5. Pending' = Pending
    BY <2>1 DEF Pending
  <2>6. FedStory(u)'
    BY <1>2, <2>1, <2>5 DEF FedStory
  <2> QED
    BY <1>1, <2>1, <2>2, <2>3, <2>4, <2>6
<1>5. ASSUME Idle PROVE Read' /\ stage' # "archived"
  BY <1>5 DEF Idle, IsWindow, BackfillLinked
<1>6. ASSUME UNCHANGED backfillOnly PROVE Read'
  BY <1>1, <1>6 DEF IsWindow, BelowWindow, RowsRise, RowsLinked, RowHeight, BackfillLinked,
                    backfillOnly, Least
<1>7. ASSUME ArchiverNext, IF life' = life THEN UNCHANGED backfillOnly ELSE Idle
      PROVE  Read' /\ Told'
  <2>1. PICK w : FedStory(w)' /\ (life' = life => Extends(u, w))
    BY <1>1, <1>2, <1>7, FedStep DEF FedOn
  <2>2. CASE life' # life
    BY <1>5, <1>7, <2>1, <2>2
  <2>3. CASE life' = life
    <3>1. UNCHANGED <<stage, rows>> /\ Extends(u, w)
      BY <1>7, <2>1, <2>3 DEF backfillOnly
    <3>2. u.final \in Nat /\ w.final \in Nat
      <4>1. u \in View /\ w \in View
        BY <1>2, <2>1 DEF FedStory
      <4> QED
        BY <4>1 DEF View
    <3>3. \A id, h : FinalAt(u, id, h) => FinalAt(w, id, h)
      BY <3>1, <3>2, StoryGrows
    <3>4. (stage = "archived" => RowsFinal(w, rows))'
      BY <1>2, <2>3, <3>1, <3>3 DEF RowsFinal, RowHeight
    <3> QED
      BY <1>6, <1>7, <2>1, <2>3, <3>4
  <2> QED
    BY <2>2, <2>3
<1>8. ASSUME UNCHANGED archiverVars, stage' # "archived" PROVE Told'
  BY <1>4, <1>8
<1>9. ASSUME NEW h \in StartBlock, Ask(h) PROVE Read' /\ stage' # "archived"
  <2>1. h \in Nat /\ from' = h /\ window' = window /\ stage' = "asked"
    BY <1>9, BackfillAssumption DEF Ask
  <2> QED
    BY <1>1, <2>1 DEF IsWindow, BackfillLinked
<1>10. ASSUME ReadCacheWindow PROVE Read' /\ stage' # "archived"
  <2>1. IsWindow'
    BY <1>1, <1>10, WindowRead
  <2> QED
    BY <1>1, <1>10, <2>1 DEF ReadCacheWindow, BackfillLinked
<1>11. ASSUME WalkArchive PROVE Read' /\ Told'
  <2>1. BelowWindow(rows)'
    BY <1>1, <1>11, ArchiveRead
  <2>2. RowsLinked(rows') /\ RowsFinal(u, rows')
    BY <1>1, <1>2, <1>11, ArchiveReadLinked
  <2>3. UNCHANGED <<archiverVars, from, window>> /\ stage' = "archived"
    BY <1>11 DEF WalkArchive
  <2>4. life' = life
    BY <2>3 DEF archiverVars, archiverOnly
  <2>5. RowsLinked(rows)' /\ RowsFinal(u, rows)'
    BY <2>2, <2>4 DEF RowsLinked, RowsFinal, RowHeight
  <2>6. FedStory(u)'
    BY <1>4, <2>3
  <2> QED
    BY <1>1, <2>1, <2>3, <2>5, <2>6 DEF IsWindow, BackfillLinked
<1>12. ASSUME WalkCacheWindow, ~ Idle PROVE Read' /\ stage' # "archived"
  <2>1. BackfillLinked' /\ UNCHANGED <<from, window>> /\ stage' = "done"
    BY <1>12, CacheReadLinked
  <2> QED
    BY <1>1, <2>1 DEF IsWindow
<1>13. ASSUME \/ (\E h \in StartBlock : Ask(h)) \/ ReadCacheWindow \/ WalkArchive
              \/ WalkCacheWindow \/ EndCall
       PROVE  UNCHANGED archiverVars
  BY <1>13 DEF Ask, ReadCacheWindow, WalkArchive, WalkCacheWindow, EndCall
<1>14. ASSUME UNCHANGED backfillVars PROVE Core' /\ Read' /\ Told'
  <2>1. UNCHANGED archiverVars /\ UNCHANGED backfillOnly
    BY <1>14 DEF backfillVars
  <2>2. UNCHANGED <<stage, rows, life>>
    BY <2>1 DEF backfillOnly, archiverVars, archiverOnly
  <2>3. (stage = "archived" => RowsFinal(u, rows))'
    BY <1>2, <2>2 DEF RowsFinal, RowHeight
  <2> QED
    BY <1>4, <1>6, <2>1, <2>3
<1> HIDE DEF Core, Read, Told
<1>15. Core'
  BY <1>3, <1>4, <1>13, <1>14 DEF BackfillNext
<1>16. Read' /\ Told'
  BY <1>5, <1>7, <1>8, <1>9, <1>10, <1>11, <1>12, <1>13, <1>14 DEF BackfillNext, EndCall
<1> QED
  BY <1>15, <1>16 DEF SeamInv, Core, Read, Told

\* A backfill that is not refused has every height of the cache window from its start on,
\* in rising order, and rows of one process at adjacent heights are parent and child, also
\* where archive and cache meet: for every tree, window, capacity, retention and schedule,
\* whatever reorg, eviction, prune, failed write or restart fell between the three reads.
THEOREM BackfillIsLinked == BackfillSpec => []BackfillLinked
<1>1. BackfillInit => SeamInv
  <2> SUFFICES ASSUME BackfillInit PROVE SeamInv
    OBVIOUS
  <2>1. LinkedInv
    BY LinkedStart DEF BackfillInit
  <2>2. /\ canonical = <<>> /\ last_irreversible_height = None /\ outbox = <<>>
        /\ channel = <<>> /\ tap.items = <<>> /\ DOMAIN archive = {}
        /\ ~ fed /\ CacheInit
    BY DEF BackfillInit, ArchiverInit, ServiceInit, EngineInit, FreshRing, EmptyArchive
  <2>3. FedStory(FreshView)
    BY <2>2, FedAnew DEF Anew, CacheInit
  <2>4. CacheInv /\ Placed(cache)
    BY <2>2, CacheStart DEF CacheInit, Placed, EmptyCache
  <2>5. Keyed
    BY <2>2, FS_EmptySet DEF Keyed
  <2> QED
    BY <2>1, <2>3, <2>4, <2>5 DEF BackfillInit, SeamInv, IsWindow, BackfillLinked
<1>2. SeamInv => BackfillLinked
  BY DEF SeamInv
<1>3. BackfillSpec => []SeamInv
  BY <1>1, SeamStep, PTL DEF BackfillSpec
<1> QED
  BY <1>2, <1>3, PTL
=============================================================================
