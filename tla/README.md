# A TLA+ verification of lightcycle

lightcycle is a relayer for the TRON chain. It polls a java-tron node over gRPC, keeps the
recent canonical chain in memory, turns what it sees into a reorg-aware stream
(`New` / `Undo` / `Irreversible`), and serves that stream and single blocks to firehose
clients, from a block cache and a disk archive where it can. This directory holds TLA+ models
of those parts, from the messages of the node to the events a client decodes and from the start
of the process to its exit, the TLC configurations that check them, and TLAPS proofs: from the
reorg engine and the block cache, on which everything else rests, over the stream contract and the
service to the archive, the backfill of clients, the messages of the node and their events, the cursor
store and the running process.

Paths below are relative to `src/crates/`.

## 1. Inventory

### The parts and how they interact

```
 java-tron ──gRPC──> RelayerService.tick_once ──> ReorgEngine.accept / set_solidified_head
                        │   │    │                        (canonical buffer, fork ledger)
   SR-set refresh ──watch   │    └─ outputs, one at a time ─┐
   solidified head  <─watch─┘                               ├─> horizon observer (seen_at)
                                                            ├─> BlockCache (Arc<RwLock>)
                                                            └─> mpsc(256) ─> Hub pump ─> broadcast
                                                                                          │
      ┌────────────── Stream.Blocks sessions (cache backfill, archive backfill, live) <───┤
      │                                                                                   │
   clients            Fetch.Block: archive -> cache -> upstream RPC -> cache fill         │
                                                                                          │
                      Archiver <── Irreversible ──────────────────────────────────────────┘
                         └─> BlockArchive (redb) <── retention task
```

| Component | State | Operations | Correct when |
|---|---|---|---|
| reorg engine (`lightcycle-relayer/src/engine.rs`) | canonical buffer and its id index, last irreversible height, solidified head, fork history, next fork id | `accept`, `set_solidified_head` | the buffer is one branch; finality is complete, ordered, never undone; every fork observed is resolved once |
| relayer service (`lightcycle-relayer/src/service.rs`) | where the tick is, outputs not yet sent, watch channels | `tick_once`, with a send per output | nothing is lost, repeated or reordered on the way to the channel; a tick ends |
| horizon observer (`lightcycle-store/src/consistency.rs`) | pending `seen_at` | `observe_seen`, `observe_finalized` | bounded, and a finalized block is not pending |
| block cache (`lightcycle-store/src/cache.rs`) | `by_height`, `by_id` | insert, lookups, `remove_by_id`, `prune_below` | the maps are inverse, bounded, lose the lowest height first |
| witness verification (`lightcycle-codec/src/sigverify.rs`) | none | `verify_witness_signature` | a rejected block reaches neither engine nor stream |
| SR-set refresh, retention (`lightcycle-cli/src/main.rs`) | SR-set watch; none | periodic tasks | a refresh between two reads is harmless; retention keeps its window |
| hub (`lightcycle-firehose/src/hub.rs`) | broadcast ring | `pump`, `subscribe` | a subscriber gets everything in order or is told it lagged |
| `Stream.Blocks` (`lightcycle-firehose/src/server.rs`) | a session | subscribe, backfill, live tail, cursor resume | the client's chain has no gap and no block it cannot place |
| `Fetch.Block` and its oracles (`server.rs`, `oracle.rs`, `main.rs`) | a call; fills the shared cache | probe, upstream, fill | the fill harms no other reader |
| archive and archiver (`lightcycle-store/src/archive.rs`, `lightcycle-firehose/src/archiver.rs`) | redb table | put, get, range, delete_below | what is stored is one branch, and survives restarts |
| cursor (`lightcycle-relayer/src/cursor.rs`) | none | `to_bytes`, `from_bytes` | a blob parses to the block it was made for, another length to nothing |
| cursor store (`lightcycle-store/src/cursor_store.rs`) | redb table | put, get, delete, list, len | a read is the table at one moment, not before what was acknowledged; survives crashes |
| codec (`lightcycle-codec/src/`) | `EventRegistry` of a client | decode of blocks, transactions, infos, events; `register_signature` | nothing is half decoded; events come out as they were emitted |
| encoder (`lightcycle-firehose/src/encode.rs`) | none | `encode_block` | every transaction has its own receipt or none; kind, time and finality survive |
| gRPC source and block fetcher (`lightcycle-source/src/grpc.rs`, `lightcycle-relayer/src/service.rs`) | client handles | block RPC, then info RPC | a failure of the second never costs the block |
| RPC head poller (`lightcycle-source/src/rpc.rs`) | watch of the last head | tick, request, publish | the watch comes to show the node's head |
| health server (`lightcycle-cli/src/health.rs`) | a task per connection | accept, handle | readiness, once given, stays |
| process (`lightcycle-cli/src/main.rs`) | the main task, what it has spawned | start-up stages, interrupt, joins | the pipeline is up while it serves; an interrupt ends it |

What is hard here: the relayer, the pump, every client session, the archiver, the retention
task and the fetch calls are tokio tasks that interleave at every `await`; they share the cache,
which is read in several separately locked reads; heights stand for blocks in filters and
cursors although a reorg changes the block at a height; the stream starts from nothing after a
restart while the archive and the clients' cursors do not; the broadcast ring overwrites what a
slow receiver has not read; a block and its transaction infos come from two RPCs that name a
height; one malformed part of a message decides over the rest of it; and the tasks of the process
wait for each other in a circle that only time-outs break. `PROJECT.json` lists these hazards with
the line where each bites and the properties that watch it.

## 2. The modules

| Module | Models | State and actions |
|---|---|---|
| `Chain` | the block tree of the node (external) and `FinalityTier::derive` | constants only |
| `ReorgEngine` | `engine.rs` | the fields of `ReorgEngine` and `ret`, the result of the last call; one action per outcome of the two methods |
| `ReorgStream` | the promise of the stream, without buffers or windows | the receiver's `chain` and its `final` prefix |
| `Consumer` | a client that applies outputs in order (external) | operators `Apply`, `Replay` |
| `ReorgEngineStream` | engine and consumer | shows that the engine implements `ReorgStream` |
| `BlockCache` | `cache.rs` | one record with both maps; every method is one action, as the lock makes it |
| `RelayerService` | `service.rs`, the horizon observer, verification, the SR-set task | a step is what runs between two awaits: `phase`, `outbox` and `fed` say where the task is |
| `RelayerServiceStream` | service and the consumer behind its channel | adds the consumer's view |
| `Hub` | `hub.rs` and tokio's broadcast ring | operators on one receiver's backlog |
| `StreamService` | `Stream.Blocks` without archive, on top of the relayer, with a client that reconnects by the cursor blob it was sent | subscribe, read window, walk cache, deliver backfill, live tail, lag, hang up |
| `BlockArchive` | `archive.rs` | operators, one per transaction |
| `Archiver` | the archiver, the retention task, restarts | composes service, hub and archive; the archive alone outlives `Restart` |
| `ArchiveBackfill` | the archive stage of `Stream.Blocks` | three reads on top of `Archiver` |
| `FetchService` | `Fetch.Block`, caching and upstream oracle | probe, upstream answer and fill on top of `Archiver` |
| `FetchBackfill` | `Fetch.Block` and the backfill of `Stream.Blocks` over one cache | composes `FetchService` and `ArchiveBackfill` |
| `Codec` | `block.rs`, `transaction.rs`, `tx_info.rs` | operators, one per function; a result is `Ok` or the first error |
| `Encoder` | `encode.rs` | operators, one per function |
| `Ingest` | `GrpcBlockFetcher::fetch_now_block` over `GrpcSource`, followed to the block a client is sent | the node's head, the call between its two RPCs |
| `EventDecoder` | `events.rs`, `abi.rs` | the registry; one action, `RegisterSignature` |
| `IngestEvents` | a client that registers signatures while blocks arrive; what a contract emits and its ABI encoding (external) | composes `Ingest` and `EventDecoder` |
| `Cursor` | `cursor.rs` | operators, used by `StreamService` |
| `CursorStore` | `cursor_store.rs`, with redb's transactions (external) | the committed table of opaque blobs, the writer, a call per task; a call is begin, work, commit, return; `Crash` |
| `StoreCrate` | block cache and cursor store, which share nothing | a behaviour uses one of the two |
| `Process` | the main task, exit and SIGINT | shared by the two below |
| `HeadPoller` | `rpc.rs` and `run_stream` | ticker, request, watch |
| `RelayProcess` | `run_relay`, `health.rs`, `serve` of the gRPC server | start-up stages, the running tasks and what each waits for, open streams, probes, joins |
| `Cli` | `main`, `run_inspect` | composes the two; the subcommand is chosen in `CliInit` |
| `ReorgEngineProofs` | | induction; what replaying a call's outputs does to a receiver; proofs about the engine |
| `ReorgEngineStreamProofs` | | the engine implements its stream and conserves its ledger |
| `RelayerServiceStreamProofs` | | proofs about the cache, the service, the observer and the cache behind it |
| `StreamServiceProofs` | | the cursor reads back; proof about the client of `Stream.Blocks` |
| `ArchiverProofs` | | proofs about archiver, retention, `Fetch.Block` and the backfill |
| `IngestProofs` | | proofs about the fetch, the codec, the encoder and the event decoders |
| `CliProofs`, `CursorStoreProofs` | | proofs about the process and the cursor store |
| `MCTree`, `MC*` | | block trees and constants of the TLC instances |

Names follow the source. In the modules of the stream a block is its id with its height and its
parent: payload, transactions and logs are carried by the engine, the cache and the sessions
without being read. They are the subject of `Codec`, `Encoder` and `Ingest`, where byte fields are
sequences whose length matters (words, addresses and heights have the lengths `WordLen`,
`AddressLen`, `HeightLen`), and fields that are copied and never looked at travel as one value,
`rest`. A signature text is given by its tokens. Hashes are inputs: a message carries the digest
of its bytes, and `Keccak` is a constant. Definitions with a suffix (`Excess_Late`, `LiveFilter_None`, ...) are variants with a
plausible bug; they stand before the definition they vary and nothing uses them. With a variant
in the place of the original, the property it is paired with in `PROJECT.json` fails, which is
how the properties are known to say something.

## 3. What is checked

### Runs that pass

| Run | Instance | Shows |
|---|---|---|
| `engine` | engine and consumer; tree of ten blocks: main branch of five, forks at two heights, one orphan; window 3, depth 2; heads 0..4; fork ids modulo 3; ledger up to 3 | `TypeOK`; the buffer is one indexed branch (`CanonicalIsABranch`); what is at or below the head has been fired (`FinalityComplete`); a fired block is never undone (`UndoNeverFinalized`); Irreversible rises within and across calls (`IrreversibleRises`); only fired blocks are pruned while the head keeps up (`PruneOnlyFinal`); the fork ledger loses no fork the buffer still covers and invents none (`LedgerConserved`); a consumer can apply every output and its chain ends in the engine's buffer (`ConsumerInStep`), and it changes only as `ReorgStream` allows (`ImplementsStream`) |
| `store` | cache: capacity 3, four heights, five ids, two values; cursor store: two tasks, two consumers, two blobs, three commits, crashes at any point | cache: `CacheTypeOK`; inverse indexes (`IndexesAgree`), bound (`WithinCapacity`), eviction from below (`EvictsOldest`). Cursor store: what a read returns is the table at one moment between its begin and its end, and not before what had been acknowledged (`ReadsAreSnapshots`) |
| `service` | tree of six with fork and orphan; a channel of one place; lenient verification with a mismatching and a malformed signature; SR-set changes; failing RPCs; the receiver may go away; fair scheduler | nothing lost, repeated or reordered (`StreamIntact`); the cache is the newest part of the chain at every await (`CacheIsChainSuffix`); finalized blocks are not pending in the observer (`HorizonClosed`); a tick that began ends (`TicksComplete`) |
| `stream_blocks` | chain of four, hub of two, cache of two, two connections, live or from height 2; cursors of two ternary digits of height, so that a carry happens, and two of id | `ClientInStep`: without reorgs (`OneBranch`, which holds of this chain), a client that lags, hangs up and resumes by its cursor gets a chain without gap that starts no later than asked |
| `archive` | fork tree of four, hub of one, failing writes, one restart, retention 1, walk limit 2 | rows of one process are linked (`ArchiveLinked`); retention keeps its window (`RetentionKeepsWindow`); what the three reads of a backfill put together is linked and complete above the window's floor, or refused (`BackfillLinked`) |
| `fetch` | fork tree of four, cache of two, fetches of heights 1 and 2, a backfill from height 1 | a backfill over a cache with fills that race the relayer is refused or has no hole (`BackfillGapless`) |
| `ingest` | seven heads: two siblings that share a transaction, contracts of 64 tags (every tag of the vendored enum, its holes and both sides of it), negative number and time, a block without transactions, two that do not decode; infos in any order, twice, foreign or malformed; standard transfers and approvals, and events of the same signature that index other values; thirteen signature texts, good and bad, two registrations | a block is shipped exactly when it decodes, whatever happens to its infos (`InfosNeverHaltStream`); all answered infos are joined to their own transactions, or none (`ReceiptsJoined`); with a node that stayed on its branch every transaction has its own receipt (`OwnReceipts`); contract type, payload, id, time and finality survive (`WireFaithful`); events come out as emitted (`EventsEndToEnd`); every standard transfer and approval is recognised, and no log of another signature or number of topics is taken for one (`UniversalEvents`) |
| `process` | all combinations of the flags that decide what is wired, one open stream, two probes; node numbers missing, negative and positive | service and pump are up while the process serves, whatever else fails (`PipelineUp`); readiness does not flap (`ReadyStays`); the head watch follows a node that settles (`WatchConverges`); an interrupt ends the process from every state (`InterruptStops`) |

The trees are small but hold the cases that matter: a fork, a fork in a fork's shadow (Wide), a
block whose parent never arrives, a branch that overtakes, and more blocks than the window, the
cache and the ring hold, so that pruning, eviction and lag happen. Every channel has its smallest
capacity, which is where senders block and rings overwrite. Windows are the smallest that
satisfy the assertion of `ReorgEngine::new` and still allow a reorg. Bounds of the model that are
not in the code are named: `MaxForkHistory` (the code never caps the ledger), `MaxConnects`,
`MaxRestarts`, `MaxCommits`, `MaxRegister`, `MaxStreams`. Fork ids keep their wrap-around, with a
small modulus. In `fetch` no block becomes final, so that the archive stays out of the window the
fills disturb; the archive side is run `archive`. In `store` three commits are what it takes for a
`list` to mix two tables that no single commit explains. In `ingest` words of three bytes leave
room for a padded and an unpadded topic and for an address with a byte in front of it that must be
ignored.

`CHECK_DEADLOCK FALSE` stands where the system may stop: after the receiver of the channel is
gone the service returns, a client or the node may stop acting, and the process exits. The engine
and its stream, the stores and the way of a block from the node to the client are checked for
deadlock.

Fairness is assumed in `service`, `process` and `gap` only. The service task is weakly fair: tokio polls a
task whose future is ready, and both RPCs end, one way or the other, within the connect and call
time-outs of `lightcycle-source/src/grpc.rs`. The receiver of the channel is weakly fair because
the pump never waits for a subscriber (`broadcast::send` does not block). `gap` assumes, in
addition, that the block RPC succeeds again and again, since its question is what happens when
it does. In `process` the main task is weakly fair, its timers included: `InterruptStops` assumes
nothing of clients, of the node or of the other tasks. For `WatchConverges` the ticker and the end
of a request are weakly fair, because the HTTP client has a time-out of ten seconds, and a success
is strongly fair: a node that never answers moves no watch.

### Runs that find a disagreement

Each states what a comment says and shows a behaviour of the code that differs. `PROJECT.json`
quotes the lines.

| Run | What the code does |
|---|---|
| `gap` | after one missed block the stream never moves again, instead of skipping forward |
| `reorg_after_backfill` | the Undo of a backfilled block, and the New that replaces it, are dropped by the live filter |
| `resume_across_reorg` | a client whose block was orphaned while it was away is sent the New of the other branch at the next height, with no Undo before it and none under way |
| `stale_branch_final` | a block of an orphaned branch can be declared Irreversible, and archived, because finality is decided by height |

`resume_across_reorg` looks only at News that are shipped while no Undo of the client's last block is in
the outbox, the channel or the ring, so a late Undo is not counted as a missing one, and a server
that sent the Undos first would pass.

### Disagreements seen while modelling, without a run

The first three are stated in the modules and TLC refutes each with the instance of a run, named as its
only invariant and with the constants given here:

- `LedgerBounded` (`ReorgEngine`; instance of `engine` with `BufferWindow = 2`, `FinalityDepth = 1`): a
  pending observation may be older than the front of the buffer, by more than one height of slack. The
  comment at `engine.rs:221-223` says "Bounded by buffer_window + a small slack — observations older than
  the buffer can no longer be resolved against canonical state and are dropped silently"; only the
  solidified head drains the ledger (`engine.rs:568`), so it grows with each reorg while finality stalls. In
  the counterexample a fork is observed at height 2, the branch grows to 5, and the observation is still
  pending when the buffer begins at 4.
- `CacheCanonicalOnly` (`FetchService`; instance of `fetch` with `Capacity = 3`): dropping orphans on
  Undo "keeps the cache reflecting canonical-only state at all times" (`cache.rs:153-154`), but a fill of
  `Fetch.Block` that comes back after node and relayer have changed branch puts its orphan in the place of
  the canonical block (`oracle.rs:153`). A block of the branch the node is on counts as canonical here, so
  a fill that is merely ahead of the relayer is no violation.
- `MisshapenDeclined` (`IngestEvents`; instance of `ingest`): a log "with the same topic hash but a
  different shape" is declined (`events.rs:80-82`), but only the number of topics and the length of the
  data are looked at (`events.rs:84`), so a `Transfer` that indexes the sender and the amount is taken for a
  TRC-20 transfer, with the amount as receiver and the receiver as amount.

The others are not stated as formulas:

- `maybe_resolve_forks` drains the ledger from the front only, so an observation at or below the
  head stays pending behind an older one at a greater height (`engine.rs:568`; comment at 262).
- After a switch and a switch back, `ForkResolved.finalized_tip` names the orphaned tip
  (`engine.rs:576`; comment at 95).
- `tick_once` sends the node's answer to the solidified-head watch before the engine ignores it as
  a regression, so the tier of a cached block can fall back (`service.rs:370`;
  `lightcycle-types/src/lib.rs:78`).
- The live filter drops the Irreversible of a backfilled block, which was never shipped
  (`server.rs:351`; comment at 346).
- With an empty backfill there is no de-duplication, and the cache runs ahead of the hub, so a
  client can get a block below its start (`server.rs:339`; `proto/firehose/firehose.proto:59`).
- After a restart that follows a wrong Irreversible, `put` overwrites a row with another block
  (`archive.rs:151`; comment at 144). A frame the archiver lost to lag is never sent again
  (`archiver.rs:92`; comment at 46).
- A request below the archive is answered from the first row above it (`server.rs:209`;
  `archive.rs:18`).
- A fetched old height leaves a hole in the cache window, and every walk across it is refused until
  the fill is evicted (`server.rs:273`, where the comment expects a rare eviction in mid-walk and
  the message says to retry).
- What became final while the process was down is not archived: on a cold start the buffer is empty
  and begins at the node's head (`archiver.rs:41` says it is re-emitted "by walking its canonical
  buffer").
- A fill of `Fetch.Block` can replace a cached block that has its infos by one without
  (`main.rs:829`).
- `/readyz` can answer 200 before any block was fetched: the head is asked for first in a tick, and
  a failing block RPC does not take it back (`health.rs:19`: "all three become true together").
- The encoder looks infos up and removes none (`encode.rs:28`), so a transaction that occurs twice
  would get its info twice.
- `decode_trc721_transfer` does not look at the data it "expects to be empty" (`events.rs:117`).
- With a solidified head of 0, block 0 is FINALIZED and the head on the wire is 0, which stands for
  unset and "never FINALIZED" (`block.proto:330`). `WireFaithful` allows this one block.
- A negative number becomes height 0 under an id that begins with the negative number
  (`block.rs:109`, `117`); a negative time becomes negative nanos (`encode.rs:240`), which
  protobuf's Timestamp does not allow.
- `CodecError::UnknownContractType` is never produced: an unknown tag is kept (`error.rs:43`).
- After a change of branch between the two RPCs a transaction of both branches is shipped with the
  outcome it had on the other one (`service.rs:156`): the second RPC names a height.
- `cursor_store.rs:24` and `lightcycle-types/src/lib.rs:179` describe a cursor with a fork id; the
  cursor of the stream has 40 bytes without one, `from_bytes` refuses any other length, and nothing
  in the repository puts cursors into the store, which takes any bytes.
- The composite handle waits for a pump that only ends with the process, so neither it nor the
  archiver and retention tasks are aborted on shutdown (`main.rs:687`, `700`), and in log-only mode
  the drain is joined for its full three seconds. `run_stream` drops the handle of the poller,
  whose unexpected return `rpc.rs:86` calls fatal.

## 4. What is proved

The proof modules hold for every value of the constants: every tree, window, capacity, number of
tasks and flag, and every schedule. Of the 33 properties the passing runs check, 30 are theorems:

| Theorem | Property | Specification | Inductive invariant |
|---|---|---|---|
| `TypeCorrect`, `BufferIsABranch`, `FinalityIsComplete` | `TypeOK`, `CanonicalIsABranch`, `FinalityComplete` | engine | `IInv` |
| `UndoIsAboveFinality`, `IrreversibleInOrder`, `PrunedIsFinal`, `LedgerIsConserved` | `UndoNeverFinalized`, `IrreversibleRises`, `PruneOnlyFinal`, `LedgerConserved` | engine | `IInv` |
| `ConsumerStaysInStep`, `EngineImplementsStream` | `ConsumerInStep`, `ImplementsStream` | engine and consumer | `StreamInv` |
| `CacheTypeCorrect`, `CacheIndexesAgree`, `CacheBounded`, `EvictionTakesOldest` | `CacheTypeOK`, `IndexesAgree`, `WithinCapacity`, `EvictsOldest` | cache | `CacheInv` |
| `ServiceStreamIntact` | `StreamIntact` | service and consumer | `IntactInv` |
| `HorizonIsClosed` | `HorizonClosed` | service | `HorizonInv` |
| `CacheHoldsChainSuffix` | `CacheIsChainSuffix` | service and consumer | `SuffixInv` |
| `ClientStaysInStep` | `ClientInStep` | relayer and `Stream.Blocks` | `FirehoseInv` |
| `RetentionHolds` | `RetentionKeepsWindow` | archiver | `TapInv` |
| `ArchiveIsLinked` | `ArchiveLinked` | archiver | `LinkedInv` |
| `BackfillHasNoHole` | `BackfillGapless` | archiver, `Fetch.Block` and backfill | `GapInv` |
| `BackfillIsLinked` | `BackfillLinked` | archiver and backfill | `SeamInv` |
| `InfosNeverHalt`, `ReceiptsAreJoined`, `ReceiptsAreOwn`, `WireIsFaithful` | `InfosNeverHaltStream`, `ReceiptsJoined`, `OwnReceipts`, `WireFaithful` | fetch and events | `CallInv` |
| `EventsArriveAsEmitted`, `UniversalEventsRecognised` | `EventsEndToEnd`, `UniversalEvents` | fetch and events | `CallInv`, and `RegInv` for the first |
| `PipelineStaysUp`, `ReadinessStays` | `PipelineUp`, `ReadyStays` | process | `ProcessInv`, `ReadyInv` |
| `ReadsSeeOneMoment` | `ReadsAreSnapshots` | cursor store | `StoreInv` |

*Assumptions.* Each is an `ASSUME` of the module that declares the constants, and TLC evaluates it
on the runs of that module. `ChainAssumption`: a block is one above its parent, which is the
chain's rule. `EngineAssumption`: the window is greater than the finality depth, which
`ReorgEngine::new` asserts. `CacheAssumption`, `HubAssumption`: capacities are positive, as the
constructors demand. `ServiceAssumption`: the channel has room and the observer a bound; blocks and
their entries are among what the cache can hold. `StreamAssumption`: a start block is a number,
and the heights of the chain, the one after each and the ids are what the types `u64` and `[u8; 32]` hold. `ArchiverAssumption`, `FetchAssumption`,
`BackfillAssumption`: retention, heights and the walk limit are numbers. `CursorAssumption`: the radix is at least 2, and
heights and ids have a length. `CursorStoreAssumption`: consumers are numbers, and the writer may be nobody. `CodecAssumption`: an address is
at most one byte longer than a word, and a height shorter than one. `IngestAssumption`: a message has
the shape protobuf gives it (repeated fields are lists, numbers are integers), a digest has the length of a
word, and the node has a receipt for each transaction of its blocks. `EventAssumption`: no two texts
have one Keccak digest; the logs of a receipt are the ABI encoding of what the contract emitted, where
leading zeros of a topic may have been cut off. Which values a contract indexes is its own
choice, also where its event has the signature of a TRC-20 or TRC-721 transfer or approval.

*Induction.* The provers cannot instantiate the induction theorems of the library, which take an
operator. They can reason about sets: `ReorgEngineProofs` derives, from the definition of the naturals,
that a non-empty set of naturals has a least member (`LeastNat`), and from it `SetInduction`: a set
that holds 0 and with every number its successor holds all of them. An inductive statement is then
the claim that a number is in the set of those it holds for. This is how the recursive
functions are dealt with: `Replay` (a receiver's state after a sequence of outputs), `Carried` (the
observations a sequence of outputs carries), `Nth` over sets of heights, and the digits of a cursor.

*The engine.* The inductive invariant is

    IInv == TypeOK /\ CanonicalIsABranch /\ Contiguous(canonical) /\ FinalityComplete

The branch property alone is not enough: `accept` finds ancestors by walking back over parents and
decides finality by height, so the two views of the buffer must agree. `Contiguous`, heights
counting up by one from the first entry, ties them together.
Finality is needed for the reorg case: the orphans of a reorg are a suffix of the buffer that
starts above the last irreversible height only because the ancestor walk refuses to go below it,
and everything at or below the head has already been fired. Each of the helpers (`WalkLen`,
`FreshlyFinal`, `Settle`, `Pruned`, `Orphans`, ...) has a lemma that says what it returns;
`StepPreserves` has one step per action and uses only those lemmas. The action properties
follow from the invariant in the state before the step. For `LedgerConserved` the outputs of a call
are taken apart into those before, within and behind the resolutions, and `Carried` is computed over
each part: what `maybe_resolve_forks` drains is a prefix of the ledger, and what it leaves, with what
the call observed, is the ledger after it. The property itself asks this only of the forks the buffer still
covers: a comment of the code has older ones dropped, which `LedgerBounded` states and the code does not do.

*The stream.* `ConsumerInStep` says that the receiver's chain ends in the engine's buffer, and a reorg
needs more: that the chain is itself a branch and that its final prefix ends where the engine's guard
believes it ends. `InStep` adds both, and `StreamInv` is `IInv` with `InStep`. Per outcome of a call
one lemma replays its outputs: the Undos retract exactly the orphans, the News extend the
chain by the new branch, the Irreversibles move the mark over the blocks in order. The refinement
of `ReorgStream` falls out of the same lemmas, since each says by which kind of move the receiver
got to its new state.

*The service.* In between are an outbox and a channel. `IntactInv` says that the receiver, once all
that is under way has arrived, will be in step with the engine; sending and receiving
move an output from one sequence to the next and leave that outcome alone, and a call of the engine
appends to it what `StreamInv` has shown to be right. `HorizonInv` adds that the Irreversible which
closes an open measurement is still under way and behind the New that opened it. `SuffixInv` adds what is
hard about the cache: while the Undos of a reorg are being fed the cache may hold less than the
buffer, and it does not lose a block the buffer still holds, because the New of a call is its last change
of the chain, so that evictions come after the removals (`NewIsLast`, `HeldSuffix`).

*The client.* `ClientInStep` is about a tree without forks (`OneBranch`: one block at a height, the child of
the block below it). With forks it is false, which the runs `reorg_after_backfill` and
`resume_across_reorg` show, so the property states the hypothesis itself and the theorem has no other.
There the engine, the cache, the channel and the ring of the receiver are views of one chain, each
behind the one before it. `Runs(q, a, b)` says that the outputs `q` carry a chain from height `a` to
height `b`: every New is the next block, no Undo, every Irreversible at or below what has been carried.
`FirehoseInv` says how far the chain has come at each of the five places, and that
what a session ships before its live tail meets the tail: a window read
after the subscription reaches at least as far as the receiver has, so the first live block is a repeat or the
next one. De-duplication by height is harmless because it only drops what is not above a client's newest block, and a
resumed session fits because the cursor is never ahead of the client's chain, and because its
blob reads back as the block it was made for: cutting digits off a height and putting them together again
gives the height, for every radix and every width it fits (`CursorReadsBack`, `CursorResumes`). A receiver that has lagged is
claimed nothing of: its session ends before another live block. After the channel has closed, what the
service still feeds to the cache never reaches the hub, and nothing later does.

*The archive.* A row is written long after the engine has fired it, behind a channel and a lossy ring,
and a restart begins a new story. `LinkedInv` says that there is a receiver's state, the outcome of all
this process has returned so far, in which every Irreversible under way and every row of this
life is final (`FinalStory`). Two such rows at adjacent heights are neighbours of one final branch,
hence linked. Rows of earlier lives are only compared with each other, and are not touched except by
deletion or by being overwritten with a row of this life. Retention follows from the types and
from the watch never running ahead of the chain.

*The seam of archive and cache.* `BackfillLinked` is about the block the archive ends with and the one the
cache begins with, which were read at different moments and got there on different ways.
`SeamInv` puts both in one story: a receiver's state that continues what the outbox and the channel hold,
in which the rows already read are final, so that a block of the window read later that stands one
height above the last row has it as its parent. The story goes on through a restart: the new process
begins with the buffer empty, and rows of an earlier life are only claimed to be linked where
`ArchiveLinked` does.

*The shared cache and the backfill.* The auxiliary invariant `SharedInv` keeps the invariant of the cache and puts every
block at its own height, under both writers; that the blocks are canonical is not so (`CacheCanonicalOnly`). `GapInv` adds what each of the three reads leaves
for the next: a window that is an interval, and archive rows that rise and end below it. Nothing is
assumed of the cache between the reads: that the third read finds every height it needs is checked by the code
itself, and the theorem shows that this check is enough. The lemmas `NthSpec`, `LeastGreatest` and
`IntervalNth` say what counting a finite set of heights from below means.

*The messages and their events.* `CallInv` says what a call holds between its two RPCs and after them: a
block the node had as its head, decoded, and infos of a block at its height or none. What it ships
follows from lemmas about the operators: a `?` chain is `Ok` exactly when each of its parts is (`TryOk`),
the table of contract kinds and that of their tags on the wire are inverse where the decoder knows the tag
(`KindsRoundTrip`), and a lookup by transaction id finds the info of that transaction and no other. For
the events, `RegInv` says that the registry maps the digest of each registered signature to its
parsed form; a topic that lost leading zeros is padded to the word that was emitted (`PadRestores`), and the
decoder takes topics and data words in the order of the parameters, as the encoding has put them.
`UniversalEvents` needs no such registry: the first topic tells the signature, and the number of topics how
many values are indexed (`TopicsTell`). Four topics leave no choice which, so a TRC-721 transfer is recognised
exactly; three leave three choices, of which the standard one is decoded to what was emitted and
another may be misread (`MisshapenDeclined`).

*The process.* `PipelineUp` speaks of the serving process; it rests on the order of the stages and on
service and pump waiting for each other from the stage that spawns them on (`ProcessInv`).
`ReadyStays` relates a probe to one that was answered earlier and may be gone; the link between them
is the head, which once known stays known (`ReadyInv`).

*The cursor store.* `StoreInv` keeps, for a read in progress, that it works on one of the tables
committed since the moment its call began, that what a `list` has copied so far is what that table holds there, and
that acknowledged commits are in the history. The blobs are arbitrary.

*The cache.* The invariant is that both maps are finite and each other's inverse and that there are
at most `Capacity` heights. The bound after an eviction is a counting argument: the heights the
eviction leaves are told apart by the number of heights above them, which is less than `Capacity`,
so there is an injection into `0 .. Capacity - 1`.

*Only model-checked.* Liveness (`TicksComplete`, `WatchConverges`, `InterruptStops`), which is beyond
the prover.

## 5. What is not modelled

ECDSA recovery, SHA-256 and Keccak (inputs of the model); the wire format below a message: bytes
that are not a protobuf message are an error at once; metrics, logging, printing and argument
parsing; redb's internals (a transaction is atomic and isolated); `DecodedEvent::value`, a lookup
by name; the durations and the `ConsistencySource` trait of the horizon observer, which nothing
calls; `put_batch`, `min_height` and `len` of the archive, which only tests and start-up logging
call; base58 and the other conversions of `lightcycle-types`; `EndpointInfo`, which answers with
constants; the P2P source, which is empty; generated code. Of the process: a task that panics, an error of
`ctrl_c()`, which `main.rs:727` discards and so takes for an interrupt, and the panic of
`ReorgEngine::new` on flags that break its assertion (`engine.rs:233`, called at `main.rs:491`), which
the engine's model has as `EngineAssumption`. Memory growth outside the ledger and
wall-clock durations are not modelled. `InfosNeverHaltStream` speaks of one call; that a block
which never decodes is a gap the stream cannot cross is run `gap`.

## 6. Plan

Done: engine, its stream, stores, service, hub, `Stream.Blocks`, archiver, archive backfill,
`Fetch.Block`, codec, encoder, event decoders, the fetch of infos, the head poller, the health
server, start-up and shutdown; 30 theorems, one for each safety property the passing runs check.

Left: `Stream.Blocks` with archive, live tail and reorgs in one module, in place of the two halves.
