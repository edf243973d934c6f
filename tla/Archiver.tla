------------------------------ MODULE Archiver ------------------------------
(***************************************************************************)
(* lightcycle-firehose/src/archiver.rs and the retention task of run_relay:*)
(* a subscriber of the hub that stores every Irreversible block, on top of *)
(* the relayer, through lag, failing writes and restarts of the process.   *)
(* The archive is all that outlives a restart.                             *)
(***************************************************************************)
EXTENDS RelayerService, Hub, BlockArchive

CONSTANTS Retention,     \* --archive-retention-blocks, 0 keeps everything
          DiskFails,     \* may an archive transaction fail?
          MaxRestarts    \* bound of the model: restarts of the process

ASSUME ArchiverAssumption ==
    Retention \in Nat /\ DiskFails \in BOOLEAN /\ MaxRestarts \in Nat

VARIABLES archive,      \* height -> [id, life]
          tap,          \* the archiver's broadcast receiver
          life,         \* history: restarts so far; a row's life wrote it
          node_solid    \* external: the block the chain has solidified

archiverOnly == <<archive, tap, life, node_solid>>
archiverVars == <<serviceVars, archiverOnly>>

-----------------------------------------------------------------------------
(***************************************************************************)
(* External: the chain.  Its consensus never leaves a solidified block, so *)
(* the node's head descends from node_solid; a solidified head the node    *)
(* reports may be an old one.                                              *)
(***************************************************************************)
Ancestors[b \in Block] ==
    {b} \cup IF Parent[b] \in Block THEN Ancestors[Parent[b]] ELSE {}
Follows(b, s) == s = NoBlock \/ s \in Ancestors[b]
SolidHeight == IF node_solid = NoBlock THEN None ELSE Height[node_solid]

ChainMoves(b) ==
    /\ Follows(b, node_solid)
    /\ NodeMoves(b)
    /\ UNCHANGED archiverOnly

ChainSolidifies(b) ==
    /\ b \in Ancestors[node_head] /\ Height[b] > SolidHeight
    /\ node_solid' = b
    /\ UNCHANGED <<serviceVars, archive, tap, life>>

\* The service, which learns of heads the chain has reached.
RelayerRuns ==
    /\ ServiceStep
    /\ watch_head' <= SolidHeight
    /\ UNCHANGED archiverOnly

\* Hub::pump_from, as the archiver sees it.
PumpToTap ==
    /\ Recv
    /\ tap' = Broadcast(tap, Head(channel))
    /\ UNCHANGED <<archive, life, node_solid>>

-----------------------------------------------------------------------------
(* run_archiver *)

\* Archives a block when it is first seen.
IsArchived_New(o) == o.step = "New"
\* Only Irreversible is archived.
IsArchived(o) == o.step = "Irreversible"

\* recv answered an output: store it, fail to, or ignore it.
ArchiverRecv ==
    /\ tap.items # <<>> /\ ~ tap.lagged
    /\ LET o == Head(tap.items)
       IN  \/ /\ IsArchived(o)
              /\ archive' = ArchivePut(archive, Ht(o.block),
                                       [id |-> o.block.id, life |-> life])
           \/ /\ IsArchived(o) => DiskFails
              /\ UNCHANGED archive
    /\ tap' = [tap EXCEPT !.items = Tail(@)]
    /\ UNCHANGED <<serviceVars, life, node_solid>>

\* recv answered Lagged: go on with what is still there.
ArchiverLags ==
    /\ tap.lagged
    /\ tap' = [tap EXCEPT !.lagged = FALSE]
    /\ UNCHANGED <<serviceVars, archive, life, node_solid>>

\* The retention task's tick: delete below watch head - Retention, saturating.
RetentionFloor(head) == IF head < Retention THEN 0 ELSE head - Retention

PruneArchive ==
    /\ Retention > 0 /\ watch_head # None
    /\ archive' = ArchiveDeleteBelow(archive, RetentionFloor(watch_head))
    /\ UNCHANGED <<serviceVars, tap, life, node_solid>>

\* The process dies at any await and starts again: engine, cache, channel and
\* receivers are new, the archive and the chain are what they were.
Restart ==
    /\ life < MaxRestarts
    /\ life' = life + 1
    /\ UNCHANGED <<archive, node_head, node_solid>>
    /\ canonical' = <<>> /\ canonical_ids' = {} /\ fork_history' = <<>>
    /\ last_irreversible_height' = None /\ solidified_head' = None
    /\ next_fork_id' = 0 /\ ret' = Ok(<<>>)
    /\ cache' = EmptyCache /\ seen_at' = {} /\ watch_head' = None
    /\ phase' = "idle" /\ outbox' = <<>> /\ fed' = FALSE
    /\ channel' = <<>> /\ closed' = FALSE /\ tap' = FreshRing
    /\ sr_set' \in IF VerifyPolicy = "Disabled" THEN {NoSrSet} ELSE SrSets

ArchiverInit ==
    /\ ServiceInit
    /\ archive = EmptyArchive /\ tap = FreshRing /\ life = 0
    /\ node_solid = NoBlock

ArchiverNext ==
    \/ RelayerRuns
    \/ PumpToTap
    \/ ArchiverRecv
    \/ ArchiverLags
    \/ PruneArchive
    \/ Restart
    \/ \E b \in Block : ChainMoves(b) \/ ChainSolidifies(b)

ArchiverSpec == ArchiverInit /\ [][ArchiverNext]_archiverVars

-----------------------------------------------------------------------------
(* Properties *)

\* The rows one process wrote form pieces of one branch: rows at adjacent heights
\* are parent and child, through reorgs before finality, lag, failing writes and
\* pruning, although the archive itself never compares a row with its neighbour.
ArchiveLinked ==
    \A h \in DOMAIN archive :
        h + 1 \in DOMAIN archive /\ archive[h].life = archive[h + 1].life =>
            Parent[archive[h + 1].id] = archive[h].id

\* Retention keeps its promise whatever the watch and the archiver do: a row
\* disappears only when the chain has solidified a block more than Retention
\* above it, also when reported heads fall back and when rows arrive late.
RetentionKeepsWindow ==
    [][\A h \in DOMAIN archive \ DOMAIN archive' :
          h + Retention < SolidHeight]_archiverVars

-----------------------------------------------------------------------------
(* What the docs say and the code does not do *)

\* archiver.rs: an Irreversible block "will not be reorganised"; FinalityTier: the
\* survivor is at or below the head "and matches the solidified-head's block_id by
\* ancestry".  Violated: the engine compares heights only, so a buffer still on an
\* orphaned branch is fired, and archived, as final.
ArchivedIsOnChain ==
    \A h \in DOMAIN archive :
        h <= SolidHeight => archive[h].id \in Ancestors[node_solid]
=============================================================================
