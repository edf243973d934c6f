-------------------------- MODULE ArchiveBackfill --------------------------
(***************************************************************************)
(* lightcycle-firehose/src/server.rs: the backfill of Stream.Blocks with   *)
(* an archive attached.  `blocks` reads the cache window, then the archive *)
(* below it, then the cache, in three reads between which the relayer, the *)
(* archiver and the retention task go on.  The live tail behind it is      *)
(* module StreamService.                                                   *)
(***************************************************************************)
EXTENDS Archiver

CONSTANTS StartBlock,     \* the start heights clients ask for
          WalkLimit       \* ARCHIVE_WALK_LIMIT (5000)

ASSUME BackfillAssumption == StartBlock \subseteq Nat \ {0} /\ WalkLimit \in Nat \ {0}

VARIABLES stage,    \* off, asked, windowed, archived or done: where `blocks` is
          from,     \* start_height
          window,   \* cache_window as a set of heights, {} for None
          rows      \* archive_rows, then the whole backfill

backfillOnly == <<stage, from, window, rows>>
backfillVars == <<archiverVars, backfillOnly>>

Least(S) == Nth(S, 1)
Greatest(S) == Nth(S, Cardinality(S))
RowHeight(r) == Height[r.id]

Idle == stage' = "off" /\ from' = 0 /\ window' = {} /\ rows' = <<>>

\* blocks, up to the subscription.
Ask(h) ==
    /\ stage = "off"
    /\ stage' = "asked" /\ from' = h
    /\ UNCHANGED <<archiverVars, window, rows>>

\* First read: min_height and max_height of the cache.
ReadCacheWindow ==
    /\ stage = "asked"
    /\ stage' = "windowed"
    /\ window' = IF CachedHeights = {} THEN {}
                 ELSE Least(CachedHeights) .. Greatest(CachedHeights)
    /\ UNCHANGED <<archiverVars, from, rows>>

\* The archive is walked below the window; all of it without a window.
ArchiveTop == IF window = {} THEN ArchiveMaxHeight(archive) ELSE Least(window) - 1

\* Second read: archive_walk.
WalkArchive ==
    /\ stage = "windowed"
    /\ stage' = "archived"
    /\ rows' = ArchiveRange(archive, from, ArchiveTop, WalkLimit)
    /\ UNCHANGED <<archiverVars, from, window>>

\* cache_walk_from.
WalkFrom == IF rows = <<>> THEN from ELSE RowHeight(rows[Len(rows)]) + 1

\* Ships what is left of the window instead of refusing.
CacheWalk_Partial(lo, hi) == (lo .. hi) \cap CachedHeights
\* The heights the cache walk reads: all of lo .. hi.
CacheWalk(lo, hi) == lo .. hi

\* Third read: the cache, or a refusal.
WalkCacheWindow ==
    /\ stage = "archived"
    /\ LET walk == CacheWalk(WalkFrom, Greatest(window))
       IN  \/ /\ window = {} /\ rows # <<>>
              /\ stage' = "done"
              /\ UNCHANGED <<from, window, rows>>
           \/ /\ window # {}
              /\ WalkFrom >= Least(window) /\ WalkFrom <= Greatest(window) + 1
              /\ walk \subseteq CachedHeights
              /\ stage' = "done"
              /\ rows' = rows \o [i \in 1 .. Cardinality(walk) |->
                                    [id |-> cache.by_height[Nth(walk, i)].id, life |-> life]]
              /\ UNCHANGED <<from, window>>
           \/ /\ IF window = {} THEN rows = <<>>
                 ELSE \/ WalkFrom < Least(window) \/ WalkFrom > Greatest(window) + 1
                      \/ ~ (walk \subseteq CachedHeights)
              /\ Idle
    /\ UNCHANGED archiverVars

\* The call is over, or its client is gone, or the process has died under it.
EndCall == stage # "off" /\ Idle /\ UNCHANGED archiverVars

BackfillInit ==
    ArchiverInit /\ stage = "off" /\ from = 0 /\ window = {} /\ rows = <<>>

BackfillNext ==
    \/ ArchiverNext /\ IF life' = life THEN UNCHANGED backfillOnly ELSE Idle
    \/ \E h \in StartBlock : Ask(h)
    \/ ReadCacheWindow
    \/ WalkArchive
    \/ WalkCacheWindow
    \/ EndCall

BackfillSpec == BackfillInit /\ [][BackfillNext]_backfillVars

-----------------------------------------------------------------------------
(* Properties *)

\* A backfill that is not refused has every height of the cache window from the
\* start on, in rising order, and rows of one process at adjacent heights are
\* parent and child, also where archive and cache meet and when a reorg, an
\* eviction or a prune fell between the three reads.
BackfillLinked ==
    stage = "done" =>
        /\ {h \in window : h >= from} \subseteq {RowHeight(rows[i]) : i \in DOMAIN rows}
        /\ \A i \in 1 .. Len(rows) - 1 :
              /\ RowHeight(rows[i]) < RowHeight(rows[i + 1])
              /\ /\ RowHeight(rows[i + 1]) = RowHeight(rows[i]) + 1
                 /\ rows[i].life = rows[i + 1].life
                 => Parent[rows[i + 1].id] = rows[i].id
=============================================================================
