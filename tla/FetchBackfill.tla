--------------------------- MODULE FetchBackfill ---------------------------
(***************************************************************************)
(* Fetch.Block (FetchService) and the backfill of Stream.Blocks            *)
(* (ArchiveBackfill) over one cache: the fills of the first land in the    *)
(* window the second walks, at heights the relayer never wrote, and        *)
(* between its reads.                                                      *)
(***************************************************************************)
EXTENDS FetchService, ArchiveBackfill

fetchBackfillVars == <<fetchVars, backfillOnly>>

FetchBackfillInit ==
    FetchInit /\ stage = "off" /\ from = 0 /\ window = {} /\ rows = <<>>

\* blocks, from await to await.
BackfillStep ==
    \/ \E h \in StartBlock : Ask(h)
    \/ ReadCacheWindow
    \/ WalkArchive
    \/ WalkCacheWindow
    \/ EndCall

FetchBackfillNext ==
    \/ FetchNext /\ IF life' = life THEN UNCHANGED backfillOnly ELSE Idle
    \/ BackfillStep /\ UNCHANGED fetch

FetchBackfillSpec == FetchBackfillInit /\ [][FetchBackfillNext]_fetchBackfillVars

-----------------------------------------------------------------------------
(* Properties *)

\* A backfill over a cache with foreign fills is refused or has no hole a client
\* could not see: from the first height of the window that it ships on, the heights
\* rise by one up to the top of the window, where the live tail takes over; below
\* the window they rise.  (The blocks need not be linked: a late fill may be an
\* orphan.)
BackfillGapless ==
    stage = "done" =>
        /\ \A i \in 1 .. Len(rows) - 1 :
              IF RowHeight(rows[i + 1]) \in window /\ RowHeight(rows[i]) \in window
              THEN RowHeight(rows[i + 1]) = RowHeight(rows[i]) + 1
              ELSE RowHeight(rows[i + 1]) > RowHeight(rows[i])
        /\ {h \in window : h >= from} \subseteq {RowHeight(rows[i]) : i \in DOMAIN rows}
        /\ window # {} /\ rows # <<>> =>
              RowHeight(rows[Len(rows)]) = Greatest(window)
=============================================================================
