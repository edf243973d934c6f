---------------------------- MODULE BlockArchive ----------------------------
(***************************************************************************)
(* lightcycle-store/src/archive.rs: the redb table height -> block that    *)
(* outlives the process.  Every method is one transaction, so one step; an *)
(* archive is a function from the archived heights to rows.                *)
(***************************************************************************)
EXTENDS Integers, FiniteSets, Sequences

EmptyArchive == <<>>

\* BlockArchive::put: overwrites what is stored at the height.
ArchivePut(a, h, row) == [k \in DOMAIN a \cup {h} |-> IF k = h THEN row ELSE a[k]]

\* BlockArchive::get, as the set of what it returns.
ArchiveGet(a, h) == {a[k] : k \in {h} \cap DOMAIN a}

\* The i-th lowest of a set of heights.
Nth(S, i) == CHOOSE h \in S : Cardinality({k \in S : k < h}) = i - 1

\* BlockArchive::range: the first `limit` rows of lo .. hi, lowest first.
ArchiveRange(a, lo, hi, limit) ==
    LET S == {h \in DOMAIN a : lo <= h /\ h <= hi}
    IN  [i \in 1 .. IF Cardinality(S) < limit THEN Cardinality(S) ELSE limit |->
            a[Nth(S, i)]]

\* Also drops the row at the floor.
ArchiveDeleteBelow_AtFloor(a, floor) == [k \in {h \in DOMAIN a : h > floor} |-> a[k]]

\* BlockArchive::delete_below.
ArchiveDeleteBelow(a, floor) == [k \in {h \in DOMAIN a : h >= floor} |-> a[k]]

\* BlockArchive::max_height, -1 for None.
ArchiveMaxHeight(a) ==
    IF DOMAIN a = {} THEN -1 ELSE Nth(DOMAIN a, Cardinality(DOMAIN a))
=============================================================================
