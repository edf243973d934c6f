----------------------------- MODULE StoreCrate -----------------------------
(***************************************************************************)
(* The two stores of lightcycle-store that share no state, the block cache *)
(* and the cursor store.  A behaviour uses one of them, chosen at the      *)
(* start: every behaviour of each is one of this module.                   *)
(***************************************************************************)
EXTENDS BlockCache, CursorStore

VARIABLE part    \* the store in use

crateVars == <<cache, storeVars, part>>

CrateInit == part \in {"cache", "cursors"} /\ CacheInit /\ CursorStoreInit

CrateNext ==
    \/ part = "cache" /\ CacheNext /\ UNCHANGED <<storeVars, part>>
    \/ part = "cursors" /\ CursorStoreNext /\ UNCHANGED <<cache, part>>

CrateSpec == CrateInit /\ [][CrateNext]_crateVars
=============================================================================
