------------------------------- MODULE Chain -------------------------------
(***************************************************************************)
(* The block tree the TRON node hands to the relayer, as the relayer sees  *)
(* it.  A block is known by its BlockId, which binds its height and, by    *)
(* the hash of its header, its parent (codec/src/block.rs, decode_header). *)
(* Only the three header fields the relayer reads are kept.                *)
(***************************************************************************)
EXTENDS Integers, Sequences, FiniteSets

CONSTANTS Block,     \* the blocks of the tree, by BlockId
          NoBlock,   \* the parent of a block whose parent is not in the tree
          Height,    \* header.height of a block
          Parent     \* header.parent_id of a block

(***************************************************************************)
(* The chain's own rule (java-tron, outside this repository): a block is   *)
(* one above its parent.  The relayer relies on it and never checks it.    *)
(***************************************************************************)
ASSUME ChainAssumption ==
    /\ NoBlock \notin Block
    /\ Height \in [Block -> Nat]
    /\ Parent \in [Block -> Block \cup {NoBlock}]
    /\ \A b \in Block : Parent[b] \in Block => Height[b] = Height[Parent[b]] + 1

(***************************************************************************)
(* Option<BlockHeight>: None is below every height, so that a comparison   *)
(* with None comes out as the `if let Some` of the code makes it.          *)
(***************************************************************************)
None == -1
OptHeight == Nat \cup {None}

(***************************************************************************)
(* FinalityTier::derive.  Every caller passes has_buffered_descendant =    *)
(* false, so Confirmed is never produced.                                  *)
(***************************************************************************)
Tier(height, head) == IF height <= head THEN "Finalized" ELSE "Seen"
=============================================================================
