---------------------------- MODULE ReorgStream ----------------------------
(***************************************************************************)
(* What the relayer's stream promises, without buffers, windows, indexes   *)
(* or ledgers: the receiver holds one branch of the block tree, whose      *)
(* first `final` blocks never change again.  A step grows the branch by    *)
(* one block, after retracting any number of non-final blocks but the      *)
(* first, or moves the final mark up, or both.                             *)
(***************************************************************************)
EXTENDS Chain

VARIABLES chain,   \* the branch, oldest block first: [id, fork_id] entries
          final    \* how many of them are irreversible

streamVars == <<chain, final>>

StreamInit == chain = <<>> /\ final = 0

\* The final mark only moves up, within the branch.
FinalRises ==
    /\ final' >= final
    /\ final' <= Len(chain')

\* Keep the first n blocks and add one that follows them.
Grow(n) ==
    /\ n >= final
    /\ n = 0 => chain = <<>>
    /\ Len(chain') = n + 1
    /\ SubSeq(chain', 1, n) = SubSeq(chain, 1, n)
    /\ n > 0 => Parent[chain'[n + 1].id] = chain[n].id
    /\ FinalRises

Finalize ==
    /\ chain' = chain
    /\ final' > final
    /\ FinalRises

StreamNext == Finalize \/ \E n \in 0 .. Len(chain) : Grow(n)

StreamSpec == StreamInit /\ [][StreamNext]_streamVars
=============================================================================
