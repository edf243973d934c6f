------------------------- MODULE ReorgEngineStream -------------------------
(***************************************************************************)
(* The engine together with a consumer that replays every output it        *)
(* returns, in order.  Shows that ReorgEngine, which remembers only        *)
(* buffer_window blocks, implements ReorgStream, which is about the whole  *)
(* chain since the stream began.                                           *)
(***************************************************************************)
EXTENDS ReorgEngine, Consumer

VARIABLE view   \* history: the consumer's materialized state

StreamEngineInit == EngineInit /\ view = FreshView
StreamEngineNext == EngineNext /\ view' = Replay(view, ret'.out)
StreamEngineSpec ==
    StreamEngineInit /\ [][StreamEngineNext]_<<engineVars, view>>

-----------------------------------------------------------------------------
S == INSTANCE ReorgStream WITH chain <- view.chain, final <- view.final

\* The engine's outputs, replayed by a consumer, implement ReorgStream: across
\* accept and set_solidified_head in any order, the consumer's chain changes only
\* as StreamNext allows.
ImplementsStream == S!StreamSpec

\* Every output makes sense where it arrives: New follows the consumer's tip, Undo
\* retracts exactly its tip (same block and same fork_id), Irreversible names a
\* block it holds, above the final mark; and the engine's buffer is the end of
\* the consumer's chain.
ConsumerInStep ==
    /\ view.ok
    /\ IsSuffix(canonical, view.chain)
=============================================================================
