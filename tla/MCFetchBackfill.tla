-------------------------- MODULE MCFetchBackfill --------------------------
(* Fetch.Block and the backfill over the relayer, with verification off. *)
EXTENDS FetchBackfill, MCTree

MCWitness == [b \in Block |-> "w1"]
MCRecovered == MCWitness
MCSrSets == {{"w1"}}
=============================================================================
