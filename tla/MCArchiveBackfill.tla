----------------------------- MODULE MCArchiveBackfill -----------------------------
(* The backfill with an archive, with verification off. *)
EXTENDS ArchiveBackfill, MCTree

MCWitness == [b \in Block |-> "w1"]
MCRecovered == MCWitness
MCSrSets == {{"w1"}}
=============================================================================
