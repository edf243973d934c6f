----------------------------- MODULE MCArchiver -----------------------------
(* The archiver over the relayer, with verification off. *)
EXTENDS Archiver, MCTree

MCWitness == [b \in Block |-> "w1"]
MCRecovered == MCWitness
MCSrSets == {{"w1"}}
=============================================================================
