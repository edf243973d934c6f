-------------------------- MODULE MCStreamService --------------------------
(* The firehose over the relayer, with verification off. *)
EXTENDS StreamService, MCTree

MCWitness == [b \in Block |-> "w1"]
MCRecovered == MCWitness
MCSrSets == {{"w1"}}
=============================================================================
