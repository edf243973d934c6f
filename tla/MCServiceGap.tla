--------------------------- MODULE MCServiceGap ----------------------------
(* The service alone, without a consumer's history. *)
EXTENDS RelayerService, MCTree

MCWitness == [b \in Block |-> "w1"]
MCRecovered == MCWitness
MCSrSets == {{"w1"}}
=============================================================================
