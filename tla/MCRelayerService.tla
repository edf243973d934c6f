-------------------------- MODULE MCRelayerService --------------------------
(* The service on the small tree.  a2 is signed by a witness that one of the *)
(* two SR sets does not have; b2's address mismatches; g3 is malformed.      *)
EXTENDS RelayerServiceStream, MCTree

MCWitness == [b \in SmallBlock |-> IF b = "a2" THEN "w2" ELSE "w1"]
MCRecovered == [MCWitness EXCEPT !["b2"] = "w3", !["g3"] = "malformed"]
MCSrSets == {{"w1"}, {"w1", "w2"}}
=============================================================================
