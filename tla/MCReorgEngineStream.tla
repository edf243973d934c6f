------------------------ MODULE MCReorgEngineStream ------------------------
(* The engine and its consumer on the wide tree. *)
EXTENDS ReorgEngineStream, MCTree
=============================================================================
