---------------------------- MODULE MCStoreCrate ----------------------------
(* The two stores. *)
EXTENDS StoreCrate
=============================================================================
