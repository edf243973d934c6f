------------------------------- MODULE MCCli -------------------------------
(* A block without a number, one with a negative number, and two others. *)
EXTENDS Cli

MCNodeNumber == {None, -1, 1, 2}
=============================================================================
