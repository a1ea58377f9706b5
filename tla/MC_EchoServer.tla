--------------------------- MODULE MC_EchoServer ---------------------------
(***************************************************************************)
(* Instances of EchoServer for TLC: a few slaves, which are alike.         *)
(***************************************************************************)
EXTENDS EchoServer, TLC

Alike == Permutations(Slave)
=============================================================================
