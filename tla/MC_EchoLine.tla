----------------------------- MODULE MC_EchoLine ----------------------------
(***************************************************************************)
(* Instances of EchoLine for TLC.                                          *)
(***************************************************************************)
EXTENDS EchoLine
=============================================================================
