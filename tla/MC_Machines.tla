---------------------------- MODULE MC_Machines ----------------------------
(***************************************************************************)
(* An instance of Machines for TLC: the io channels are those of the       *)
(* blocks.                                                                 *)
(***************************************************************************)
EXTENDS Machines, FiniteSets

OfBlocks == Block

\* Bound: machines at a time, lost ones included.
ThreeMachines == Cardinality(taken) <= 3
=============================================================================
