------------------------------ MODULE MC_Load ------------------------------
(***************************************************************************)
(* Load for TLC: texts with two statements, and an array of states that    *)
(* has room for one name besides init and fini before it grows.  Five      *)
(* seconds wrap around the word, as 50 days do in 32 bits.                 *)
(***************************************************************************)
EXTENDS Load

\* The code that makes a counter end, and one that is not the number of a
\* statement.
Codes == {-1, 2}
=============================================================================
