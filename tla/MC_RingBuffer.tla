--------------------------- MODULE MC_RingBuffer ---------------------------
(* Small buffers: capacities 2 and 4 (4 also for the invalid requests 0    *)
(* and 3) grow up to MaxCap; slots of two bytes make the shift by          *)
(* cap - head bytes tear some items and move others.                       *)
EXTENDS RingBuffer

MCRequest == {0, 2, 3, 4}
=============================================================================
