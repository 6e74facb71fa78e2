--------------------------- MODULE MCRingReserve ---------------------------
(* A small instance of RingReserve: more wrappers than slots, so that the  *)
(* buffer fills, wraps around and overflows.                               *)
EXTENDS RingReserve, TLC

Symmetry == Permutations(Wrapper)
=============================================================================
