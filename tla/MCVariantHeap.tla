--------------------------- MODULE MCVariantHeap ---------------------------
(* Small instances of VariantHeap for TLC. *)
EXTENDS VariantHeap, TLC

(* Wrappers are interchangeable, and so are the program's variables. *)
Symmetry == Permutations(Wrapper) \cup Permutations(Root)

(* The reserve lets the memory accounted to one type drift from what its   *)
(* values use, without bound; the runs look at a drift of two wrappers.    *)
DriftBound == 2
Drift == \A t \in HeapType : sz_mem[t] \in -DriftBound .. 2 * DriftBound
=============================================================================
