--------------------------- MODULE MCVariantCast ---------------------------
(* 32-bit integers have 3 bits and 64-bit integers 5; floating-point       *)
(* values go beyond both limits on either side.  A double has no integer   *)
(* right below the 64-bit limits.                                          *)
EXTENDS VariantCast

MCHalves == -36 .. 68
MCNumberHalves == MCHalves \ {29, 30, 31, 61, 62, 63, 65}
=============================================================================
