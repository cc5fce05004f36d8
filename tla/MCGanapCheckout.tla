--------------------------- MODULE MCGanapCheckout ---------------------------
(* Two requests, two keys and one reference number. *)
EXTENDS GanapCheckout, TLC

CONSTANTS k1, k2, r1, r2, ref

Symmetry == Permutations({k1, k2}) \cup Permutations({r1, r2})
=============================================================================
