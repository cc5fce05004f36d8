------------------------ MODULE MCStellarSettlement ------------------------
(* Instances of StellarSettlement for TLC. *)
EXTENDS StellarSettlement, TLC

CONSTANTS p1, r1, r2, w1, w2

(* Requests and workers are interchangeable; used by safety runs only. *)
Symmetry == Permutations(Request) \cup Permutations(Worker)
=============================================================================
