---------------------------- MODULE MCMoneyPages ----------------------------
(* Instances of MoneyPages for TLC.  The scenes exclude each other, so the *)
(* same model values stand for keys in both, and for requests in one and   *)
(* claims in the other.                                                    *)
EXTENDS MoneyPages, TLC

CONSTANTS t1, a1, a2, k1, k2, r1, r2, r3, n1, n2

Symmetry == Permutations(Quote) \cup Permutations(Key) \cup Permutations(Request)
=============================================================================
