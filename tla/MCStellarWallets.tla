--------------------------- MODULE MCStellarWallets ---------------------------
(* Instances of StellarWallets for TLC.  Its parts exclude each other, so  *)
(* the same model values stand for escrows, intents and customers, and for *)
(* accounts, submissions and attempts.                                     *)
EXTENDS StellarWallets, TLC

CONSTANTS e1, e2, x, y, z, t1

(* Lists that are empty, too long, overflow, or have an amount of zero.    *)
MCMilestones == {<<>>, <<1>>, <<2, 1>>, <<1, 0>>, <<2, 3>>, <<1, 1, 1>>}

Symmetry == Permutations({e1, e2}) \cup Permutations({x, y})
=============================================================================
