---------------------------- MODULE MCAccountPages ----------------------------
(* Instances of AccountPages for TLC.  The pages exclude each other, so    *)
(* the same model values stand for what runs at a time on each of them.    *)
EXTENDS AccountPages, MCFamilyManager

CONSTANTS n1, n2

Symmetry == Permutations({u1, u2}) \cup Permutations({n1, n2})
=============================================================================
