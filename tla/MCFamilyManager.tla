--------------------------- MODULE MCFamilyManager ---------------------------
(* Instances of FamilyManager for TLC. *)
EXTENDS FamilyManager, TLC

CONSTANTS k1, u1, u2

(* Two plans: one whose shares are always rounded, and one with a share so *)
(* small that little amounts leave its recipient nothing.                  *)
MCAllocations ==
  {<<[recipient |-> "ana", share |-> 4], [recipient |-> "ben", share |-> 5]>>,
   <<[recipient |-> "ben", share |-> 2], [recipient |-> "ana", share |-> 7]>>}

(* The page may also hold too few shares for a plan. *)
MCSheets == MCAllocations \cup {<<[recipient |-> "ana", share |-> 4]>>}

(* A direct transfer may use the key of a leg. *)
MCLegKey == [e \in {"e1", "e2"} |-> [r \in {"ana", "ben"} |->
  IF e = "e1" /\ r = "ana" THEN k1 ELSE e \o r]]
MCKey == {k1, "e1ben", "e2ana", "e2ben"}
=============================================================================
