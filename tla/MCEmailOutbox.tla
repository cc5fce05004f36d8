---------------------------- MODULE MCEmailOutbox ----------------------------
(* Two workers, a product notice and a support row (any other category is
   delivered like the product notice of a member who opted in). *)
EXTENDS EmailOutbox

CONSTANTS p1, s1, w1, w2

MCTransactional == {}
MCProduct == {p1}
MCSupport == {s1}
MCWorker == {w1, w2}
=============================================================================
