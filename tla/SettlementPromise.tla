-------------------------- MODULE SettlementPromise --------------------------
(***************************************************************************)
(* What the settlement of payments promises whoever reads the books and    *)
(* the customer who is told: the posting and the announcement of a payment *)
(* are one event, which happens at most once and never before the network  *)
(* has settled the payment.  StellarSettlement implements it.              *)
(***************************************************************************)
EXTENDS Naturals

CONSTANT Payment

VARIABLES
  settled,    \* payments whose transaction succeeded on the network
  posted,     \* how often each payment stands in the ledger
  announced   \* payments whose customers were told they are confirmed

vars == <<settled, posted, announced>>

Init ==
  /\ settled = {}
  /\ posted = [p \in Payment |-> 0]
  /\ announced = {}

Settle(p) ==
  /\ p \notin settled
  /\ settled' = settled \cup {p}
  /\ UNCHANGED <<posted, announced>>

Book(p) ==
  /\ p \in settled /\ posted[p] = 0 /\ p \notin announced
  /\ posted' = [posted EXCEPT ![p] = 1]
  /\ announced' = announced \cup {p}
  /\ UNCHANGED settled

Next == \E p \in Payment : Settle(p) \/ Book(p)

Spec == Init /\ [][Next]_vars
=============================================================================
