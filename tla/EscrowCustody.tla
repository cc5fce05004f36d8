---------------------------- MODULE EscrowCustody ----------------------------
(***************************************************************************)
(* What the milestone escrow contract promises the owners of the tokens it *)
(* holds: the value kept for an escrow only leaves it together with as     *)
(* many tokens, never more than is left of that escrow, and nothing leaves *)
(* a closed one.  MilestoneEscrow implements it.                           *)
(***************************************************************************)
EXTENDS Integers

CONSTANTS Escrow, Token

VARIABLES
  kept,    \* what is still owed out of each escrow
  token,   \* the token of each escrow that was funded
  vault    \* tokens the contract holds

vars == <<kept, token, vault>>

Init ==
  /\ kept = [e \in Escrow |-> 0]
  /\ token = [e \in Escrow |-> "none"]
  /\ vault = [t \in Token |-> 0]

(* An escrow is funded once, by at least as many tokens as it will owe. *)
Fund(e, t) ==
  /\ token[e] = "none" /\ kept'[e] > 0
  /\ token' = [token EXCEPT ![e] = t]
  /\ kept' = [kept EXCEPT ![e] = kept'[e]]
  /\ vault' = [vault EXCEPT ![t] = @ + kept'[e]]

(* A release or a refund: the vault and the escrow lose the same. *)
Pay(e, t) ==
  /\ token[e] = t /\ UNCHANGED token
  /\ kept'[e] < kept[e] /\ 0 <= kept'[e]
  /\ kept' = [kept EXCEPT ![e] = kept'[e]]
  /\ vault' = [vault EXCEPT ![t] = @ - (kept[e] - kept'[e])]

(* The tokens come back to the contract that sends them. *)
PayItself(e) ==
  /\ kept'[e] < kept[e] /\ 0 <= kept'[e]
  /\ kept' = [kept EXCEPT ![e] = kept'[e]]
  /\ UNCHANGED <<token, vault>>

(* Anybody may send the contract tokens. *)
Receive(t) ==
  /\ vault'[t] > vault[t] /\ vault' = [vault EXCEPT ![t] = vault'[t]]
  /\ UNCHANGED <<kept, token>>

Next ==
  \/ \E e \in Escrow : PayItself(e) \/ \E t \in Token : Fund(e, t) \/ Pay(e, t)
  \/ \E t \in Token : Receive(t)

Spec == Init /\ [][Next]_vars
=============================================================================
