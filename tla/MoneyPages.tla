------------------------------ MODULE MoneyPages ------------------------------
(***************************************************************************)
(* Sending money and having it claimed.  Transfers are raced by any        *)
(* clients of the service, or made on the send page; claims are raced by   *)
(* senders and holders of a link.  The three share no row that changes, so *)
(* a behaviour is one of them, with everybody who takes part in it.        *)
(***************************************************************************)
EXTENDS SendFlow, RecipientClaims

VARIABLE scene

moneyVars == <<scene, sendVars, claimVars>>

(* The settings of the service matter only to transfers. *)
InitMoney ==
  /\ scene \in {"clients", "send", "claims"}
  /\ InitTransfers /\ InitClaims
  /\ scene \in {"claims"} => screened /\ enforced
  /\ IF scene = "send" THEN InitSend ELSE sending = NoPage

NextMoney ==
  /\ UNCHANGED scene
  /\ \/ scene = "clients" /\ NextTransfers /\ UNCHANGED <<sending, claimVars>>
     \/ scene = "send" /\ NextSend /\ UNCHANGED claimVars
     \/ scene = "claims" /\ NextClaims /\ UNCHANGED sendVars

SpecMoney == InitMoney /\ [][NextMoney]_moneyVars
=============================================================================
