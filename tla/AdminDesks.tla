------------------------------ MODULE AdminDesks ------------------------------
(***************************************************************************)
(* The desks of the administrators' application.  No two of them share a   *)
(* row, so their interleavings add nothing: a behaviour is one at one of   *)
(* the desks, with everybody who works there.                              *)
(***************************************************************************)
EXTENDS KycDesk, SupportTickets, StatusIncidents, ContentEditor

VARIABLE atDesk

adminVars == <<atDesk, deskVars, supportVars, statusVars, contentVars>>

InitAdmin ==
  /\ atDesk \in {"kyc", "support", "status", "content"}
  /\ InitDesk /\ InitSupport /\ InitStatus /\ InitContent

NextAdmin ==
  /\ UNCHANGED atDesk
  /\ \/ /\ atDesk = "kyc" /\ NextDesk
        /\ UNCHANGED <<supportVars, statusVars, contentVars>>
     \/ /\ atDesk = "support" /\ NextSupport
        /\ UNCHANGED <<deskVars, statusVars, contentVars>>
     \/ /\ atDesk = "status" /\ NextStatus
        /\ UNCHANGED <<deskVars, supportVars, contentVars>>
     \/ /\ atDesk = "content" /\ NextContent
        /\ UNCHANGED <<deskVars, supportVars, statusVars>>

SpecAdmin ==
  InitAdmin /\ [][NextAdmin]_adminVars /\ (atDesk = "status" => FairStatus)
-----------------------------------------------------------------------------
(* At the status desk, the public status follows the health of the         *)
(* components (StatusFollowsHealth, runStatusChecks and getStatus).        *)
FeedFollowsHealth == atDesk = "status" => StatusFollowsHealth
=============================================================================
