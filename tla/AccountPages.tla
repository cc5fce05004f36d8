----------------------------- MODULE AccountPages -----------------------------
(***************************************************************************)
(* The other pages of the customer application, each with the service      *)
(* behind it: family distributions, raced by any clients or made on their  *)
(* page, identity verification, and the layer over every page.  No two     *)
(* share a row that changes, so a behaviour is one at one of them.         *)
(***************************************************************************)
EXTENDS FamilyManager, VerificationFlow, CustomerExperience

VARIABLE onPage

accountVars == <<onPage, managerVars, flowVars, experienceVars>>

(* The settings of transfers are varied in MoneyPages. *)
InitAccount ==
  /\ onPage \in {"clients", "family", "verification", "welcome"}
  /\ Init /\ InitManager /\ InitFlow /\ InitExperience
  /\ screened /\ enforced
  /\ onPage # "family" => managing.allowed

(* One page, and nothing of the others. *)
NextAccount ==
  /\ UNCHANGED onPage
  /\ \/ /\ onPage = "clients" /\ Next
        /\ UNCHANGED <<managing, flowVars, experienceVars>>
     \/ /\ onPage = "family" /\ NextManager
        /\ UNCHANGED <<flowVars, experienceVars>>
     \/ /\ onPage = "verification" /\ NextFlow
        /\ UNCHANGED <<managerVars, experienceVars>>
     \/ /\ onPage = "welcome" /\ NextExperience
        /\ UNCHANGED <<managerVars, flowVars>>

SpecAccount == InitAccount /\ [][NextAccount]_accountVars
=============================================================================
