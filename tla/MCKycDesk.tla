------------------------------ MODULE MCKycDesk ------------------------------
(* The review page with two cases, an officer and an administrator.        *)
EXTENDS KycDesk

CONSTANTS c1, c2, officer, admin
=============================================================================
