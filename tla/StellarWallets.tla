---------------------------- MODULE StellarWallets ----------------------------
(***************************************************************************)
(* What is signed with a Stellar account: the proof that links it to a     *)
(* customer, payments and claimable balances sent from it, and the calls   *)
(* of the milestone escrow contract.  The three share nothing that changes *)
(* in what is modelled of them, so a behaviour is one of them.             *)
(***************************************************************************)
EXTENDS MilestoneEscrow, SigningPage, WalletLinks

VARIABLE signingFor

walletVars == <<signingFor, vars, signingVars, linkVars>>

InitWallets ==
  /\ signingFor \in {"escrow", "transfer", "link"}
  /\ Init /\ InitClaimable /\ InitSigning /\ InitLinks

NextWallets ==
  /\ UNCHANGED signingFor
  /\ \/ signingFor = "escrow" /\ Next /\ UNCHANGED <<signingVars, linkVars>>
     \/ signingFor = "transfer" /\ NextSigning /\ UNCHANGED <<vars, linkVars>>
     \/ signingFor = "link" /\ NextLinks /\ UNCHANGED <<vars, signingVars>>

SpecWallets == InitWallets /\ [][NextWallets]_walletVars
=============================================================================
