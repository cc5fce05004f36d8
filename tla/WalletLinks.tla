----------------------------- MODULE WalletLinks -----------------------------
(***************************************************************************)
(* Linking a Stellar account to a customer: a challenge is issued, signed  *)
(* in the wallet and verified, once, and the link can be removed.  One     *)
(* Stellar account, which several customers may try to link from the       *)
(* wallet page.                                                            *)
(***************************************************************************)
EXTENDS FiniteSets

CONSTANTS
  Customer, NoCustomer,
  Attempt,                \* bound: presses of the button that run at a time
  Challenge, NoChallenge  \* bound: challenges that may be issued

ASSUME LinksAssumption == NoCustomer \notin Customer /\ NoChallenge \notin Challenge

VARIABLES
  link,        \* the customer whose active link the account has
  challenge,   \* platform.stellar_wallet_challenge
  signed,      \* challenges signed in the wallet and posted, maybe again
  attempt,     \* linkWallet, as far as each press of its button has come
  walletPage   \* what the page of each customer shows

linkVars == <<link, challenge, signed, attempt, walletPage>>

NoChallengeRow == [state |-> "none", customer |-> NoCustomer]
NoAttempt == [step |-> "none", customer |-> NoCustomer, challenge |-> NoChallenge,
              verdict |-> "none"]

InitLinks ==
  /\ link = NoCustomer
  /\ challenge = [h \in Challenge |-> NoChallengeRow]
  /\ signed = {}
  /\ attempt = [a \in Attempt |-> NoAttempt]
  /\ walletPage = [c \in Customer |-> [busy |-> FALSE, shown |-> FALSE, unlinking |-> "no"]]

-----------------------------------------------------------------------------
(* linkWallet: each of its steps sets the phase, which is busy until the   *)
(* last one.                                                               *)

Goes(a, step) == attempt' = [attempt EXCEPT ![a].step = step]
ShowBusy(c, busy) == walletPage' = [walletPage EXCEPT ![c].busy = busy]
CustomerOf(a) == attempt[a].customer

ConnectWallet(a, c) ==
  /\ ~ walletPage[c].busy /\ attempt[a] = NoAttempt
  /\ attempt' = [attempt EXCEPT ![a].step = "challenging", ![a].customer = c]
  /\ ShowBusy(c, TRUE)
  /\ UNCHANGED <<link, challenge, signed>>

(* createStellarWalletChallenge: the one open challenge of the customer is *)
(* replaced, with its id.                                                  *)
Issue(c, h) ==
  /\ challenge[h] = NoChallengeRow
  /\ challenge' = [g \in Challenge |->
       IF g = h THEN [state |-> "open", customer |-> c]
       ELSE IF challenge[g].customer = c /\ challenge[g].state \in {"open", "expired"}
         THEN [challenge[g] EXCEPT !.state = "replaced"]
       ELSE challenge[g]]

CreateChallenge(a, h) ==
  /\ attempt[a].step = "challenging"
  /\ Issue(CustomerOf(a), h)
  /\ attempt' = [attempt EXCEPT ![a].step = "signing", ![a].challenge = h]
  /\ ShowBusy(CustomerOf(a), TRUE)
  /\ UNCHANGED <<link, signed>>

ExpireChallenge(h) ==
  /\ challenge[h].state = "open"
  /\ challenge' = [challenge EXCEPT ![h].state = "expired"]
  /\ UNCHANGED <<link, signed, attempt, walletPage>>

SignChallenge(a) ==
  /\ attempt[a].step = "signing"
  /\ signed' = signed \cup {attempt[a].challenge}
  /\ Goes(a, "verifying")
  /\ ShowBusy(CustomerOf(a), TRUE)
  /\ UNCHANGED <<link, challenge>>

(* An error ends the attempt, wherever it was.                             *)
GivesUp(a) ==
  /\ attempt' = [attempt EXCEPT ![a] = NoAttempt]
  /\ ShowBusy(CustomerOf(a), FALSE)
  /\ UNCHANGED <<link, challenge, signed>>

(* No challenge is made, or the answer with it is lost. *)
ChallengeFails(a) ==
  /\ attempt[a].step = "challenging" /\ GivesUp(a)
ChallengeLost(a, h) ==
  /\ attempt[a].step = "challenging"
  /\ Issue(CustomerOf(a), h)
  /\ attempt' = [attempt EXCEPT ![a] = NoAttempt]
  /\ ShowBusy(CustomerOf(a), FALSE)
  /\ UNCHANGED <<link, signed>>

(* The wallet does not sign. *)
SigningRefused(a) == attempt[a].step = "signing" /\ GivesUp(a)

(* The verification is refused, or its answer is lost. *)
VerifyFails(a) == attempt[a].step = "verifying" /\ GivesUp(a)

FaultyUsable(h) == challenge[h].state \in {"open", "used"}
Usable(h) == challenge[h].state = "open"

(* verifyStellarWalletChallenge, under the lock of the challenge: it is    *)
(* used up even if the account turns out to be another customer's.         *)
Verify(h) ==
  LET c == challenge[h].customer
      verdict == IF Usable(h) /\ link \in {NoCustomer, c} THEN "linked" ELSE "refused"
  IN /\ h \in signed
     /\ challenge' = IF Usable(h) THEN [challenge EXCEPT ![h].state = "used"] ELSE challenge
     /\ link' = IF verdict = "linked" THEN c ELSE link
     /\ attempt' = [a \in Attempt |->
          IF attempt[a].challenge = h /\ attempt[a].step = "verifying" /\ attempt[a].verdict = "none"
            THEN [attempt[a] EXCEPT !.verdict = verdict] ELSE attempt[a]]
     /\ UNCHANGED <<signed, walletPage>>

VerifyAnswered(a) ==
  LET c == CustomerOf(a)
  IN /\ attempt[a].verdict = "linked"
     /\ attempt' = [attempt EXCEPT ![a] = NoAttempt]
     /\ walletPage' = [walletPage EXCEPT ![c].busy = FALSE, ![c].shown = TRUE]
     /\ UNCHANGED <<link, challenge, signed>>

-----------------------------------------------------------------------------
(* unlinkWallet, which does not wait for a link that is under way.         *)

Unlinking(c, stage) == walletPage' = [walletPage EXCEPT ![c].unlinking = stage]

AskUnlink(c) ==
  /\ walletPage[c].shown /\ walletPage[c].unlinking = "no"
  /\ Unlinking(c, "asked")
  /\ UNCHANGED <<link, challenge, signed, attempt>>

(* unlinkStellarWallet: only the active link, only its customer's.         *)
Unlink(c) ==
  /\ walletPage[c].unlinking = "asked" /\ link = c
  /\ link' = NoCustomer
  /\ Unlinking(c, "removed")
  /\ UNCHANGED <<challenge, signed, attempt>>

(* The answer, after which the page is not busy, whatever is under way; an *)
(* error, or an answer that is lost, leaves the account in the list.       *)
UnlinkEnds(c, removed) ==
  /\ walletPage' = [walletPage EXCEPT ![c] =
       [busy |-> FALSE, unlinking |-> "no", shown |-> ~ removed]]
  /\ UNCHANGED <<link, challenge, signed, attempt>>
UnlinkAnswered(c) == walletPage[c].unlinking = "removed" /\ UnlinkEnds(c, TRUE)
UnlinkFails(c) == walletPage[c].unlinking # "no" /\ UnlinkEnds(c, FALSE)

NextLinks ==
  \/ \E a \in Attempt :
       \/ \E c \in Customer : ConnectWallet(a, c)
       \/ \E h \in Challenge : CreateChallenge(a, h) \/ ChallengeLost(a, h)
       \/ SignChallenge(a) \/ VerifyAnswered(a)
       \/ ChallengeFails(a) \/ SigningRefused(a) \/ VerifyFails(a)
  \/ \E c \in Customer : AskUnlink(c) \/ Unlink(c) \/ UnlinkAnswered(c) \/ UnlinkFails(c)
  \/ \E h \in Challenge : ExpireChallenge(h) \/ Verify(h)

-----------------------------------------------------------------------------
(* Properties *)

(* services/platform/README.md:125-127, "one-time transaction hash": a     *)
(* link appears only by using up an open challenge of its customer, so     *)
(* that a signature seen before, posted again after its link was removed   *)
(* or another challenge issued, links nothing, and the account passes to   *)
(* another customer only after its link was removed.                       *)
LinkNeedsFreshProof ==
  [][link' # link /\ link' # NoCustomer =>
       /\ link = NoCustomer
       /\ \E h \in signed : /\ challenge[h] = [state |-> "open", customer |-> link']
                            /\ challenge'[h].state = "used"]_linkVars
=============================================================================
