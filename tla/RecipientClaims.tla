--------------------------- MODULE RecipientClaims ---------------------------
(***************************************************************************)
(* Recipient claims: the sender of a confirmed transfer creates a claim,   *)
(* and whoever holds its token redeems it with an idempotency key.         *)
(* createRecipientClaim locks the transfer and runs one statement at a     *)
(* time at READ COMMITTED, so redemptions, which lock only the claim row,  *)
(* commit between its checks.  A redemption reads and writes one row under *)
(* its lock and is one step.                                               *)
(***************************************************************************)
EXTENDS Naturals, FiniteSets

CONSTANTS
  PaidTransfer,   \* confirmed transfers with a saved recipient
  Claim,          \* bound: the ids claims may get
  RedeemKey,      \* idempotency keys of redemptions
  Creation,       \* concurrent creations
  NoPaidTransfer, NoRedeemKey,
  MaxAttempts     \* max_attempts of every claim

ASSUME ClaimAssumption ==
  /\ NoPaidTransfer \notin PaidTransfer /\ NoRedeemKey \notin RedeemKey
  /\ MaxAttempts \in Nat \ {0}

VARIABLES
  claim,      \* platform.recipient_claim_intent
  lapsed,     \* claims whose expires_at has passed
  creation,   \* the creations under way
  answered    \* keys whose redemption of a claim was answered with success

claimVars == <<claim, lapsed, creation, answered>>

(* status: none, active, redeemed, expired or locked. *)
NoClaim == [status |-> "none", transfer |-> NoPaidTransfer, fails |-> 0,
            key |-> NoRedeemKey]

(* now: the claims that had lapsed when the transaction began, which is    *)
(* what now() means to its statements; expired: those it has expired and   *)
(* not yet committed.                                                      *)
NotCreating == [pc |-> "idle", transfer |-> NoPaidTransfer, now |-> {}, expired |-> {}]

InitClaims ==
  /\ claim = [c \in Claim |-> NoClaim]
  /\ lapsed = {}
  /\ creation = [r \in Creation |-> NotCreating]
  /\ answered = [c \in Claim |-> {}]

With(status, t) ==
  {c \in Claim : claim[c].status = status /\ claim[c].transfer = t}

ClaimLapses(c) ==
  /\ claim[c].status # "none" /\ c \notin lapsed
  /\ lapsed' = lapsed \cup {c}
  /\ UNCHANGED <<claim, creation, answered>>

-----------------------------------------------------------------------------
(* createRecipientClaim *)

Proceed(r, pc) == creation' = [creation EXCEPT ![r].pc = pc]
Ends(r) == creation' = [creation EXCEPT ![r] = NotCreating]

HoldsTransfer(r, t) ==
  creation[r].transfer = t /\ creation[r].pc \notin {"idle", "lock"}

CreateBegin(r, t) ==
  /\ creation[r] = NotCreating
  /\ creation' = [creation EXCEPT ![r] =
       [pc |-> "lock", transfer |-> t, now |-> lapsed, expired |-> {}]]
  /\ UNCHANGED <<claim, lapsed, answered>>

(* select ... for update of t *)
CreateLock(r) ==
  /\ creation[r].pc = "lock"
  /\ ~ \E q \in Creation : HoldsTransfer(q, creation[r].transfer)
  /\ Proceed(r, "expire")
  /\ UNCHANGED <<claim, lapsed, answered>>

CreateExpire(r) ==
  /\ creation[r].pc = "expire"
  /\ creation' = [creation EXCEPT ![r].pc = "checkRedeemed",
       ![r].expired = With("active", creation[r].transfer) \cap creation[r].now]
  /\ UNCHANGED <<claim, lapsed, answered>>

(* A conflict ends the creation, and its expiries are rolled back. *)
CreateCheckRedeemed(r) ==
  /\ creation[r].pc = "checkRedeemed"
  /\ IF With("redeemed", creation[r].transfer) = {}
       THEN Proceed(r, "checkActive") ELSE Ends(r)
  /\ UNCHANGED <<claim, lapsed, answered>>

CreateCheckActive(r) ==
  /\ creation[r].pc = "checkActive"
  /\ IF With("active", creation[r].transfer) \subseteq creation[r].expired
       THEN Proceed(r, "insert") ELSE Ends(r)
  /\ UNCHANGED <<claim, lapsed, answered>>

(* The insert, the activity event and the commit; a second active claim    *)
(* would break a unique index.                                             *)
CreateInsert(r, c) ==
  /\ creation[r].pc = "insert"
  /\ claim[c] = NoClaim
  /\ With("active", creation[r].transfer) \subseteq creation[r].expired
  /\ claim' = [d \in Claim |->
       IF d = c THEN [NoClaim EXCEPT !.status = "active",
                                     !.transfer = creation[r].transfer]
       ELSE IF d \in creation[r].expired
         THEN [claim[d] EXCEPT !.status = "expired"] ELSE claim[d]]
  /\ Ends(r)
  /\ UNCHANGED <<lapsed, answered>>

(* A statement fails, the client goes away or the API restarts: rollback.  *)
CreateAborts(r) ==
  /\ creation[r] # NotCreating
  /\ Ends(r)
  /\ UNCHANGED <<claim, lapsed, answered>>

-----------------------------------------------------------------------------
(* redeemRecipientClaim *)

(* A wrong secret is counted, and the last one allowed locks the claim. *)
NextClaimFailureState(row) ==
  [row EXCEPT !.fails = @ + 1,
     !.status = IF row.fails + 1 >= MaxAttempts THEN "locked" ELSE "active"]

(* The row is waited for while a creation holds it to expire it. *)
Unlocked(c) == \A r \in Creation : c \notin creation[r].expired

Succeeds(c, k) == answered' = [answered EXCEPT ![c] = @ \cup {k}]

FaultyReplayAnyKey(c, k) ==
  /\ Unlocked(c) /\ claim[c].status = "redeemed"
  /\ Succeeds(c, k)
  /\ UNCHANGED <<claim, lapsed, creation>>

(* A redeemed claim answers its own key again and no other. *)
RedeemReplay(c, k) ==
  /\ Unlocked(c) /\ claim[c].status = "redeemed" /\ claim[c].key = k
  /\ Succeeds(c, k)
  /\ UNCHANGED <<claim, lapsed, creation>>

RedeemExpired(c) ==
  /\ Unlocked(c) /\ claim[c].status = "active" /\ c \in lapsed
  /\ claim' = [claim EXCEPT ![c].status = "expired"]
  /\ UNCHANGED <<lapsed, creation, answered>>

RedeemWrongSecret(c) ==
  /\ Unlocked(c) /\ claim[c].status = "active" /\ c \notin lapsed
  /\ claim' = [claim EXCEPT ![c] = NextClaimFailureState(@)]
  /\ UNCHANGED <<lapsed, creation, answered>>

FaultyRedeemExpiredToo(c, k) ==
  /\ Unlocked(c) /\ claim[c].status \in {"active", "expired"}
  /\ With("redeemed", claim[c].transfer) = {}
  /\ claim' = [claim EXCEPT ![c].status = "redeemed", ![c].key = k]
  /\ Succeeds(c, k) \/ UNCHANGED answered
  /\ UNCHANGED <<lapsed, creation>>

(* The unique index on redeemed claims refuses a second redemption for the *)
(* transfer, whatever claim it uses; a committed answer may be lost.       *)
Redeem(c, k) ==
  /\ Unlocked(c) /\ claim[c].status = "active" /\ c \notin lapsed
  /\ With("redeemed", claim[c].transfer) = {}
  /\ claim' = [claim EXCEPT ![c].status = "redeemed", ![c].key = k]
  /\ Succeeds(c, k) \/ UNCHANGED answered
  /\ UNCHANGED <<lapsed, creation>>

-----------------------------------------------------------------------------
Create ==
  \E r \in Creation :
    \/ \E t \in PaidTransfer : CreateBegin(r, t)
    \/ CreateLock(r) \/ CreateExpire(r) \/ CreateCheckRedeemed(r)
    \/ CreateCheckActive(r) \/ CreateAborts(r)
    \/ \E c \in Claim : CreateInsert(r, c)

RedeemRequest ==
  \E c \in Claim :
    \/ RedeemExpired(c) \/ RedeemWrongSecret(c)
    \/ \E k \in RedeemKey : RedeemReplay(c, k) \/ Redeem(c, k)

NextClaims == Create \/ RedeemRequest \/ \E c \in Claim : ClaimLapses(c)

SpecClaims == InitClaims /\ [][NextClaims]_claimVars

-----------------------------------------------------------------------------
(* Properties *)

(* However creations and redemptions interleave, a transfer has at most    *)
(* one claim that can still be redeemed and at most one that was (one of   *)
(* each is possible: a creation does not see a redemption that commits     *)
(* after its first check).  "A retry with the same key returns the         *)
(* existing redemption; a different key cannot redeem it again"            *)
(* (services/platform/README.md:97): only one key is ever answered with    *)
(* success, for all the claims of a transfer.                              *)
SingleUse ==
  \A c, d \in Claim : claim[c].transfer = claim[d].transfer =>
    /\ claim[c].status = claim[d].status /\ claim[c].status \in {"active", "redeemed"}
       => c = d
    /\ \A k \in answered[c], l \in answered[d] : c = d /\ k = l /\ claim[c].key = k

(* What became of a claim is final: an expiry, a lock or a redemption is   *)
(* never undone, nor is its key replaced, by a creation that expires the   *)
(* claims of the transfer or by a late redemption.                         *)
OutcomeIsFinal ==
  [][\A c \in Claim :
       claim[c].status \in {"redeemed", "expired", "locked"} =>
         claim'[c] = claim[c]]_claimVars
=============================================================================
