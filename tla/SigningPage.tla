----------------------------- MODULE SigningPage -----------------------------
(***************************************************************************)
(* The pages that send from a linked Stellar wallet, a payment or a        *)
(* claimable balance: prepare, sign in the wallet, submit, and poll until  *)
(* there is an outcome.  Both have the same control; here they run over    *)
(* ClaimableBalances.                                                      *)
(***************************************************************************)
EXTENDS Naturals, ClaimableBalances

CONSTANT MaxPolls   \* looks at a submitted transaction before the page gives up: 24

ASSUME SigningAssumption == MaxPolls \in Nat \ {0}

VARIABLES
  signing,   \* the state of the page and the call it awaits
  formed     \* the intents prepared for the form as it stands

signingVars == <<claimableVars, signing, formed>>

(* shown: the intent on the page, with the status of its last answer.      *)
Shown(i, status) == [intent |-> i, status |-> status]
Nothing == Shown(NoIntent, "none")
Page == [form |-> NoForm, phase |-> "idle", shown |-> Nothing, key |-> NoIntentKey,
         loaded |-> NoForm, submission |-> "none", polls |-> 0]

InitSigning ==
  /\ \E form \in Form : signing = [Page EXCEPT !.form = form]
  /\ formed = {}

SigningBusy == signing.phase \in {"preparing", "signing", "submitting", "reconciling"}
Only(page) == signing' = page /\ UNCHANGED <<claimableVars, formed>>
SigningFails == [signing EXCEPT !.phase = "error", !.submission = "none"]

(* The balance that is loaded is the one of the wallet of the form; that   *)
(* of a wallet left meanwhile is dropped.                                  *)
LoadBalance ==
  /\ signing.loaded # signing.form
  /\ Only([signing EXCEPT !.loaded = signing.form])

(* A field changes, or another payment is started: nothing is shown and    *)
(* the key is dropped with it.                                             *)
ResetPayment(form) ==
  /\ ~ SigningBusy /\ (form # signing.form \/ signing.shown # Nothing)
  /\ signing' = [Page EXCEPT !.form = form, !.loaded = signing.loaded]
  /\ formed' = {}
  /\ UNCHANGED claimableVars

-----------------------------------------------------------------------------
(* startPayment *)

CanStart == ~ SigningBusy /\ signing.loaded = signing.form

FaultyRequestKey ==
  IF \E k \in IntentKey : KeyedBy(k) = {} THEN CHOOSE k \in IntentKey : KeyedBy(k) = {}
  ELSE signing.key

(* The key is made once for a form. *)
RequestKey ==
  IF signing.key # NoIntentKey THEN signing.key
  ELSE CHOOSE k \in IntentKey : KeyedBy(k) = {}

StartPrepare ==
  /\ CanStart /\ signing.shown.status \notin {"prepared", "submitted"}
  /\ signing.key = NoIntentKey => \E k \in IntentKey : KeyedBy(k) = {}
  /\ Only([signing EXCEPT !.phase = "preparing", !.key = RequestKey])

StartSign ==
  /\ CanStart /\ signing.shown.status = "prepared"
  /\ Only([signing EXCEPT !.phase = "signing"])

StartReconcile ==
  /\ CanStart /\ signing.shown.status = "submitted"
  /\ Only([signing EXCEPT !.phase = "reconciling", !.polls = 0])

(* The answer is shown and goes to the wallet, whatever its status is; or  *)
(* it is lost, with the intent prepared or not.                            *)
PrepareAnswers(i) ==
  /\ signing.phase = "preparing"
  /\ \/ Prepare(i, signing.key, signing.form) /\ formed' = formed \cup {i}
     \/ PreparedAlready(i, signing.key, signing.form) /\ UNCHANGED formed
  /\ \/ signing' = [signing EXCEPT !.phase = "signing", !.shown = Shown(i, intent'[i].status)]
     \/ signing' = SigningFails

(* Nothing is prepared.  The wallet does not sign.  A look fails. *)
PrepareFails == signing.phase = "preparing" /\ Only(SigningFails)
WalletRefuses == signing.phase = "signing" /\ Only(SigningFails)
PollFails == signing.phase = "reconciling" /\ Only(SigningFails)

(* The wallet signs with the source of the intent. *)
WalletSigns(r) ==
  /\ signing.phase = "signing"
  /\ SubmitBegin(r, signing.shown.intent)
  /\ signing' = [signing EXCEPT !.phase = "submitting", !.submission = r]
  /\ UNCHANGED formed

-----------------------------------------------------------------------------
(* The submission, and its answer if the page still waits. *)

SubmissionServed(r) ==
  /\ SubmitRead(r) \/ SubmitSend(r) \/ SubmitRecord(r)
  /\ signing' = IF signing.submission = r /\ submitting'[r] = NoSubmission
       THEN SigningFails ELSE signing
  /\ UNCHANGED formed

SubmissionEnds(r) ==
  /\ SubmitEnd(r)
  /\ signing' =
       IF signing.submission # r THEN signing
       ELSE IF submitting[r].pc # "answer" THEN SigningFails
       ELSE [signing EXCEPT !.phase = "reconciling", !.submission = "none", !.polls = 0,
               !.shown = Shown(Of(r), submitting[r].answer)]
  /\ UNCHANGED formed

(* The gateway gives up: the page may sign and submit again. *)
SubmissionUnanswered ==
  /\ signing.phase = "submitting"
  /\ Only(SigningFails)

(* reconcile: one more look; an outcome or too many looks end it. *)
Poll ==
  LET i == signing.shown.intent
      status == intent'[i].status
  IN /\ signing.phase = "reconciling"
     /\ Look(i)
     /\ signing' = [signing EXCEPT !.shown = Shown(i, status), !.polls = @ + 1,
          !.phase = IF status = "confirmed" THEN "confirmed"
                    ELSE IF status \in {"failed", "expired"} \/ signing.polls + 1 = MaxPolls
                      THEN "error" ELSE "reconciling"]
     /\ UNCHANGED formed

NextSigning ==
  \/ LoadBalance \/ StartPrepare \/ StartSign \/ StartReconcile
  \/ PrepareFails \/ WalletRefuses \/ PollFails \/ SubmissionUnanswered \/ Poll
  \/ \E form \in Form : ResetPayment(form)
  \/ \E i \in Intent : PrepareAnswers(i)
  \/ \E r \in Submission : WalletSigns(r) \/ SubmissionServed(r) \/ SubmissionEnds(r)
  \/ NextReconciliation /\ UNCHANGED <<signing, formed>>

-----------------------------------------------------------------------------
(* Properties *)

(* stellar-testnet-payment.tsx:112-138: however often the button is        *)
(* pressed after errors and lost answers, one form is sent to the network  *)
(* at most once; only a change of the form makes another transaction.      *)
FormPaidOnce == Cardinality({i \in formed : chain[i] # "none"}) <= 1
=============================================================================
