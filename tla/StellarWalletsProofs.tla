------------------------- MODULE StellarWalletsProofs -------------------------
(* What is signed with a Stellar account, for any intents, keys, forms,    *)
(* submissions, customers, challenges and escrows: a claimable balance is  *)
(* confirmed on chain only, a form is paid once, a link needs a fresh      *)
(* proof, and the escrow contract keeps its books and its promise.         *)
EXTENDS StellarWallets, SumLemmas, SequenceTheorems

-----------------------------------------------------------------------------
(* The inductive invariant of the balances and of the page over them. *)

IntentStatus == {"none", "prepared", "submitted", "confirmed", "failed", "expired"}
IntentRow == [status : IntentStatus, transfer : IntentStatus,
              key : IntentKey \cup {NoIntentKey}, form : Form \cup {NoForm}]
Fate == {"none", "pending", "success", "failed"}
SubmissionState == [pc : {"idle", "read", "send", "record", "answer"},
                    intent : Intent \cup {NoIntent}, answer : IntentStatus]

ClaimableTypes ==
  /\ intent \in [Intent -> IntentRow]
  /\ chain \in [Intent -> Fate]
  /\ lookup \in [Intent -> Fate]
  /\ submitting \in [Submission -> SubmissionState]

(* A submission that is under way has an intent. *)
SubmissionsAtWork ==
  \A r \in Submission : submitting[r].pc # "idle" => submitting[r].intent \in Intent

(* What the worker has looked up and not yet recorded is still true. *)
LookupsHold == \A i \in Intent : lookup[i] = "success" => chain[i] = "success"

ClaimableInv ==
  ClaimableTypes /\ SubmissionsAtWork /\ LookupsHold /\ ConfirmedOnChain

Phase == {"idle", "preparing", "signing", "submitting", "reconciling", "confirmed", "error"}
SigningTypes ==
  /\ signing \in [form : Form \cup {NoForm}, phase : Phase,
                  shown : [intent : Intent \cup {NoIntent}, status : IntentStatus],
                  key : IntentKey \cup {NoIntentKey}, loaded : Form \cup {NoForm},
                  submission : Submission \cup {"none"}, polls : Nat]
  /\ formed \in SUBSET Intent

(* The page works on an intent from the moment it has one to show, and has *)
(* a key from the moment it prepares.                                      *)
PageAtWork ==
  /\ signing.shown.status # "none" => signing.shown.intent \in Intent
  /\ signing.phase \in {"signing", "submitting", "reconciling"}
       => signing.shown.intent \in Intent
  /\ signing.phase = "preparing" => signing.key \in IntentKey

(* A key has one intent, and the intents of the form have the page's key. *)
OneIntentPerKey ==
  \A i, j \in Intent : intent[i].key = intent[j].key /\ intent[i].key \in IntentKey => i = j
FormedUnderKey ==
  \A i \in formed : intent[i].key = signing.key /\ signing.key \in IntentKey

SigningInv == SigningTypes /\ PageAtWork /\ OneIntentPerKey /\ FormedUnderKey

-----------------------------------------------------------------------------
(* What the statements on a claimable balance do to its row. *)

(* An update, which confirms on chain only, the transfer with the intent,  *)
(* and leaves a confirmed row alone.                                       *)
MayBecome(i, row) ==
  /\ row \in IntentRow /\ row.key = intent[i].key
  /\ intent[i].status = "confirmed" => row = intent[i]
  /\ row.status = "confirmed" <=> row.transfer = "confirmed"
  /\ row.status = "confirmed" => chain[i] = "success"
Updated(i) == \E row : MayBecome(i, row) /\ intent' = [intent EXCEPT ![i] = row]

RowsKept == UNCHANGED intent \/ \E i \in Intent : Updated(i)
SuccessKept == \A i \in Intent : chain[i] = "success" => chain'[i] = "success"

LEMMA Rows ==
  ASSUME ClaimableInv, NEW i \in Intent
  PROVE  /\ intent[i] \in IntentRow
         /\ intent[i].status = "confirmed" <=> intent[i].transfer = "confirmed"
         /\ intent[i].status = "confirmed" => chain[i] = "success"
BY DEF ClaimableInv, ClaimableTypes, ConfirmedOnChain

LEMMA ExpiryUpdates ==
  ASSUME ClaimableInv, NEW i \in Intent, intent[i].status = "prepared", Expired(i)
  PROVE  RowsKept
<1>1. PICK transfer \in {"failed", intent[i].transfer} :
        intent' = [intent EXCEPT ![i] = [intent[i] EXCEPT !.status = "expired", !.transfer = transfer]]
  BY DEF Expired, ClaimableInv, ClaimableTypes
<1>2. MayBecome(i, [intent[i] EXCEPT !.status = "expired", !.transfer = transfer])
  BY Rows DEF MayBecome, IntentRow, IntentStatus
<1> QED  BY <1>1, <1>2 DEF RowsKept, Updated

LEMMA FailureUpdates ==
  ASSUME ClaimableInv, NEW i \in Intent, Failed(i)
  PROVE  RowsKept
<1>1. CASE intent[i].status \in {"failed", "confirmed"}
  BY <1>1 DEF Failed, RowsKept
<1>2. CASE intent[i].status \notin {"failed", "confirmed"}
  <2>1. intent' = [intent EXCEPT ![i] = [intent[i] EXCEPT !.status = "failed", !.transfer = "failed"]]
    BY <1>2 DEF Failed, ClaimableInv, ClaimableTypes
  <2>2. MayBecome(i, [intent[i] EXCEPT !.status = "failed", !.transfer = "failed"])
    BY <1>2, Rows DEF MayBecome, IntentRow, IntentStatus
  <2> QED  BY <2>1, <2>2 DEF RowsKept, Updated
<1> QED  BY <1>1, <1>2

LEMMA ConfirmationUpdates ==
  ASSUME ClaimableInv, NEW i \in Intent, chain[i] = "success", Confirmed(i)
  PROVE  RowsKept
<1>1. intent' = [intent EXCEPT ![i] = [intent[i] EXCEPT !.status = "confirmed", !.transfer = "confirmed"]]
  BY DEF Confirmed, ClaimableInv, ClaimableTypes
<1>2. MayBecome(i, [intent[i] EXCEPT !.status = "confirmed", !.transfer = "confirmed"])
  BY Rows DEF MayBecome, IntentRow, IntentStatus
<1> QED  BY <1>1, <1>2 DEF RowsKept, Updated

LEMMA RecordUpdates ==
  ASSUME ClaimableInv, NEW r \in Submission, SubmitRecord(r)
  PROVE  RowsKept
<1> DEFINE i == Of(r)
           advanced(status) == IF status = "prepared" THEN "submitted" ELSE status
           row == [intent[i] EXCEPT !.status = advanced(@), !.transfer = advanced(@)]
<1>1. i \in Intent
  BY DEF SubmitRecord, Of, ClaimableInv, SubmissionsAtWork
<1>2. intent' = [intent EXCEPT ![i] = row]
  BY <1>1 DEF SubmitRecord, ClaimableInv, ClaimableTypes
<1>3. MayBecome(i, row)
  BY <1>1, Rows DEF MayBecome, IntentRow, IntentStatus
<1> QED  BY <1>1, <1>2, <1>3 DEF RowsKept, Updated

(* What it takes to keep the invariant. *)
LEMMA RowsKeptTypes ==
  ASSUME ClaimableInv, RowsKept
  PROVE  intent' \in [Intent -> IntentRow]
BY DEF ClaimableInv, ClaimableTypes, RowsKept, Updated, MayBecome

LEMMA ClaimableInvByParts ==
  ASSUME ClaimableInv, RowsKept, SuccessKept,
         ClaimableTypes', SubmissionsAtWork', LookupsHold'
  PROVE  ClaimableInv'
<1>1. ASSUME NEW i \in Intent
      PROVE  /\ intent'[i].status = "confirmed" <=> intent'[i].transfer = "confirmed"
             /\ intent'[i].status = "confirmed" => chain[i] = "success"
  BY Rows DEF RowsKept, Updated, MayBecome, ClaimableInv, ClaimableTypes
<1> QED  BY <1>1 DEF ClaimableInv, ConfirmedOnChain, SuccessKept

LEMMA StandsByParts ==
  ASSUME ClaimableInv, RowsKept
  PROVE  \A i \in Intent : intent[i].status = "confirmed" => intent'[i] = intent[i]
BY DEF RowsKept, Updated, MayBecome, ClaimableInv, ClaimableTypes

-----------------------------------------------------------------------------
(* The steps of a submission, of the network, and of the look-ups. *)

LEMMA SubmissionMoves ==
  ASSUME ClaimableInv, NEW r \in Submission,
         \/ Leaves(r)
         \/ \E pc \in {"read", "send", "record", "answer"} :
              submitting[r].pc # "idle" /\ Moves(r, pc)
         \/ \E status \in IntentStatus :
              submitting[r].pc # "idle" /\ Answers(r, status)
  PROVE  submitting' \in [Submission -> SubmissionState] /\ SubmissionsAtWork'
<1>1. submitting[r] \in SubmissionState
  BY DEF ClaimableInv, ClaimableTypes
<1> DEFINE Moved == \E new \in SubmissionState :
                      /\ submitting' = [submitting EXCEPT ![r] = new]
                      /\ new.pc # "idle" => new.intent \in Intent
<1>2. Moved
  <2>1. CASE Leaves(r)
    <3>1. NoSubmission \in SubmissionState /\ NoSubmission.pc = "idle"
      BY DEF NoSubmission, SubmissionState, IntentStatus
    <3> QED  BY <2>1, <3>1 DEF Leaves
  <2>2. ASSUME NEW pc \in {"read", "send", "record", "answer"},
               submitting[r].pc # "idle", Moves(r, pc)
        PROVE  Moved
    <3> DEFINE new == [submitting[r] EXCEPT !.pc = pc]
    <3>1. submitting' = [submitting EXCEPT ![r] = new]
      BY <2>2 DEF Moves, ClaimableInv, ClaimableTypes
    <3>2. new \in SubmissionState /\ new.intent \in Intent
      BY <1>1, <2>2 DEF SubmissionState, ClaimableInv, SubmissionsAtWork
    <3> QED  BY <3>1, <3>2
  <2>3. ASSUME NEW status \in IntentStatus, submitting[r].pc # "idle", Answers(r, status)
        PROVE  Moved
    <3> DEFINE new == [submitting[r] EXCEPT !.pc = "answer", !.answer = status]
    <3>1. submitting' = [submitting EXCEPT ![r] = new]
      BY <2>3 DEF Answers, ClaimableInv, ClaimableTypes
    <3>2. new \in SubmissionState /\ new.intent \in Intent
      BY <1>1, <2>3 DEF SubmissionState, ClaimableInv, SubmissionsAtWork
    <3> QED  BY <3>1, <3>2
  <2> QED  BY <2>1, <2>2, <2>3
<1> QED  BY <1>2 DEF ClaimableInv, ClaimableTypes, SubmissionsAtWork

LEMMA AcceptedKeeps ==
  ASSUME ClaimableInv, NEW i \in Intent, Accepted(i) \/ UNCHANGED chain
  PROVE  chain' \in [Intent -> Fate] /\ SuccessKept
BY DEF Accepted, ClaimableInv, ClaimableTypes, Fate, SuccessKept

LEMMA SubmissionKeepsInv ==
  ASSUME ClaimableInv, NEW r \in Submission,
         SubmitRead(r) \/ SubmitSend(r) \/ SubmitRecord(r)
  PROVE  ClaimableInv' /\ RowsKept
<1>1. submitting[r].pc # "idle" /\ Of(r) \in Intent
  BY DEF SubmitRead, SubmitSend, SubmitRecord, Of, ClaimableInv, SubmissionsAtWork
<1>2. submitting' \in [Submission -> SubmissionState] /\ SubmissionsAtWork'
  <2>1. intent[Of(r)].status \in IntentStatus
    BY <1>1, Rows DEF IntentRow
  <2>2. "submitted" \in IntentStatus  BY DEF IntentStatus
  <2> QED
    BY <1>1, <2>1, <2>2, SubmissionMoves DEF SubmitRead, SubmitSend, SubmitRecord
<1>3. RowsKept
  <2>1. CASE SubmitRead(r)
    BY <1>1, <2>1, ExpiryUpdates DEF SubmitRead, RowsKept
  <2>2. CASE SubmitSend(r)
    BY <1>1, <2>2, FailureUpdates DEF SubmitSend, RowsKept
  <2> QED  BY <2>1, <2>2, RecordUpdates
<1>4. chain' \in [Intent -> Fate] /\ SuccessKept /\ UNCHANGED lookup
  BY <1>1, AcceptedKeeps DEF SubmitRead, SubmitSend, SubmitRecord
<1>5. ClaimableTypes' /\ LookupsHold'
  BY <1>2, <1>3, <1>4, RowsKeptTypes
     DEF ClaimableInv, ClaimableTypes, LookupsHold, SuccessKept
<1> QED  BY <1>2, <1>3, <1>4, <1>5, ClaimableInvByParts

LEMMA SubmissionEdgesKeepInv ==
  ASSUME ClaimableInv, NEW r \in Submission,
         SubmitEnd(r) \/ \E i \in Intent : SubmitBegin(r, i)
  PROVE  ClaimableInv' /\ UNCHANGED intent
<1>1. UNCHANGED <<intent, chain, lookup>>  BY DEF SubmitEnd, SubmitBegin
<1>2. submitting' \in [Submission -> SubmissionState] /\ SubmissionsAtWork'
  <2>1. CASE SubmitEnd(r)  BY <2>1, SubmissionMoves DEF SubmitEnd
  <2>2. ASSUME NEW i \in Intent, SubmitBegin(r, i)
        PROVE  submitting' \in [Submission -> SubmissionState] /\ SubmissionsAtWork'
    <3> DEFINE new == [submitting[r] EXCEPT !.pc = "read", !.intent = i]
    <3>1. submitting' = [submitting EXCEPT ![r] = new]
      BY <2>2 DEF SubmitBegin, ClaimableInv, ClaimableTypes
    <3>2. new \in SubmissionState /\ new.intent \in Intent
      BY DEF SubmissionState, ClaimableInv, ClaimableTypes
    <3> QED  BY <3>1, <3>2 DEF ClaimableInv, ClaimableTypes, SubmissionsAtWork
  <2> QED  BY <2>1, <2>2
<1> QED
  BY <1>1, <1>2 DEF ClaimableInv, ClaimableTypes, LookupsHold, ConfirmedOnChain

LEMMA LookKeepsInv ==
  ASSUME ClaimableInv, NEW i \in Intent, Look(i)
  PROVE  ClaimableInv' /\ RowsKept
<1>1. RowsKept
  BY ExpiryUpdates, FailureUpdates, ConfirmationUpdates DEF Look, Succeeded, RowsKept
<1>2. UNCHANGED <<chain, submitting, lookup>>  BY DEF Look
<1>3. ClaimableTypes' /\ SubmissionsAtWork' /\ LookupsHold' /\ SuccessKept
  BY <1>1, <1>2, RowsKeptTypes
     DEF ClaimableInv, ClaimableTypes, SubmissionsAtWork, LookupsHold, SuccessKept
<1> QED  BY <1>1, <1>3, ClaimableInvByParts

LEMMA ReconciliationKeepsInv ==
  ASSUME ClaimableInv, NextReconciliation
  PROVE  ClaimableInv' /\ RowsKept
<1>1. PICK i \in Intent :
        FallDue(i) \/ LedgerCloses(i) \/ Look(i) \/ WorkerLooks(i) \/ WorkerRecords(i)
  BY DEF NextReconciliation
<1>2. CASE Look(i)  BY <1>2, LookKeepsInv
<1>3. CASE FallDue(i) \/ LedgerCloses(i) \/ WorkerLooks(i) \/ WorkerRecords(i)
  <2>1. RowsKept
    <3>1. CASE WorkerRecords(i)
      BY <3>1, FailureUpdates, ConfirmationUpdates
         DEF WorkerRecords, ClaimableInv, LookupsHold, RowsKept
    <3> QED  BY <1>3, <3>1 DEF FallDue, LedgerCloses, WorkerLooks, RowsKept
  <2>2. chain' \in [Intent -> Fate] /\ SuccessKept
    BY <1>3 DEF FallDue, LedgerCloses, WorkerLooks, WorkerRecords,
                ClaimableInv, ClaimableTypes, Fate, SuccessKept
  <2>3. lookup' \in [Intent -> Fate] /\ LookupsHold'
    <3>1. CASE WorkerLooks(i)
      BY <3>1 DEF WorkerLooks, ClaimableInv, ClaimableTypes, LookupsHold, Fate
    <3>2. CASE WorkerRecords(i)
      BY <3>2 DEF WorkerRecords, ClaimableInv, ClaimableTypes, LookupsHold, Fate
    <3>3. CASE FallDue(i) \/ LedgerCloses(i)
      BY <2>2, <3>3 DEF FallDue, LedgerCloses, ClaimableInv, ClaimableTypes,
                        LookupsHold, SuccessKept
    <3> QED  BY <1>3, <3>1, <3>2, <3>3
  <2>4. UNCHANGED submitting
    BY <1>3 DEF FallDue, LedgerCloses, WorkerLooks, WorkerRecords
  <2>5. ClaimableTypes' /\ SubmissionsAtWork'
    BY <2>1, <2>2, <2>3, <2>4, RowsKeptTypes
       DEF ClaimableInv, ClaimableTypes, SubmissionsAtWork
  <2> QED  BY <2>1, <2>2, <2>3, <2>5, ClaimableInvByParts
<1> QED  BY <1>1, <1>2, <1>3

-----------------------------------------------------------------------------
(* Preparations: a key gets one intent. *)

LEMMA PrepareEffect ==
  ASSUME ClaimableInv, OneIntentPerKey, NEW i \in Intent,
         NEW k \in IntentKey, NEW form \in Form \cup {NoForm}, Prepare(i, k, form)
  PROVE  ClaimableInv' /\ OneIntentPerKey'
<1> DEFINE row == [status |-> "prepared", transfer |-> "prepared", key |-> k, form |-> form]
<1>1. row \in IntentRow /\ intent[i].status = "none" /\ intent' = [intent EXCEPT ![i] = row]
  BY DEF Prepare, NoIntentRow, IntentRow, IntentStatus
<1>2. \A j \in Intent : intent[j].key # k  BY DEF Prepare, KeyedBy
<1>3. UNCHANGED <<chain, lookup, submitting>>  BY DEF Prepare
<1>4. ClaimableTypes' /\ SubmissionsAtWork' /\ LookupsHold'
  BY <1>1, <1>3 DEF ClaimableInv, ClaimableTypes, SubmissionsAtWork, LookupsHold
<1>5. ConfirmedOnChain'
  BY <1>1, <1>3 DEF ClaimableInv, ClaimableTypes, ConfirmedOnChain
<1>6. OneIntentPerKey'
  BY <1>1, <1>2 DEF OneIntentPerKey, ClaimableInv, ClaimableTypes
<1> QED  BY <1>4, <1>5, <1>6 DEF ClaimableInv

(* What changes no key keeps one intent per key. *)
LEMMA KeysKept ==
  ASSUME ClaimableInv, RowsKept
  PROVE  /\ \A i \in Intent : intent'[i].key = intent[i].key
         /\ OneIntentPerKey => OneIntentPerKey'
<1>1. \A i \in Intent : intent'[i].key = intent[i].key
  BY DEF RowsKept, Updated, MayBecome, ClaimableInv, ClaimableTypes
<1> QED  BY <1>1 DEF OneIntentPerKey

-----------------------------------------------------------------------------
(* The page. *)

LEMMA PageStep ==
  ASSUME ClaimableInv, SigningInv, NextSigning
  PROVE  /\ ClaimableInv'
         /\ RowsKept \/ \E i \in Intent, k \in IntentKey, form \in Form \cup {NoForm} :
                          Prepare(i, k, form)
<1> USE DEF SigningInv
<1>1. ASSUME UNCHANGED claimableVars  PROVE ClaimableInv' /\ RowsKept
  BY <1>1 DEF claimableVars, RowsKept, ClaimableInv, ClaimableTypes,
              SubmissionsAtWork, LookupsHold, ConfirmedOnChain
<1>2. CASE \/ LoadBalance \/ StartPrepare \/ StartSign \/ StartReconcile
           \/ PrepareFails \/ WalletRefuses \/ PollFails \/ SubmissionUnanswered
           \/ \E form \in Form : ResetPayment(form)
  BY <1>1, <1>2 DEF LoadBalance, StartPrepare, StartSign, StartReconcile, PrepareFails,
                    WalletRefuses, PollFails, SubmissionUnanswered, ResetPayment, Only
<1>3. CASE Poll
  BY <1>3, LookKeepsInv DEF Poll, PageAtWork
<1>4. ASSUME NEW i \in Intent, PrepareAnswers(i)
      PROVE  /\ ClaimableInv'
             /\ RowsKept \/ Prepare(i, signing.key, signing.form)
             /\ signing.key \in IntentKey /\ signing.form \in Form \cup {NoForm}
  <2>1. signing.key \in IntentKey /\ signing.form \in Form \cup {NoForm}
    BY <1>4 DEF PrepareAnswers, PageAtWork, SigningTypes
  <2> QED
    BY <1>1, <1>4, <2>1, PrepareEffect DEF PrepareAnswers, PreparedAlready
<1>5. ASSUME NEW r \in Submission, WalletSigns(r) \/ SubmissionServed(r) \/ SubmissionEnds(r)
      PROVE  ClaimableInv' /\ RowsKept
  BY <1>5, SubmissionKeepsInv, SubmissionEdgesKeepInv
     DEF WalletSigns, SubmissionServed, SubmissionEnds, PageAtWork, RowsKept
<1>6. CASE NextReconciliation  BY <1>6, ReconciliationKeepsInv
<1> QED  BY <1>2, <1>3, <1>4, <1>5, <1>6 DEF NextSigning

(* A key that was given to an intent stays with it. *)
LEMMA KeysStay ==
  ASSUME ClaimableInv, SigningInv, NextSigning
  PROVE  /\ \A i \in Intent : intent[i].key \in IntentKey => intent'[i].key = intent[i].key
         /\ OneIntentPerKey'
<1>1. CASE RowsKept  BY <1>1, KeysKept DEF SigningInv
<1>2. ASSUME NEW i \in Intent, NEW k \in IntentKey, NEW form \in Form \cup {NoForm},
             Prepare(i, k, form)
      PROVE  /\ \A j \in Intent : intent[j].key \in IntentKey => intent'[j].key = intent[j].key
             /\ OneIntentPerKey'
  <2>1. intent[i].key \notin IntentKey
    BY <1>2, ClaimableAssumption DEF Prepare, NoIntentRow
  <2> QED
    BY <1>2, <2>1, PrepareEffect DEF Prepare, SigningInv, ClaimableInv, ClaimableTypes
<1> QED  BY <1>1, <1>2, PageStep

LEMMA RequestKeyIsKey ==
  ASSUME SigningTypes, signing.key = NoIntentKey => \E k \in IntentKey : KeyedBy(k) = {}
  PROVE  /\ RequestKey \in IntentKey
         /\ signing.key \in IntentKey => RequestKey = signing.key
BY ClaimableAssumption DEF RequestKey, SigningTypes

(* A step of the page that leaves its key keeps the form under its key. *)
LEMMA FormedStays ==
  ASSUME ClaimableInv, SigningInv, NextSigning,
         formed' = formed, signing.key \in IntentKey => signing'.key = signing.key
  PROVE  FormedUnderKey'
BY KeysStay DEF SigningInv, SigningTypes, FormedUnderKey

LEMMA PageKeepsInv ==
  ASSUME ClaimableInv, SigningInv, NextSigning
  PROVE  SigningInv'
<1> USE DEF SigningInv
<1>0. OneIntentPerKey'  BY KeysStay
<1> SUFFICES SigningTypes' /\ PageAtWork' /\ FormedUnderKey'  BY <1>0
<1>1. CASE UNCHANGED <<signing, formed>>
  BY <1>1, FormedStays DEF SigningTypes, PageAtWork
<1>2. CASE LoadBalance
  <2>1. signing' = [signing EXCEPT !.loaded = signing.form] /\ formed' = formed
    BY <1>2 DEF LoadBalance, Only
  <2> QED  BY <2>1, FormedStays DEF SigningTypes, PageAtWork
<1>3. ASSUME NEW form \in Form, ResetPayment(form)
      PROVE  SigningTypes' /\ PageAtWork' /\ FormedUnderKey'
  BY <1>3 DEF ResetPayment, Page, Nothing, Shown, SigningTypes, PageAtWork, FormedUnderKey,
              Phase, IntentStatus
<1>4. CASE StartPrepare
  <2>1. RequestKey \in IntentKey /\ (signing.key \in IntentKey => RequestKey = signing.key)
    BY <1>4, RequestKeyIsKey DEF StartPrepare
  <2>2. /\ signing' = [signing EXCEPT !.phase = "preparing", !.key = RequestKey]
        /\ formed' = formed
    BY <1>4 DEF StartPrepare, Only
  <2> QED  BY <2>1, <2>2, FormedStays DEF SigningTypes, PageAtWork, Phase
<1>5. CASE StartSign \/ StartReconcile
  <2>1. formed' = formed /\ signing.shown.intent \in Intent
    BY <1>5 DEF StartSign, StartReconcile, Only, PageAtWork
  <2>2. CASE signing' = [signing EXCEPT !.phase = "signing"]
    BY <2>1, <2>2, FormedStays DEF SigningTypes, PageAtWork, Phase
  <2>3. CASE signing' = [signing EXCEPT !.phase = "reconciling", !.polls = 0]
    BY <2>1, <2>3, FormedStays DEF SigningTypes, PageAtWork, Phase
  <2> QED  BY <1>5, <2>2, <2>3 DEF StartSign, StartReconcile, Only
<1>6. CASE signing' = SigningFails /\ formed' = formed
  BY <1>6, FormedStays DEF SigningFails, SigningTypes, PageAtWork, Phase
<1>7. ASSUME NEW i \in Intent, PrepareAnswers(i)
      PROVE  SigningTypes' /\ PageAtWork' /\ FormedUnderKey'
  <2>1. signing.key \in IntentKey /\ intent'[i].key = signing.key
    BY <1>7 DEF PrepareAnswers, Prepare, PreparedAlready, PageAtWork, claimableVars,
                ClaimableInv, ClaimableTypes
  <2>2. intent'[i].status \in IntentStatus
    BY PageStep DEF ClaimableInv, ClaimableTypes, IntentRow
  <2>3. formed' \in {formed, formed \cup {i}}  BY <1>7 DEF PrepareAnswers
  <2> DEFINE shown == Shown(i, intent'[i].status)
  <2>4. shown \in [intent : Intent, status : IntentStatus]  BY <2>2 DEF Shown
  <2>5. ASSUME signing'.key = signing.key  PROVE FormedUnderKey'
    BY <2>1, <2>3, <2>5, KeysStay DEF FormedUnderKey, SigningTypes
  <2> HIDE DEF shown
  <2>6. CASE signing' = SigningFails
    BY <2>3, <2>5, <2>6 DEF SigningFails, SigningTypes, PageAtWork, Phase
  <2>7. CASE signing' = [signing EXCEPT !.phase = "signing", !.shown = shown]
    BY <2>3, <2>4, <2>5, <2>7 DEF SigningTypes, PageAtWork, Phase
  <2> QED  BY <1>7, <2>6, <2>7 DEF PrepareAnswers, shown
<1>8. ASSUME NEW r \in Submission, WalletSigns(r)
      PROVE  SigningTypes' /\ PageAtWork' /\ FormedUnderKey'
  <2>1. /\ signing' = [signing EXCEPT !.phase = "submitting", !.submission = r]
        /\ formed' = formed /\ signing.shown.intent \in Intent
    BY <1>8 DEF WalletSigns, PageAtWork
  <2> QED  BY <2>1, FormedStays DEF SigningTypes, PageAtWork, Phase
<1>9. ASSUME NEW r \in Submission, SubmissionEnds(r)
      PROVE  SigningTypes' /\ PageAtWork' /\ FormedUnderKey'
  <2> DEFINE answered == [signing EXCEPT !.phase = "reconciling", !.submission = "none",
                            !.polls = 0, !.shown = Shown(Of(r), submitting[r].answer)]
  <2>1. formed' = formed /\ signing' \in {signing, SigningFails, answered}
    BY <1>9 DEF SubmissionEnds
  <2>2. CASE signing' = answered /\ submitting[r].pc = "answer"
    <3>1. Of(r) \in Intent /\ submitting[r].answer \in IntentStatus
      BY <2>2 DEF Of, ClaimableInv, ClaimableTypes, SubmissionsAtWork, SubmissionState
    <3> QED
      BY <2>1, <2>2, <3>1, FormedStays DEF Shown, SigningTypes, PageAtWork, Phase
  <2> QED  BY <1>1, <1>6, <1>9, <2>1, <2>2 DEF SubmissionEnds
<1>10. CASE Poll
  <2> DEFINE i == signing.shown.intent
             shown == Shown(i, intent'[i].status)
  <2>1. i \in Intent  BY <1>10 DEF Poll, PageAtWork
  <2>2. shown \in [intent : Intent, status : IntentStatus]
    BY <2>1, PageStep DEF ClaimableInv, ClaimableTypes, IntentRow, Shown
  <2>3. PICK p \in {"confirmed", "error", "reconciling"} :
          signing' = [signing EXCEPT !.shown = shown, !.polls = signing.polls + 1, !.phase = p]
    BY <1>10 DEF Poll, SigningTypes
  <2>4. formed' = formed  BY <1>10 DEF Poll
  <2> HIDE DEF shown
  <2>5. FormedUnderKey'  BY <2>3, <2>4, FormedStays DEF SigningTypes
  <2>6. SigningTypes'
    <3>1. signing.polls + 1 \in Nat  BY DEF SigningTypes
    <3> QED  BY <2>2, <2>3, <2>4, <3>1 DEF SigningTypes, Phase
  <2>7. PageAtWork'  BY <2>2, <2>3 DEF SigningTypes, PageAtWork
  <2> QED  BY <2>5, <2>6, <2>7
<1> QED
  <2>1. CASE PrepareFails \/ WalletRefuses \/ PollFails \/ SubmissionUnanswered
    BY <1>6, <2>1 DEF PrepareFails, WalletRefuses, PollFails, SubmissionUnanswered, Only
  <2>2. ASSUME NEW r \in Submission, SubmissionServed(r)
        PROVE  SigningTypes' /\ PageAtWork' /\ FormedUnderKey'
    BY <1>1, <1>6, <2>2 DEF SubmissionServed
  <2> QED
    BY <1>1, <1>2, <1>3, <1>4, <1>5, <1>7, <1>8, <1>9, <1>10, <2>1, <2>2 DEF NextSigning

-----------------------------------------------------------------------------
(* The inductive invariant of the scene with its page. *)

TransferInv == ClaimableInv /\ SigningInv

LEMMA TransferInit == InitWallets => TransferInv
<1> SUFFICES ASSUME InitWallets  PROVE TransferInv  OBVIOUS
<1> USE DEF InitWallets, InitClaimable, InitSigning, IntentStatus
<1>1. NoIntentRow \in IntentRow  BY DEF NoIntentRow, IntentRow
<1>2. NoSubmission \in SubmissionState  BY DEF NoSubmission, SubmissionState
<1>3. ClaimableTypes  BY <1>1, <1>2 DEF ClaimableTypes, Fate
<1>4. SubmissionsAtWork /\ LookupsHold /\ ConfirmedOnChain
  BY DEF SubmissionsAtWork, LookupsHold, ConfirmedOnChain, NoSubmission, NoIntentRow
<1>5. SigningTypes /\ PageAtWork
  BY DEF SigningTypes, PageAtWork, Page, Nothing, Shown, Phase
<1>6. OneIntentPerKey /\ FormedUnderKey
  BY ClaimableAssumption DEF OneIntentPerKey, FormedUnderKey, NoIntentRow
<1> QED  BY <1>3, <1>4, <1>5, <1>6 DEF TransferInv, ClaimableInv, SigningInv

LEMMA TransferNext == TransferInv /\ [NextWallets]_walletVars => TransferInv'
<1> SUFFICES ASSUME TransferInv, [NextWallets]_walletVars  PROVE TransferInv'
  OBVIOUS
<1>1. CASE UNCHANGED signingVars
  BY <1>1 DEF TransferInv, signingVars, claimableVars, ClaimableInv, ClaimableTypes,
              SubmissionsAtWork, LookupsHold, ConfirmedOnChain,
              SigningInv, SigningTypes, PageAtWork, OneIntentPerKey, FormedUnderKey
<1>2. CASE NextSigning
  BY <1>2, PageStep, PageKeepsInv DEF TransferInv
<1> QED  BY <1>1, <1>2 DEF NextWallets, walletVars

LEMMA TransferInvariant == SpecWallets => []TransferInv
BY TransferInit, TransferNext, PTL DEF SpecWallets

(* A claimable balance or its transfer is confirmed only together, and     *)
(* only if the network applied the transaction.                            *)
THEOREM BalancesConfirmedOnChain == SpecWallets => []ConfirmedOnChain
<1>1. TransferInv => ConfirmedOnChain  BY DEF TransferInv, ClaimableInv
<1> QED  BY <1>1, TransferInvariant, PTL

(* A confirmed balance stays confirmed, whatever answer comes late. *)
THEOREM ConfirmedBalanceStands == SpecWallets => ClaimableStands
<1>1. ASSUME TransferInv, [NextWallets]_walletVars
      PROVE  [\A i \in Intent : intent[i].status = "confirmed"
                => intent'[i] = intent[i]]_claimableVars
  <2>1. CASE NextSigning
    <3>1. CASE RowsKept  BY <3>1, <1>1, StandsByParts DEF TransferInv
    <3>2. ASSUME NEW i \in Intent, NEW k \in IntentKey, NEW form \in Form \cup {NoForm},
                 Prepare(i, k, form)
          PROVE  \A j \in Intent : intent[j].status = "confirmed" => intent'[j] = intent[j]
      BY <1>1, <3>2 DEF Prepare, NoIntentRow, TransferInv, ClaimableInv, ClaimableTypes
    <3> QED  BY <1>1, <2>1, <3>1, <3>2, PageStep DEF TransferInv
  <2> QED  BY <1>1, <2>1 DEF NextWallets, walletVars, signingVars
<1> QED  BY <1>1, TransferInvariant, PTL DEF SpecWallets, ClaimableStands

(* However often the button is pressed after errors and lost answers, one  *)
(* form is sent to the network at most once: all intents of a form were    *)
(* prepared under the one key of the page.                                 *)
THEOREM FormsPaidOnce == SpecWallets => []FormPaidOnce
<1>1. ASSUME TransferInv  PROVE FormPaidOnce
  <2> DEFINE sent == {i \in formed : chain[i] # "none"}
  <2>1. \A i, j \in sent : i = j
    BY <1>1 DEF TransferInv, SigningInv, SigningTypes, FormedUnderKey, OneIntentPerKey
  <2>2. sent = {} \/ \E i : sent = {i}  BY <2>1
  <2>3. Cardinality(sent) \in {0, 1}
    BY <2>2, FS_EmptySet, FS_Singleton
  <2> QED  BY <2>3 DEF FormPaidOnce
<1> QED  BY <1>1, TransferInvariant, PTL

-----------------------------------------------------------------------------
(* Links. *)

ChallengeRow == [state : {"none", "open", "expired", "replaced", "used"},
                 customer : Customer \cup {NoCustomer}]
AttemptState == [step : {"none", "challenging", "signing", "verifying"},
                 customer : Customer \cup {NoCustomer},
                 challenge : Challenge \cup {NoChallenge},
                 verdict : {"none", "linked", "refused"}]
LinkTypes ==
  challenge \in [Challenge -> ChallengeRow] /\ attempt \in [Attempt -> AttemptState]

LEMMA LinkTypesInit == InitWallets => LinkTypes
BY DEF InitWallets, InitLinks, LinkTypes, ChallengeRow, AttemptState, NoChallengeRow, NoAttempt

LEMMA ChallengeRows ==
  ASSUME LinkTypes, NEW h \in Challenge, NEW c \in Customer \cup {NoCustomer}
  PROVE  /\ Issue(c, h) => challenge' \in [Challenge -> ChallengeRow]
         /\ \A state \in {"expired", "used"} :
              [challenge EXCEPT ![h].state = state] \in [Challenge -> ChallengeRow]
<1>1. \A g \in Challenge, state \in {"expired", "replaced", "used"} :
        [challenge[g] EXCEPT !.state = state] \in ChallengeRow
  BY DEF LinkTypes, ChallengeRow
<1>2. [state |-> "open", customer |-> c] \in ChallengeRow  BY DEF ChallengeRow
<1>3. Issue(c, h) => challenge' \in [Challenge -> ChallengeRow]
  BY <1>1, <1>2 DEF Issue, LinkTypes
<1>4. \A state \in {"expired", "used"} :
        [challenge EXCEPT ![h].state = state] \in [Challenge -> ChallengeRow]
  BY <1>1 DEF LinkTypes
<1> QED  BY <1>3, <1>4

LEMMA AttemptStates ==
  ASSUME LinkTypes, NEW a \in Attempt
  PROVE  /\ attempt[a] \in AttemptState /\ NoAttempt \in AttemptState
         /\ \A step \in {"challenging", "signing", "verifying"} :
              [attempt[a] EXCEPT !.step = step] \in AttemptState
         /\ \A c \in Customer :
              [attempt[a] EXCEPT !.step = "challenging", !.customer = c] \in AttemptState
         /\ \A h \in Challenge :
              [attempt[a] EXCEPT !.step = "signing", !.challenge = h] \in AttemptState
         /\ \A verdict \in {"linked", "refused"} :
              [attempt[a] EXCEPT !.verdict = verdict] \in AttemptState
BY DEF LinkTypes, AttemptState, NoAttempt

LEMMA LinkTypesNext == LinkTypes /\ [NextWallets]_walletVars => LinkTypes'
<1> SUFFICES ASSUME LinkTypes, [NextWallets]_walletVars  PROVE LinkTypes'
  OBVIOUS
<1>1. CASE UNCHANGED linkVars  BY <1>1 DEF linkVars, LinkTypes
<1>2. ASSUME NEW a \in Attempt, NEW row \in AttemptState, attempt' = [attempt EXCEPT ![a] = row]
      PROVE  attempt' \in [Attempt -> AttemptState]
  BY <1>2 DEF LinkTypes
<1>3. ASSUME NEW a \in Attempt, NEW c \in Customer, ConnectWallet(a, c)  PROVE LinkTypes'
  <2>1. attempt' = [attempt EXCEPT ![a] =
                     [attempt[a] EXCEPT !.step = "challenging", !.customer = c]]
    BY <1>3 DEF ConnectWallet, LinkTypes
  <2> QED  BY <1>2, <1>3, <2>1, AttemptStates DEF ConnectWallet, LinkTypes
<1>4. ASSUME NEW a \in Attempt, NEW h \in Challenge, CreateChallenge(a, h) \/ ChallengeLost(a, h)
      PROVE  LinkTypes'
  <2>1. CustomerOf(a) \in Customer \cup {NoCustomer} /\ Issue(CustomerOf(a), h)
    BY <1>4, AttemptStates DEF CreateChallenge, ChallengeLost, CustomerOf, AttemptState
  <2>2. \E row \in AttemptState : attempt' = [attempt EXCEPT ![a] = row]
    <3>1. CASE attempt' = [attempt EXCEPT ![a].step = "signing", ![a].challenge = h]
      <4>1. attempt' = [attempt EXCEPT ![a] =
                         [attempt[a] EXCEPT !.step = "signing", !.challenge = h]]
        BY <3>1 DEF LinkTypes
      <4> QED  BY <4>1, AttemptStates
    <3> QED  BY <1>4, <3>1, AttemptStates DEF CreateChallenge, ChallengeLost
  <2> QED  BY <1>2, <2>1, <2>2, ChallengeRows DEF LinkTypes
<1>5. ASSUME NEW a \in Attempt,
             \/ SignChallenge(a) \/ VerifyAnswered(a)
             \/ ChallengeFails(a) \/ SigningRefused(a) \/ VerifyFails(a)
      PROVE  LinkTypes'
  <2>1. UNCHANGED challenge
    BY <1>5 DEF SignChallenge, VerifyAnswered, ChallengeFails, SigningRefused, VerifyFails, GivesUp
  <2>2. \/ attempt' = [attempt EXCEPT ![a] = NoAttempt]
        \/ attempt' = [attempt EXCEPT ![a] = [attempt[a] EXCEPT !.step = "verifying"]]
    BY <1>5 DEF SignChallenge, Goes, VerifyAnswered, ChallengeFails, SigningRefused,
                VerifyFails, GivesUp, LinkTypes
  <2> QED  BY <1>2, <2>1, <2>2, AttemptStates DEF LinkTypes
<1>6. ASSUME NEW c \in Customer,
             AskUnlink(c) \/ Unlink(c) \/ UnlinkAnswered(c) \/ UnlinkFails(c)
      PROVE  LinkTypes'
  BY <1>6 DEF AskUnlink, Unlink, UnlinkAnswered, UnlinkFails, UnlinkEnds, LinkTypes
<1>7. ASSUME NEW h \in Challenge, ExpireChallenge(h)  PROVE LinkTypes'
  BY <1>7, ChallengeRows DEF ExpireChallenge, LinkTypes
<1>8. ASSUME NEW h \in Challenge, Verify(h)  PROVE LinkTypes'
  <2>1. PICK verdict \in {"linked", "refused"} :
          attempt' = [a \in Attempt |->
            IF attempt[a].challenge = h /\ attempt[a].step = "verifying" /\ attempt[a].verdict = "none"
              THEN [attempt[a] EXCEPT !.verdict = verdict] ELSE attempt[a]]
    BY <1>8 DEF Verify
  <2>2. attempt' \in [Attempt -> AttemptState]  BY <2>1, AttemptStates
  <2>3. challenge' \in [Challenge -> ChallengeRow]
    BY <1>8, ChallengeRows DEF Verify, LinkTypes
  <2> QED  BY <2>2, <2>3 DEF LinkTypes
<1> QED
  BY <1>1, <1>3, <1>4, <1>5, <1>6, <1>7, <1>8 DEF NextWallets, NextLinks, walletVars

(* A link appears only by using up an open challenge of its customer, and  *)
(* the account passes to another customer only after its link was removed. *)
THEOREM LinksNeedFreshProof == SpecWallets => LinkNeedsFreshProof
<1> DEFINE Fresh ==
      link' # link /\ link' # NoCustomer =>
        /\ link = NoCustomer
        /\ \E h \in signed : /\ challenge[h] = [state |-> "open", customer |-> link']
                             /\ challenge'[h].state = "used"
<1>1. SpecWallets => []LinkTypes  BY LinkTypesInit, LinkTypesNext, PTL DEF SpecWallets
<1>2. ASSUME LinkTypes, NextLinks  PROVE Fresh
  <2>1. ASSUME NEW h \in Challenge, Verify(h)  PROVE Fresh
    <3>1. CASE link' = link  BY <3>1
    <3>2. CASE link' # link
      <4>1. /\ h \in signed /\ Usable(h) /\ link' = challenge[h].customer
            /\ link \in {NoCustomer, link'}
            /\ challenge' = [challenge EXCEPT ![h].state = "used"]
        BY <2>1, <3>2 DEF Verify
      <4>2. challenge[h] \in ChallengeRow  BY <1>2 DEF LinkTypes
      <4>3. challenge[h] = [state |-> "open", customer |-> link']
        BY <4>1, <4>2 DEF ChallengeRow, Usable
      <4>4. challenge'[h].state = "used"  BY <1>2, <4>1, <4>2 DEF LinkTypes, ChallengeRow
      <4> QED  BY <3>2, <4>1, <4>3, <4>4
    <3> QED  BY <3>1, <3>2
  <2>2. link' \in {link, NoCustomer} \/ \E h \in Challenge : Verify(h)
    BY <1>2 DEF NextLinks, ConnectWallet, CreateChallenge, ChallengeLost, SignChallenge,
                VerifyAnswered, ChallengeFails, SigningRefused, VerifyFails, GivesUp, AskUnlink,
                Unlink, UnlinkAnswered, UnlinkFails, UnlinkEnds, ExpireChallenge
  <2> QED  BY <2>1, <2>2
<1>3. LinkTypes /\ [NextWallets]_walletVars => [Fresh]_linkVars
  BY <1>2 DEF NextWallets, walletVars
<1> QED  BY <1>1, <1>3, PTL DEF SpecWallets, LinkNeedsFreshProof

-----------------------------------------------------------------------------
(* Escrows: the inductive invariant. *)

EscrowRow == [status : {"none", "Open", "Complete", "Refunded"}, funder : Address,
              beneficiary : Address, arbiter : Address, token : Token \cup {"none"},
              total : Int, released : Int, next : Nat, count : Nat, refundAfter : Int]
EscrowTypes ==
  /\ escrow \in [Escrow -> EscrowRow]
  /\ milestone \in [Escrow -> Seq([amount : Int, released : BOOLEAN])]
  /\ balance \in [Address -> [Token -> Int]]

(* An escrow that was not created is empty; one that was has a token, is   *)
(* released up to one of its milestones, and all of them are positive.     *)
EscrowShape ==
  \A e \in Escrow :
    /\ escrow[e].status = "none" => escrow[e] = NotFound
    /\ escrow[e].status # "none" => /\ escrow[e].token \in Token
                                    /\ escrow[e].next <= escrow[e].count
    /\ \A i \in DOMAIN milestone[e] : milestone[e][i].amount > 0

EscrowInv == EscrowTypes /\ EscrowShape /\ BooksBalance


(* The entry and the amounts of an escrow that was created. *)
Amounts(m) == [i \in DOMAIN m |-> m[i].amount]

LEMMA Entry ==
  ASSUME EscrowInv, NEW e \in Escrow, escrow[e].status # "none"
  PROVE  /\ escrow[e] \in EscrowRow /\ escrow[e].token \in Token
         /\ milestone[e] \in Seq([amount : Int, released : BOOLEAN])
         /\ escrow[e].count = Len(milestone[e]) /\ DOMAIN milestone[e] = 1..escrow[e].count
         /\ \A i \in 1..escrow[e].count : Amounts(milestone[e])[i] \in Nat \ {0}
         /\ escrow[e].total = SumFunctionOnSet(Amounts(milestone[e]), 1..escrow[e].count)
         /\ escrow[e].released = SumFunctionOnSet(Amounts(milestone[e]), 1..escrow[e].next)
         /\ \A i \in 1..escrow[e].count : milestone[e][i].released <=> i <= escrow[e].next
         /\ escrow[e].status = "Complete" <=> escrow[e].next = escrow[e].count
         /\ escrow[e].status = "Open" => escrow[e].total > escrow[e].released
         /\ escrow[e].next <= escrow[e].count
<1>1. /\ escrow[e] \in EscrowRow
      /\ milestone[e] \in Seq([amount : Int, released : BOOLEAN])
  BY DEF EscrowInv, EscrowTypes
<1>2. escrow[e].count = Len(milestone[e])  BY DEF EscrowInv, BooksBalance
<1>3. DOMAIN milestone[e] = 1..escrow[e].count  BY <1>1, <1>2
<1>4. \A i \in 1..escrow[e].count : Amounts(milestone[e])[i] \in Nat \ {0}
  <2>1. ASSUME NEW i \in 1..escrow[e].count  PROVE Amounts(milestone[e])[i] \in Nat \ {0}
    <3>1. milestone[e][i].amount \in Int
      <4>1. milestone[e][i] \in [amount : Int, released : BOOLEAN]
        BY <1>1, <1>2, ElementOfSeq
      <4> QED  BY <4>1
    <3>2. milestone[e][i].amount > 0  BY <1>3 DEF EscrowInv, EscrowShape
    <3> QED  BY <1>3, <3>1, <3>2 DEF Amounts
  <2> QED  BY <2>1
<1>5. DOMAIN Amounts(milestone[e]) = 1..escrow[e].count  BY <1>3 DEF Amounts
<1>6. /\ escrow[e].total = SumFunctionOnSet(Amounts(milestone[e]), 1..escrow[e].count)
      /\ escrow[e].released = SumFunctionOnSet(Amounts(milestone[e]), 1..escrow[e].next)
  BY <1>5 DEF EscrowInv, BooksBalance, Amounts, SumFunction
<1> QED  BY <1>1, <1>2, <1>3, <1>4, <1>6 DEF EscrowInv, EscrowShape, BooksBalance

(* The milestone to release next is within what the escrow still owes, and *)
(* all of it only if it is the last.                                       *)
LEMMA NextMilestone ==
  ASSUME EscrowInv, NEW e \in Escrow, escrow[e].status = "Open"
  PROVE  LET i == escrow[e].next + 1
             amount == milestone[e][i].amount
         IN /\ i \in 1..escrow[e].count /\ amount \in Nat \ {0}
            /\ escrow[e].released + amount
                 = SumFunctionOnSet(Amounts(milestone[e]), 1..i)
            /\ escrow[e].released + amount <= escrow[e].total
            /\ i = escrow[e].count <=> escrow[e].released + amount = escrow[e].total
<1> DEFINE n == escrow[e].count
           k == escrow[e].next
           f == Amounts(milestone[e])
           Sum(j) == SumFunctionOnSet(f, 1..j)
<1>1. n \in Nat /\ k \in Nat /\ k < n
  BY Entry DEF EscrowRow
<1>2. \A j \in 1..n : f[j] \in Nat \ {0}  BY Entry
<1>3. Sum(k + 1) = Sum(k) + f[k + 1]
  <2>1. \A j \in 1..n : f[j] \in Int  BY <1>2
  <2> HIDE DEF n, k, f
  <2> QED  BY <1>1, <2>1, SumPrefix
<1>4. k + 1 < n => Sum(k + 1) < Sum(n)  BY <1>1, <1>2, SumPrefixGrows
<1>5. k + 1 \in 1..n /\ f[k + 1] = milestone[e][k + 1].amount
  <2>1. k + 1 \in 1..n  BY <1>1
  <2>2. DOMAIN milestone[e] = 1..n  BY Entry
  <2> QED  BY <2>1, <2>2 DEF Amounts
<1>6. escrow[e].total = Sum(n) /\ escrow[e].released = Sum(k)  BY Entry
<1>7. escrow[e].total \in Int /\ escrow[e].released \in Int  BY Entry DEF EscrowRow
<1>8. Sum(n) \in Int /\ Sum(k) \in Int /\ f[k + 1] \in Nat \ {0}
  BY <1>2, <1>5, <1>6, <1>7
<1>9. k + 1 = n => Sum(k + 1) = Sum(n)  OBVIOUS
<1> HIDE DEF Sum
<1>10. /\ Sum(k) + f[k + 1] <= Sum(n)
       /\ k + 1 = n <=> Sum(k) + f[k + 1] = Sum(n)
  BY <1>1, <1>3, <1>4, <1>8, <1>9
<1> QED  BY <1>3, <1>5, <1>6, <1>8, <1>10 DEF Sum


(* What is written into one escrow keeps the invariant of all of them. *)
EntryOK(row, m) ==
  /\ row \in EscrowRow /\ m \in Seq([amount : Int, released : BOOLEAN])
  /\ row.status # "none" /\ row.token \in Token /\ row.next <= row.count
  /\ \A i \in DOMAIN m : m[i].amount > 0
  /\ row.count = Len(m)
  /\ row.total = SumFunctionOnSet(Amounts(m), DOMAIN m)
  /\ row.released = SumFunctionOnSet(Amounts(m), 1..row.next)
  /\ \A i \in 1..row.count : m[i].released <=> i <= row.next
  /\ row.status = "Complete" <=> row.next = row.count
  /\ row.status = "Open" => row.total > row.released

LEMMA EntryWritten ==
  ASSUME EscrowInv, NEW e \in Escrow, NEW row, NEW m, EntryOK(row, m),
         escrow' = [escrow EXCEPT ![e] = row], milestone' = [milestone EXCEPT ![e] = m],
         balance' \in [Address -> [Token -> Int]]
  PROVE  EscrowInv'
<1>1. /\ \A d \in Escrow : escrow'[d] = IF d = e THEN row ELSE escrow[d]
      /\ \A d \in Escrow : milestone'[d] = IF d = e THEN m ELSE milestone[d]
  BY DEF EscrowInv, EscrowTypes
<1>2. EscrowTypes'  BY DEF EscrowInv, EscrowTypes, EntryOK
<1>3. EscrowShape'  BY <1>1 DEF EscrowInv, EscrowShape, EntryOK
<1>4. BooksBalance'
  <2> SUFFICES ASSUME NEW d \in Escrow, escrow'[d].status # "none"
               PROVE  LET r == escrow'[d]
                          amounts == [i \in DOMAIN milestone'[d] |-> milestone'[d][i].amount]
                      IN /\ r.count = Len(milestone'[d])
                         /\ r.total = SumFunction(amounts)
                         /\ r.released = SumFunctionOnSet(amounts, 1..r.next)
                         /\ \A i \in 1..r.count : milestone'[d][i].released <=> i <= r.next
                         /\ r.status = "Complete" <=> r.next = r.count
                         /\ r.status = "Open" => r.total > r.released
    BY DEF BooksBalance
  <2>1. CASE d # e  BY <1>1, <2>1 DEF EscrowInv, BooksBalance
  <2>2. CASE d = e
    <3>1. DOMAIN Amounts(m) = DOMAIN m  BY DEF Amounts
    <3> QED  BY <1>1, <2>2, <3>1 DEF EntryOK, Amounts, SumFunction
  <2> QED  BY <2>1, <2>2
<1> QED  BY <1>2, <1>3, <1>4 DEF EscrowInv

LEMMA EntryKept ==
  ASSUME EscrowInv, UNCHANGED <<escrow, milestone>>,
         balance' \in [Address -> [Token -> Int]]
  PROVE  EscrowInv'
BY DEF EscrowInv, EscrowTypes, EscrowShape, BooksBalance

(* What a transfer does to the balances, and to the contract's. *)
Balances == balance \in [Address -> [Token -> Int]]
Gains(t, amount) == balance'[Contract] = [balance[Contract] EXCEPT ![t] = @ + amount]
Loses(t, amount) == balance'[Contract] = [balance[Contract] EXCEPT ![t] = @ - amount]

LEMMA Transferred ==
  ASSUME Balances, NEW t \in Token, NEW from \in Address, NEW to \in Address,
         NEW amount \in Int, Transfer(t, from, to, amount)
  PROVE  /\ Balances'
         /\ from # Contract /\ to # Contract => balance'[Contract] = balance[Contract]
         /\ from = Contract /\ to = Contract => balance'[Contract] = balance[Contract]
         /\ from = Contract /\ to # Contract => Loses(t, amount)
         /\ from # Contract /\ to = Contract => Gains(t, amount)
<1> USE DEF Balances, Gains, Loses
<1>1. Contract \in Address  BY DEF Address
<1>2. balance \in [Address -> [Token -> Int]]  OBVIOUS
<1>3. CASE from = to  BY <1>1, <1>2, <1>3 DEF Transfer
<1>4. CASE from # to
  <2> DEFINE less == [balance[from] EXCEPT ![t] = @ - amount]
             more == [balance[to] EXCEPT ![t] = @ + amount]
  <2>1. balance' = [[balance EXCEPT ![from] = less] EXCEPT ![to] = more]
    BY <1>2, <1>4 DEF Transfer
  <2>2. less \in [Token -> Int] /\ more \in [Token -> Int]  BY <1>2
  <2> QED  BY <1>1, <1>2, <1>4, <2>1, <2>2
<1> QED  BY <1>3, <1>4


-----------------------------------------------------------------------------
(* Invocations of the contract: each keeps the invariant, and is a step of *)
(* EscrowCustody.                                                          *)

LEMMA KeptOf ==
  ASSUME EscrowInv, NEW e \in Escrow
  PROVE  /\ escrow[e].status = "none" => escrow[e].token = "none" /\ Owed(e) = 0
         /\ Owed(e) \in Int
BY DEF EscrowInv, EscrowTypes, EscrowShape, NotFound, Owed, EscrowRow

(* An escrow that pays an amount out of what it owes. *)
Pays(e, amount) ==
  /\ Owed(e) - Owed(e)' = amount /\ 0 <= Owed(e)' /\ Owed(e)' < Owed(e)
  /\ \A d \in Escrow : /\ d # e => Owed(d)' = Owed(d)
                       /\ escrow'[d].token = escrow[d].token

LEMMA PayStep ==
  ASSUME NEW e \in Escrow, NEW amount, Pays(e, amount)
  PROVE  /\ balance'[Contract] = balance[Contract] => Custody!PayItself(e)
         /\ Loses(escrow[e].token, amount) => Custody!Pay(e, escrow[e].token)
<1> DEFINE kept == [d \in Escrow |-> Owed(d)]
           token == [d \in Escrow |-> escrow[d].token]
<1>0. kept' = [d \in Escrow |-> Owed(d)']  BY DEF Owed
<1>1. /\ kept[e] = Owed(e) /\ kept'[e] = Owed(e)' /\ token[e] = escrow[e].token
      /\ token' = token
  <2>1. kept'[e] = Owed(e)'
    <3> HIDE DEF kept
    <3> QED  BY <1>0
  <2>2. \A d \in Escrow : escrow'[d].token = escrow[d].token  BY DEF Pays
  <2>3. token' = token  BY <2>2
  <2> QED  BY <2>1, <2>3
<1>2. kept' = [kept EXCEPT ![e] = kept'[e]]
  BY <1>1 DEF Pays
<1>3. kept[e] - kept'[e] = amount /\ 0 <= kept'[e] /\ kept'[e] < kept[e]
  BY <1>1 DEF Pays
<1> HIDE DEF kept, token
<1>4. balance'[Contract] = balance[Contract] => Custody!PayItself(e)
  BY <1>1, <1>2, <1>3 DEF Custody!PayItself, kept, token
<1>5. Loses(escrow[e].token, amount) => Custody!Pay(e, escrow[e].token)
  BY <1>1, <1>2, <1>3 DEF Custody!Pay, kept, token, Loses
<1> QED  BY <1>4, <1>5

LEMMA CreateStep ==
  ASSUME EscrowInv, NEW e \in Escrow, NEW f \in Account, NEW b \in Address, NEW a \in Address,
         NEW t \in Token, NEW amounts \in Milestones, NEW refundAfter \in 0..MaxTime,
         Create(e, f, b, a, t, amounts, refundAfter)
  PROVE  EscrowInv' /\ Custody!Fund(e, t)
<1> DEFINE n == Len(amounts)
           total == SumFunction(amounts)
           m == [i \in DOMAIN amounts |-> [amount |-> amounts[i], released |-> FALSE]]
           row == [status |-> "Open", funder |-> f, beneficiary |-> b, arbiter |-> a,
                   token |-> t, total |-> total, released |-> 0, next |-> 0,
                   count |-> n, refundAfter |-> refundAfter]
<1>1. /\ amounts \in Seq(Int) /\ MaxTime \in Nat /\ Contract \notin Account
      /\ f \in Address /\ Contract \in Address
  BY EscrowAssumption DEF Address
<1>2. n \in Nat \ {0} /\ DOMAIN amounts = 1..n
  BY <1>1, EscrowAssumption, LenProperties DEF Create
<1>3. \A i \in 1..n : amounts[i] \in Nat \ {0}
  <2>1. \A i \in 1..n : amounts[i] \in Int  BY <1>1, ElementOfSeq
  <2> QED  BY <1>2, <2>1 DEF Create, Positive
<1>4. /\ escrow' = [escrow EXCEPT ![e] = row] /\ milestone' = [milestone EXCEPT ![e] = m]
      /\ Transfer(t, f, Contract, total) /\ escrow[e].status = "none"
  BY DEF Create, Opened
<1>5. /\ SumFunctionOnSet(amounts, 1..0) = 0
      /\ SumFunctionOnSet(amounts, 1..n) \in Int
      /\ SumFunctionOnSet(amounts, 1..0) < SumFunctionOnSet(amounts, 1..n)
  <2>1. 1..0 = {} /\ IsFiniteSet(1..n)  BY <1>2, FS_Interval
  <2> QED  BY <1>2, <1>3, <2>1, SumEmpty, SumClosed, SumPrefixGrows
<1>6. total = SumFunctionOnSet(amounts, 1..n) /\ total \in Int /\ total > 0
  BY <1>2, <1>5 DEF SumFunction
<1>7. m \in Seq([amount : Int, released : BOOLEAN]) /\ Len(m) = n
  <2>1. m \in [1..n -> [amount : Int, released : BOOLEAN]]  BY <1>2, <1>3
  <2>2. m \in Seq([amount : Int, released : BOOLEAN])  BY <1>2, <2>1, IsASeq
  <2> QED  BY <1>2, <2>1, <2>2, LenProperties
<1>8. Amounts(m) = amounts
  <2>1. amounts \in [1..n -> Int]  BY <1>1, LenProperties
  <2> QED  BY <2>1 DEF Amounts
<1>9. row \in EscrowRow
  BY <1>1, <1>2, <1>6 DEF EscrowRow
<1>10. EntryOK(row, m)
  <2>1. /\ row.status = "Open" /\ row.next = 0 /\ row.released = 0 /\ row.total = total
        /\ row.count = n /\ row.token = t
    OBVIOUS
  <2>2. DOMAIN m = 1..n  BY <1>2
  <2>3. \A i \in 1..n : m[i].amount = amounts[i] /\ m[i].released = FALSE  BY <1>2
  <2> HIDE DEF row, m, total, n
  <2>4. \A i \in 1..row.count : m[i].released <=> i <= row.next
    <3>1. \A i \in 1..n : ~ (i <= 0)  BY <1>2
    <3> QED  BY <2>1, <2>3, <3>1
  <2>5. \A i \in DOMAIN m : m[i].amount > 0  BY <1>3, <2>2, <2>3
  <2>6. row.next <= row.count /\ row.next # row.count /\ row.total > row.released
    BY <1>2, <1>6, <2>1
  <2>7. /\ row.total = SumFunctionOnSet(Amounts(m), DOMAIN m)
        /\ row.released = SumFunctionOnSet(Amounts(m), 1..row.next)
    BY <1>5, <1>6, <1>8, <2>1, <2>2
  <2>8. row.status # "none" /\ row.status # "Complete" /\ row.token \in Token
        /\ row.count = Len(m)
    BY <1>7, <2>1
  <2>9. row.status = "Complete" <=> row.next = row.count  BY <2>6, <2>8
  <2> HIDE <2>1
  <2> QED
    BY <1>7, <1>9, <2>4, <2>5, <2>6, <2>7, <2>8, <2>9 DEF EntryOK
<1>11. Balances' /\ Gains(t, total)
  <2>1. f # Contract /\ Balances  BY <1>1 DEF Balances, EscrowInv, EscrowTypes
  <2> HIDE DEF total, row, m, n
  <2>2. Transfer(t, f, Contract, total) /\ total \in Int  BY <1>4, <1>6
  <2> QED  BY <1>1, <2>1, <2>2, Transferred
<1>12. EscrowInv'
  <2> HIDE DEF row, m
  <2> QED  BY <1>4, <1>10, <1>11, EntryWritten DEF Balances
<1>13. /\ escrow[e].token = "none" /\ Owed(e)' = total
       /\ \A d \in Escrow : d # e => Owed(d)' = Owed(d) /\ escrow'[d].token = escrow[d].token
       /\ escrow'[e].token = t
  BY <1>4, <1>6, KeptOf DEF Owed, EscrowInv, EscrowTypes
<1> HIDE DEF total
<1>14. Custody!Fund(e, t)
  BY <1>6, <1>11, <1>13 DEF Custody!Fund, Gains
<1> QED  BY <1>12, <1>14


LEMMA ReleaseStep ==
  ASSUME EscrowInv, NEW e \in Escrow, NEW signer \in Account, Release(e, signer)
  PROVE  EscrowInv' /\ (Custody!PayItself(e) \/ \E t \in Token : Custody!Pay(e, t))
<1> DEFINE row == escrow[e]
           i == row.next + 1
           amount == milestone[e][i].amount
           m == [milestone[e] EXCEPT ![i].released = TRUE]
           new == [row EXCEPT !.released = @ + amount, !.next = @ + 1,
                              !.status = IF i = row.count THEN "Complete" ELSE @]
           b == row.beneficiary
           t == row.token
           Sum(k) == SumFunctionOnSet(Amounts(milestone[e]), 1..k)
<1>1. row.status = "Open"  BY DEF Release
<1>2. /\ row \in EscrowRow /\ t \in Token /\ DOMAIN milestone[e] = 1..row.count
      /\ milestone[e] \in Seq([amount : Int, released : BOOLEAN])
      /\ row.count = Len(milestone[e])
      /\ row.total = Sum(row.count) /\ row.released = Sum(row.next)
      /\ \A j \in 1..row.count : milestone[e][j].released <=> j <= row.next
      /\ \A j \in 1..row.count : Amounts(milestone[e])[j] \in Nat \ {0}
  BY <1>1, Entry
<1>3. /\ i \in 1..row.count /\ amount \in Nat \ {0}
      /\ row.released + amount = Sum(i)
      /\ row.released + amount <= row.total
      /\ i = row.count <=> row.released + amount = row.total
  BY <1>1, NextMilestone
<1>4. /\ escrow' = [escrow EXCEPT ![e] = new] /\ milestone' = [milestone EXCEPT ![e] = m]
      /\ Transfer(t, Contract, b, amount)
  <2>1. milestone' = [milestone EXCEPT ![e][i].released = TRUE]  BY DEF Release
  <2>2. milestone' = [milestone EXCEPT ![e] = m]
    BY <2>1 DEF EscrowInv, EscrowTypes
  <2> QED  BY <2>2 DEF Release
<1>5. /\ m \in Seq([amount : Int, released : BOOLEAN]) /\ Len(m) = row.count
      /\ DOMAIN m = 1..row.count
      /\ \A j \in 1..row.count : /\ m[j].amount = milestone[e][j].amount
                                 /\ m[j].released <=> j <= i
  <2>1. milestone[e] \in [1..row.count -> [amount : Int, released : BOOLEAN]]
    BY <1>2, LenProperties
  <2>2. \A j \in 1..row.count :
          m[j] = IF j = i THEN [milestone[e][j] EXCEPT !.released = TRUE] ELSE milestone[e][j]
    BY <2>1
  <2>3. m \in [1..row.count -> [amount : Int, released : BOOLEAN]]
    BY <2>1
  <2>4. row.count \in Nat  BY <1>2 DEF EscrowRow
  <2>5. m \in Seq([amount : Int, released : BOOLEAN])
    <3> DEFINE n == row.count
               Row == [amount : Int, released : BOOLEAN]
    <3>1. m \in [1..n -> Row] /\ n \in Nat  BY <2>3, <2>4
    <3> HIDE DEF m, n, Row
    <3>2. m \in Seq(Row)  BY <3>1, IsASeq
    <3> QED  BY <3>2 DEF Row
  <2>6. Len(m) = row.count
    <3> HIDE DEF m, row
    <3> QED  BY <2>3, <2>4, <2>5, LenProperties
  <2>7. ASSUME NEW j \in 1..row.count
        PROVE  m[j].amount = milestone[e][j].amount /\ (m[j].released <=> j <= i)
    <3>1. milestone[e][j] \in [amount : Int, released : BOOLEAN]  BY <2>1
    <3>2. CASE j = i  BY <2>2, <3>1, <3>2
    <3>3. CASE j # i
      <4>1. j <= i <=> j <= row.next  BY <1>2, <3>3 DEF EscrowRow
      <4>2. m[j] = milestone[e][j]  BY <2>2, <3>3
      <4> QED  BY <1>2, <4>1, <4>2
    <3> QED  BY <3>2, <3>3
  <2> QED  BY <2>3, <2>5, <2>6, <2>7
<1>6. Amounts(m) = Amounts(milestone[e])
  <2> HIDE DEF m, amount, i
  <2> QED  BY <1>2, <1>5 DEF Amounts
<1>7. /\ new \in EscrowRow /\ new.next = i /\ new.count = row.count
      /\ new.released = row.released + amount /\ new.total = row.total /\ new.token = t
      /\ new.status = IF i = row.count THEN "Complete" ELSE "Open"
  <2>1. row.released \in Int /\ row.next \in Nat  BY <1>2 DEF EscrowRow
  <2> HIDE DEF amount, row, m
  <2>2. row.released + amount \in Int /\ row.next + 1 \in Nat  BY <1>3, <2>1
  <2> QED  BY <1>1, <1>2, <2>2 DEF EscrowRow
<1>8. EntryOK(new, m)
  <2>1. i <= row.count  BY <1>3
  <2>2. \A j \in DOMAIN m : m[j].amount > 0
    <3>1. \A j \in 1..row.count : Amounts(m)[j] > 0  BY <1>2, <1>6
    <3> HIDE DEF m
    <3> QED  BY <1>5, <3>1 DEF Amounts
  <2>3. i # row.count => row.total > row.released + amount
    <3>1. row.released \in Int /\ row.total \in Int  BY <1>2 DEF EscrowRow
    <3> HIDE DEF m, new, row, amount, i
    <3> QED  BY <1>3, <3>1
  <2> HIDE DEF m, new, row, amount, i
  <2>4. new.status # "none" /\ new.token \in Token /\ new.next <= new.count
    BY <1>2, <1>7, <2>1
  <2>5. new.count = Len(m) /\ \A j \in 1..new.count : m[j].released <=> j <= new.next
    BY <1>5, <1>7
  <2>6. /\ new.total = SumFunctionOnSet(Amounts(m), DOMAIN m)
        /\ new.released = SumFunctionOnSet(Amounts(m), 1..new.next)
    BY <1>2, <1>3, <1>5, <1>6, <1>7 DEF Sum
  <2>7. new.status = "Complete" <=> new.next = new.count  BY <1>7
  <2>8. new.status = "Open" => new.total > new.released  BY <1>7, <2>3
  <2> QED
    BY <1>5, <1>7, <2>2, <2>4, <2>5, <2>6, <2>7, <2>8 DEF EntryOK
<1>9. /\ b \in Address /\ Contract \in Address /\ amount \in Int
  BY <1>2, <1>3 DEF EscrowRow, Address
<1>10. /\ Balances'
       /\ b = Contract => balance'[Contract] = balance[Contract]
       /\ b # Contract => Loses(t, amount)
  <2> HIDE DEF b, t, amount, new, m, i, row
  <2>1. Transfer(t, Contract, b, amount) /\ t \in Token /\ Balances
    BY <1>2, <1>4 DEF Balances, EscrowInv, EscrowTypes
  <2> QED  BY <1>9, <2>1, Transferred
<1>11. EscrowInv'
  <2> HIDE DEF new, m
  <2> QED  BY <1>4, <1>8, <1>10, EntryWritten DEF Balances
<1>12. /\ Owed(e) = row.total - row.released
       /\ Owed(e)' = row.total - (row.released + amount)
       /\ Owed(e) - Owed(e)' = amount /\ 0 <= Owed(e)' /\ Owed(e)' < Owed(e)
       /\ escrow'[e].token = t
  <2>1. escrow'[e] = new  BY <1>4 DEF EscrowInv, EscrowTypes
  <2>2. row.total \in Int /\ row.released \in Int  BY <1>2 DEF EscrowRow
  <2> HIDE DEF new, amount, i
  <2>3. Owed(e) = row.total - row.released  BY <1>1 DEF Owed
  <2>4. Owed(e)' = row.total - (row.released + amount)
    BY <1>3, <1>7, <2>1, <2>2 DEF Owed
  <2> QED  BY <1>3, <1>7, <2>1, <2>2, <2>3, <2>4
<1>13. Pays(e, amount)
  <2>1. /\ \A d \in Escrow : d # e => escrow'[d] = escrow[d]
        /\ escrow'[e].token = escrow[e].token
    BY <1>4, <1>12 DEF EscrowInv, EscrowTypes
  <2>2. \A d \in Escrow : d # e => Owed(d)' = Owed(d)  BY <2>1 DEF Owed
  <2> HIDE DEF amount
  <2> QED  BY <1>12, <2>1, <2>2 DEF Pays
<1> HIDE DEF amount, i, m, new
<1>14. CASE b = Contract  BY <1>10, <1>11, <1>13, <1>14, PayStep
<1>15. CASE b # Contract  BY <1>2, <1>10, <1>11, <1>13, <1>15, PayStep
<1> QED  BY <1>14, <1>15

(* A refund leaves the milestones as they are and closes the escrow, which *)
(* then owes nothing.                                                      *)
LEMMA RefundStep ==
  ASSUME EscrowInv, NEW e \in Escrow, NEW signer \in Account, Refund(e, signer)
  PROVE  EscrowInv' /\ (Custody!PayItself(e) \/ \E t \in Token : Custody!Pay(e, t))
<1> DEFINE row == escrow[e]
           m == milestone[e]
           new == [row EXCEPT !.status = "Refunded"]
           remaining == row.total - row.released
           t == row.token
<1>1. /\ row.status = "Open" /\ signer = row.funder /\ remaining > 0
      /\ escrow' = [escrow EXCEPT ![e].status = "Refunded"]
      /\ Transfer(t, Contract, signer, remaining) /\ UNCHANGED milestone
  BY DEF Refund
<1>2. EntryOK(row, m)
  BY <1>1, Entry DEF EntryOK, EscrowInv, EscrowShape, BooksBalance
<1>3. escrow' = [escrow EXCEPT ![e] = new] /\ milestone' = [milestone EXCEPT ![e] = m]
  BY <1>1 DEF EscrowInv, EscrowTypes
<1>4. row \in EscrowRow /\ t \in Token  BY <1>1, Entry
<1>5. /\ new \in EscrowRow /\ new.status = "Refunded" /\ new.token = t
      /\ new.next = row.next /\ new.count = row.count
      /\ new.total = row.total /\ new.released = row.released
  BY <1>4 DEF EscrowRow
<1>6. row.next # row.count  BY <1>1, <1>2 DEF EntryOK
<1>7. EntryOK(new, m)
  <2> HIDE DEF new, row, m
  <2> QED  BY <1>2, <1>4, <1>5, <1>6 DEF EntryOK
<1>8. /\ signer \in Address /\ Contract \in Address /\ signer # Contract
      /\ remaining \in Int /\ Balances
  BY <1>4, EscrowAssumption DEF Address, EscrowRow, Balances, EscrowInv, EscrowTypes
<1>9. Balances' /\ Loses(t, remaining)
  <2> HIDE DEF row, remaining, t
  <2> QED  BY <1>1, <1>4, <1>8, Transferred
<1>10. EscrowInv'
  <2> HIDE DEF new, m
  <2> QED  BY <1>3, <1>7, <1>9, EntryWritten DEF Balances
<1>11. Owed(e) = remaining /\ Owed(e)' = 0 /\ escrow'[e].token = t
       /\ \A d \in Escrow : d # e => Owed(d)' = Owed(d) /\ escrow'[d].token = escrow[d].token
  <2>1. escrow'[e] = new /\ \A d \in Escrow : d # e => escrow'[d] = escrow[d]
    BY <1>3 DEF EscrowInv, EscrowTypes
  <2>2. Owed(e)' = 0  BY <1>5, <2>1 DEF Owed
  <2>3. Owed(e) = remaining  BY <1>1 DEF Owed
  <2>4. \A d \in Escrow : d # e => Owed(d)' = Owed(d)  BY <2>1 DEF Owed
  <2> QED  BY <1>5, <2>1, <2>2, <2>3, <2>4
<1>12. Pays(e, remaining)
  <2> HIDE DEF remaining
  <2> QED  BY <1>1, <1>8, <1>11 DEF Pays
<1> HIDE DEF remaining, new, m
<1> QED  BY <1>4, <1>9, <1>10, <1>12, PayStep

LEMMA ExternalStep ==
  ASSUME EscrowInv, NEW t \in Token, NEW from \in Account, NEW to \in Address,
         ExternalTransfer(t, from, to)
  PROVE  EscrowInv' /\ (Custody!Receive(t) \/ UNCHANGED Custody!vars)
<1>1. /\ from \in Address /\ from # Contract /\ Balances /\ 1 \in Int
      /\ Transfer(t, from, to, 1) /\ UNCHANGED <<escrow, milestone>>
  BY EscrowAssumption
     DEF Address, EscrowInv, EscrowTypes, Balances, ExternalTransfer
<1>2. /\ Balances'
      /\ to = Contract => Gains(t, 1)
      /\ to # Contract => balance'[Contract] = balance[Contract]
  BY <1>1, Transferred
<1>3. EscrowInv'  BY <1>1, <1>2, EntryKept DEF Balances
<1>4. \A d \in Escrow : Owed(d)' = Owed(d) /\ escrow'[d].token = escrow[d].token
  BY <1>1 DEF Owed
<1>5. CASE to # Contract  BY <1>2, <1>3, <1>4, <1>5 DEF Custody!vars
<1>6. CASE to = Contract
  <2>1. balance[Contract] \in [Token -> Int]  BY <1>1 DEF Balances, Address
  <2>2. Gains(t, 1)  BY <1>2, <1>6
  <2> QED  BY <1>3, <1>4, <2>1, <2>2 DEF Custody!Receive, Gains
<1> QED  BY <1>5, <1>6

LEMMA EscrowInitial == InitWallets => EscrowInv /\ Custody!Init
<1> SUFFICES ASSUME Init  PROVE EscrowInv /\ Custody!Init
  BY DEF InitWallets
<1>1. Contract \in Address /\ Supply \in Nat  BY EscrowAssumption DEF Address
<1>2. NotFound \in EscrowRow  BY <1>1 DEF NotFound, EscrowRow
<1>3. EscrowInv
  BY <1>1, <1>2 DEF Init, EscrowInv, EscrowTypes, EscrowShape, BooksBalance, NotFound
<1>4. Custody!Init
  BY <1>1 DEF Init, Custody!Init, Owed, NotFound
<1> QED  BY <1>3, <1>4

LEMMA EscrowSteps ==
  EscrowInv /\ [NextWallets]_walletVars => EscrowInv' /\ [Custody!Next]_Custody!vars
<1> SUFFICES ASSUME EscrowInv, [NextWallets]_walletVars
             PROVE  EscrowInv' /\ [Custody!Next]_Custody!vars
  OBVIOUS
<1>1. CASE UNCHANGED <<escrow, milestone, balance>>
  <2>1. EscrowInv'  BY <1>1 DEF EscrowInv, EscrowTypes, EscrowShape, BooksBalance
  <2>2. UNCHANGED Custody!vars  BY <1>1 DEF Custody!vars, Owed
  <2> QED  BY <2>1, <2>2
<1>2. CASE Invoke
  <2>1. ASSUME NEW e \in Escrow, NEW signer \in Account, Release(e, signer) \/ Refund(e, signer)
        PROVE  EscrowInv' /\ Custody!Next
    BY <2>1, ReleaseStep, RefundStep DEF Custody!Next
  <2>2. ASSUME NEW e \in Escrow, NEW signer \in Account, NEW b \in Address, NEW a \in Address,
               NEW t \in Token, NEW amounts \in Milestones, NEW refundAfter \in 0..MaxTime,
               Create(e, signer, b, a, t, amounts, refundAfter)
        PROVE  EscrowInv' /\ Custody!Next
    BY <2>2, CreateStep DEF Custody!Next
  <2> QED  BY <1>2, <2>1, <2>2 DEF Invoke
<1>3. ASSUME NEW t \in Token, NEW from \in Account, NEW to \in Address,
             ExternalTransfer(t, from, to)
      PROVE  EscrowInv' /\ [Custody!Next]_Custody!vars
  BY <1>3, ExternalStep DEF Custody!Next
<1> QED
  BY <1>1, <1>2, <1>3 DEF NextWallets, walletVars, Next, vars, Tick

(* The entry of an escrow is the account of its milestones, whatever is    *)
(* called in whatever order.                                               *)
THEOREM EscrowBooksBalance == SpecWallets => []BooksBalance
<1>1. EscrowInv => BooksBalance  BY DEF EscrowInv
<1> QED  BY <1>1, EscrowInitial, EscrowSteps, PTL DEF SpecWallets

(* The contract implements EscrowCustody: what leaves the vault leaves     *)
(* what is kept for one escrow, and never more than that.                  *)
THEOREM ContractKeepsCustody == SpecWallets => KeepsCustody
BY EscrowInitial, EscrowSteps, PTL DEF SpecWallets, KeepsCustody, Custody!Spec
=============================================================================
