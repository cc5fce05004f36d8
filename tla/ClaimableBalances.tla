-------------------------- MODULE ClaimableBalances --------------------------
(***************************************************************************)
(* Stellar claimable balances: an intent is prepared under an idempotency  *)
(* key, its one transaction is signed and handed to the network, and what  *)
(* became of it is looked up by the customer and by the worker.            *)
(***************************************************************************)
EXTENDS FiniteSets

CONSTANTS
  Intent,      \* bound: ids of intents, each with its one transaction
  IntentKey,   \* idempotency keys of preparations
  Form,        \* bound: what a preparation may ask for
  Submission,  \* concurrent submissions
  NoIntent, NoIntentKey, NoForm

ASSUME ClaimableAssumption ==
  NoIntent \notin Intent /\ NoIntentKey \notin IntentKey /\ NoForm \notin Form

VARIABLES
  intent,      \* platform.stellar_claimable_balance_intent with its transfer
  due,         \* intents whose expires_at has passed
  chain,       \* what the network did with the transaction of each intent
  submitting,  \* the submissions under way
  jobs,        \* the job to reconcile each intent: "none", "queued", "done"
  lookup       \* what the worker has looked up and not yet recorded

claimableVars == <<intent, due, chain, submitting, jobs, lookup>>

NoIntentRow == [status |-> "none", transfer |-> "none", key |-> NoIntentKey, form |-> NoForm]
NoSubmission == [pc |-> "idle", intent |-> NoIntent, answer |-> "none"]

InitClaimable ==
  /\ intent = [i \in Intent |-> NoIntentRow]
  /\ due = {}
  /\ jobs = [i \in Intent |-> "none"]
  /\ chain = [i \in Intent |-> "none"]
  /\ submitting = [r \in Submission |-> NoSubmission]
  /\ lookup = [i \in Intent |-> "none"]

KeyedBy(k) == {i \in Intent : intent[i].key = k}

(* prepareStellarClaimableBalance: a key that is used answers with its     *)
(* intent, if that is for the same form.                                   *)
Prepare(i, k, form) ==
  /\ KeyedBy(k) = {} /\ intent[i] = NoIntentRow
  /\ intent' = [intent EXCEPT ![i] =
       [status |-> "prepared", transfer |-> "prepared", key |-> k, form |-> form]]
  /\ UNCHANGED <<due, chain, submitting, jobs, lookup>>

PreparedAlready(i, k, form) ==
  /\ intent[i].key = k /\ intent[i].form = form
  /\ UNCHANGED claimableVars

FallDue(i) ==
  /\ intent[i].status = "prepared" /\ i \notin due
  /\ due' = due \cup {i}
  /\ UNCHANGED <<intent, chain, submitting, jobs, lookup>>

-----------------------------------------------------------------------------
(* Recorded outcomes.  Only the expiry is two statements without a         *)
(* transaction: the second may fail, or come after a submission's.         *)

Expired(i) ==
  \E transfer \in {"failed", intent[i].transfer} :
    intent' = [intent EXCEPT ![i].status = "expired", ![i].transfer = transfer]

FaultyFailed(i) ==
  intent' = IF intent[i].status = "failed" THEN intent
    ELSE [intent EXCEPT ![i].status = "failed", ![i].transfer = "failed"]

(* failStellarClaimableContext *)
Failed(i) ==
  intent' = IF intent[i].status \in {"failed", "confirmed"} THEN intent
    ELSE [intent EXCEPT ![i].status = "failed", ![i].transfer = "failed"]

(* confirmStellarClaimableContext, whatever was recorded before: with the  *)
(* transfer, the evidence and the ledger in one transaction.               *)
Confirmed(i) ==
  intent' = [intent EXCEPT ![i].status = "confirmed", ![i].transfer = "confirmed"]

-----------------------------------------------------------------------------
(* submitStellarClaimableBalance *)

Leaves(r) == submitting' = [submitting EXCEPT ![r] = NoSubmission]
Moves(r, pc) == submitting' = [submitting EXCEPT ![r].pc = pc]
Of(r) == submitting[r].intent
Answers(r, status) ==
  submitting' = [submitting EXCEPT ![r].pc = "answer", ![r].answer = status]

SubmitBegin(r, i) ==
  /\ submitting[r] = NoSubmission /\ intent[i] # NoIntentRow
  /\ submitting' = [submitting EXCEPT ![r].pc = "read", ![r].intent = i]
  /\ UNCHANGED <<intent, due, chain, jobs, lookup>>

(* Any status but prepared is the answer. *)
SubmitRead(r) ==
  LET i == Of(r)
  IN /\ submitting[r].pc = "read"
     /\ CASE intent[i].status # "prepared" -> Answers(r, intent[i].status) /\ UNCHANGED intent
          [] intent[i].status = "prepared" /\ i \in due -> Leaves(r) /\ Expired(i)
          [] OTHER -> Moves(r, "send") /\ UNCHANGED intent
     /\ UNCHANGED <<due, chain, jobs, lookup>>

Accepted(i) ==
  chain' = IF chain[i] = "none" THEN [chain EXCEPT ![i] = "pending"] ELSE chain

(* The network accepts the transaction or has it already; is busy or does  *)
(* not answer, with the transaction accepted or not; or rejects it.        *)
SubmitSend(r) ==
  LET i == Of(r)
  IN /\ submitting[r].pc = "send"
     /\ \/ Accepted(i) /\ Moves(r, "record") /\ UNCHANGED intent
        \/ (Accepted(i) \/ UNCHANGED chain) /\ Leaves(r) /\ UNCHANGED intent
        \/ UNCHANGED chain /\ Leaves(r) /\ Failed(i)
     /\ UNCHANGED <<due, jobs, lookup>>

(* Each update has its own guard on prepared; the job is queued unless     *)
(* there is or was one; the answer is the same whatever was updated.       *)
SubmitRecord(r) ==
  LET i == Of(r)
      advanced(status) == IF status = "prepared" THEN "submitted" ELSE status
  IN /\ submitting[r].pc = "record"
     /\ intent' = [intent EXCEPT ![i].status = advanced(@), ![i].transfer = advanced(@)]
     /\ jobs' = [jobs EXCEPT ![i] = IF @ = "none" THEN "queued" ELSE @]
     /\ Answers(r, "submitted")
     /\ UNCHANGED <<due, chain, lookup>>

(* The answer is sent, or the handler fails or is cancelled where it is.   *)
SubmitEnd(r) ==
  /\ submitting[r] # NoSubmission
  /\ Leaves(r)
  /\ UNCHANGED <<intent, due, chain, jobs, lookup>>

-----------------------------------------------------------------------------
(* The network, the customer's look-up and the worker. *)

LedgerCloses(i) ==
  /\ chain[i] = "pending"
  /\ \E fate \in {"success", "failed"} : chain' = [chain EXCEPT ![i] = fate]
  /\ UNCHANGED <<intent, due, submitting, jobs, lookup>>

FaultySucceeded(i) == chain[i] \in {"pending", "success"}
Succeeded(i) == chain[i] = "success"

(* getStellarClaimableBalance *)
Look(i) ==
  /\ CASE intent[i].status = "prepared" /\ i \in due -> Expired(i)
       [] intent[i].status = "submitted" /\ Succeeded(i) -> Confirmed(i)
       [] intent[i].status = "submitted" /\ chain[i] = "failed" -> Failed(i)
       [] OTHER -> UNCHANGED intent
  /\ UNCHANGED <<due, chain, submitting, jobs, lookup>>

JobDone(i) == jobs' = [jobs EXCEPT ![i] = "done"]

(* processStellarClaimableJob: a job of an intent that has an outcome is   *)
(* complete, an expiry included; one without an outcome is retried.        *)
WorkerLooks(i) ==
  /\ jobs[i] = "queued" /\ lookup[i] = "none"
  /\ \/ /\ intent[i].status \in {"confirmed", "failed", "expired"}
        /\ JobDone(i) /\ UNCHANGED lookup
     \/ /\ intent[i].status \notin {"confirmed", "failed", "expired"}
        /\ chain[i] \in {"success", "failed"}
        /\ lookup' = [lookup EXCEPT ![i] = chain[i]] /\ UNCHANGED jobs
  /\ UNCHANGED <<intent, due, chain, submitting>>

(* Recorded over whatever happened meanwhile, or not: the worker stops, or *)
(* the last attempt is over and operators are told.                        *)
WorkerRecords(i) ==
  /\ lookup[i] # "none"
  /\ lookup' = [lookup EXCEPT ![i] = "none"]
  /\ \/ /\ IF lookup[i] = "success" THEN Confirmed(i) ELSE Failed(i)
        /\ JobDone(i)
     \/ UNCHANGED <<intent, jobs>>
     \/ JobDone(i) /\ UNCHANGED intent
  /\ UNCHANGED <<due, chain, submitting>>

NextReconciliation ==
  \E i \in Intent :
    FallDue(i) \/ LedgerCloses(i) \/ Look(i) \/ WorkerLooks(i) \/ WorkerRecords(i)

-----------------------------------------------------------------------------
(* Properties *)

(* A balance or its transfer is confirmed only together, and only if the   *)
(* network applied the transaction, whichever of the customer's look-ups,  *)
(* submissions and the worker recorded what in between                     *)
(* (stellar_claimable_balances.go:332-393).                                *)
ConfirmedOnChain ==
  \A i \in Intent :
    /\ intent[i].status = "confirmed" <=> intent[i].transfer = "confirmed"
    /\ intent[i].status = "confirmed" => chain[i] = "success"

(* A confirmed balance stays confirmed: a rejection of a transaction that  *)
(* was submitted again, or an expiry, comes too late.                      *)
ClaimableStands ==
  [][\A i \in Intent : intent[i].status = "confirmed" => intent'[i] = intent[i]]_claimableVars
=============================================================================
