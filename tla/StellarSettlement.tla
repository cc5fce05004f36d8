-------------------------- MODULE StellarSettlement --------------------------
(***************************************************************************)
(* Settlement of customer-signed Stellar payments: the API handlers that   *)
(* submit and poll a payment, the worker that reconciles it from the       *)
(* outbox, the operator who retries a dead job or resolves its exception,  *)
(* and the network they all talk to.  One step is one SQL transaction (or  *)
(* one statement where the code uses no transaction) or one RPC call, so   *)
(* handlers interleave between what they read and what they write.         *)
(***************************************************************************)
EXTENDS OutboxJob, FiniteSets

CONSTANTS
  Payment,             \* stellar_payment_intent rows, each with its transfer
  Request,             \* concurrent API requests for these payments
  Fault,               \* the retry codes of the faults that may be injected
  MaxFaults,           \* bound: abandoned cycles and leases lost by a live worker
  MaxOperatorRetries   \* bound: retryOperationsJob calls

FaultCode == {"payment_load_failed", "stellar_lookup_failed",
              "stellar_ledger_missing", "confirmation_persistence_failed",
              "failure_persistence_failed"}
Code == FaultCode \cup {"stellar_pending"}

ASSUME FaultAssumption == Fault \subseteq FaultCode
ASSUME BoundAssumption == MaxFaults \in Nat /\ MaxOperatorRetries \in Nat

VARIABLES
  intent,      \* stellar_payment_intent.status, "absent" before it is prepared
  recon,       \* stellar_payment_intent.reconciliation_status
  transfer,    \* transfer.status
  ledger,      \* number of ledger_transaction rows of the transfer
  notice,      \* outcomes announced through notification.outbox
  job,         \* the reconciliation job of the payment
  exception,   \* reconciliation_exception.status by payment and code
  chain,       \* what the Stellar network did with the transaction
  lapsed,      \* payments past expires_at (and past the time bounds)
  request,     \* the handler each API request is in, and its next step
  worker,      \* what each worker replica is doing
  faults,      \* MaxFaults used so far
  retries      \* MaxOperatorRetries used so far

rows == <<intent, recon, transfer, ledger, notice>>
dbVars == <<intent, recon, transfer, ledger, notice, job, exception>>
bounds == <<faults, retries>>
vars == <<intent, recon, transfer, ledger, notice, job, exception, chain,
          lapsed, request, worker, faults, retries>>

Terminal == {"confirmed", "failed", "expired"}
Status == {"absent", "prepared", "submitted"} \cup Terminal

IdleRequest == [pc |-> "idle", payment |-> "none"]
RequestPc == {"send", "record", "reject", "expireIntent", "expireTransfer",
              "lookup", "confirm", "fail"}
RequestState == [pc : RequestPc, payment : Payment] \cup {IdleRequest}

(* A worker between cycles, or after the sweep that opens one. *)
Resting(pc) == [pc |-> pc, payment |-> "none", attempts |-> 0, code |-> "none"]
WorkerPc == {"load", "lookup", "confirm", "fail", "complete", "retry"}
WorkerState ==
  [pc : WorkerPc, payment : Payment, attempts : Nat, code : Code \cup {"none"}]
    \cup {Resting("idle"), Resting("swept")}

TypeOK ==
  /\ intent \in [Payment -> Status]
  /\ recon \in [Payment -> {"pending", "matched", "exception"}]
  /\ transfer \in [Payment -> {"absent", "prepared", "submitted", "confirmed",
                               "failed"}]
  /\ ledger \in [Payment -> Nat]
  /\ notice \in [Payment -> SUBSET {"confirmed", "failed"}]
  /\ job \in [Payment -> Job]
  /\ exception \in [Payment -> [Code -> {"none", "open", "resolved"}]]
  /\ chain \in [Payment -> {"none", "pending", "success", "failed"}]
  /\ lapsed \in SUBSET Payment
  /\ request \in [Request -> RequestState]
  /\ worker \in [Worker -> WorkerState]
  /\ faults \in Nat
  /\ retries \in Nat

(* A payment is absent, or was submitted before migration 015 gave the     *)
(* platform its worker: then it has no job until a worker sweeps.          *)
Init ==
  /\ intent \in [Payment -> {"absent", "submitted"}]
  /\ transfer = intent
  /\ chain \in [Payment -> {"none", "pending"}]
  /\ \A p \in Payment : intent[p] = "absent" => chain[p] = "none"
  /\ recon = [p \in Payment |-> "pending"]
  /\ ledger = [p \in Payment |-> 0]
  /\ notice = [p \in Payment |-> {}]
  /\ job = [p \in Payment |-> NoJob]
  /\ exception = [p \in Payment |-> [c \in Code |-> "none"]]
  /\ lapsed = {}
  /\ request = [r \in Request |-> IdleRequest]
  /\ worker = [w \in Worker |-> Resting("idle")]
  /\ faults = 0
  /\ retries = 0

-----------------------------------------------------------------------------
(* The Stellar network and the clock. *)

(* A pending transaction is included in a ledger, and succeeds or fails. *)
Include(p) ==
  /\ chain[p] = "pending" /\ p \notin lapsed
  /\ \E result \in {"success", "failed"} :
       chain' = [chain EXCEPT ![p] = result]
  /\ UNCHANGED <<dbVars, lapsed, request, worker, bounds>>

(* A pending transaction is dropped from the queue without being included. *)
Drop(p) ==
  /\ chain[p] = "pending"
  /\ chain' = [chain EXCEPT ![p] = "none"]
  /\ UNCHANGED <<dbVars, lapsed, request, worker, bounds>>

(* stellarPaymentTTL runs out: expires_at and the transaction's time bounds. *)
Lapse(p) ==
  /\ intent[p] # "absent" /\ p \notin lapsed
  /\ lapsed' = lapsed \cup {p}
  /\ UNCHANGED <<dbVars, chain, request, worker, bounds>>

-----------------------------------------------------------------------------
(* The transactions that end a payment, called by the API and the worker.  *)

(* Faulty variants, here and below, are plausible mistakes in the code they *)
(* stand before; no action uses them.  A property must notice each one.     *)
FaultyFailOverwritesConfirmed(p) ==
  /\ intent' = [intent EXCEPT ![p] = "failed"]
  /\ recon' = [recon EXCEPT ![p] = "matched"]
  /\ transfer' = [transfer EXCEPT ![p] = IF @ = "confirmed" THEN @ ELSE "failed"]
  /\ notice' = [notice EXCEPT ![p] = @ \cup {"failed"}]
  /\ UNCHANGED ledger

FaultyFailOnlySubmittedTransfer(p) ==
  /\ intent[p] \notin {"failed", "confirmed"}
  /\ intent' = [intent EXCEPT ![p] = "failed"]
  /\ transfer' = [transfer EXCEPT ![p] = IF @ = "submitted" THEN "failed" ELSE @]
  /\ UNCHANGED <<recon, ledger, notice>>

FailStellarPayment(p) ==
  /\ UNCHANGED ledger
  /\ IF intent[p] \in {"failed", "confirmed"}
       THEN UNCHANGED <<intent, recon, transfer, notice>>
       ELSE /\ intent' = [intent EXCEPT ![p] = "failed"]
            /\ recon' = [recon EXCEPT ![p] = "matched"]
            /\ transfer' = [transfer EXCEPT
                 ![p] = IF @ = "confirmed" THEN @ ELSE "failed"]
            /\ notice' = [notice EXCEPT ![p] = @ \cup {"failed"}]

FaultyConfirmPostsAgain(p) ==
  /\ intent' = [intent EXCEPT ![p] = "confirmed"]
  /\ recon' = [recon EXCEPT ![p] = "matched"]
  /\ transfer' = [transfer EXCEPT ![p] = "confirmed"]
  /\ ledger' = [ledger EXCEPT ![p] = @ + 1]
  /\ notice' = [notice EXCEPT ![p] = @ \cup {"confirmed"}]

ConfirmStellarPayment(p) ==
  IF intent[p] = "confirmed"
    THEN UNCHANGED rows
    ELSE /\ intent' = [intent EXCEPT ![p] = "confirmed"]
         /\ recon' = [recon EXCEPT ![p] = "matched"]
         /\ transfer' = [transfer EXCEPT ![p] = "confirmed"]
         /\ ledger' = [ledger EXCEPT ![p] = IF @ = 0 THEN 1 ELSE @]
         /\ notice' = [notice EXCEPT ![p] = @ \cup {"confirmed"}]

-----------------------------------------------------------------------------
(* The API handlers. *)

(* prepareStellarPayment: the transfer and its intent in one transaction. *)
Prepare(p) ==
  /\ intent[p] = "absent"
  /\ intent' = [intent EXCEPT ![p] = "prepared"]
  /\ transfer' = [transfer EXCEPT ![p] = "prepared"]
  /\ UNCHANGED <<recon, ledger, notice, job, exception, chain, lapsed, request,
                 worker, bounds>>

Goto(r, pc) == request' = [request EXCEPT ![r].pc = pc]
Respond(r) == request' = [request EXCEPT ![r] = IdleRequest]

(* submitStellarPayment reads the record; one that is no longer prepared   *)
(* is returned as it is.                                                   *)
SubmitRead(r, p) ==
  /\ request[r] = IdleRequest
  /\ intent[p] = "prepared"
  /\ request' = [request EXCEPT ![r] =
       [pc |-> IF p \in lapsed THEN "expireIntent" ELSE "send", payment |-> p]]
  /\ UNCHANGED <<dbVars, chain, lapsed, worker, bounds>>

(* network.Submit, after which the handler decides on the answer alone.    *)
(* PENDING queues the transaction; DUPLICATE finds it queued; an included, *)
(* expired or unaffordable transaction is an ERROR; TRY_AGAIN_LATER and a  *)
(* lost answer end the request, the latter whatever the network did.       *)
SubmitSend(r) ==
  LET p == request[r].payment
      queued == chain[p] = "none" /\ p \notin lapsed
      queue == chain' = [chain EXCEPT ![p] = "pending"]
  IN /\ request[r].pc = "send"
     /\ \/ queued /\ queue /\ Goto(r, "record")
        \/ chain[p] = "pending" /\ UNCHANGED chain /\ Goto(r, "record")
        \/ chain[p] # "pending" /\ UNCHANGED chain /\ Goto(r, "reject")
        \/ queued /\ queue /\ Respond(r)
        \/ UNCHANGED chain /\ Respond(r)
     /\ UNCHANGED <<dbVars, lapsed, worker, bounds>>

(* The transaction that records a submission; each update has its own      *)
(* WHERE clause and the handler ignores how many rows it changed.          *)
SubmitRecord(r) ==
  LET p == request[r].payment
      Submitted(status) == IF status = "prepared" THEN "submitted" ELSE status
  IN /\ request[r].pc = "record"
     /\ intent' = [intent EXCEPT ![p] = Submitted(@)]
     /\ transfer' = [transfer EXCEPT ![p] = Submitted(@)]
     /\ job' = [job EXCEPT ![p] = Inserted(@)]
     /\ Respond(r)
     /\ UNCHANGED <<recon, ledger, notice, exception, chain, lapsed, worker,
                    bounds>>

(* An ERROR answer fails the payment with "rpc_rejected". *)
SubmitReject(r) ==
  /\ request[r].pc = "reject"
  /\ FailStellarPayment(request[r].payment)
  /\ Respond(r)
  /\ UNCHANGED <<job, exception, chain, lapsed, worker, bounds>>

FaultyExpireIntentAnyStatus(r) ==
  /\ request[r].pc = "expireIntent"
  /\ intent' = [intent EXCEPT ![request[r].payment] = "expired"]
  /\ Goto(r, "expireTransfer")
  /\ UNCHANGED <<recon, transfer, ledger, notice, job, exception, chain, lapsed,
                 worker, bounds>>

(* expireStellarPayment: two statements, no transaction around them. *)
ExpireIntent(r) ==
  /\ request[r].pc = "expireIntent"
  /\ intent' = [intent EXCEPT
       ![request[r].payment] = IF @ = "prepared" THEN "expired" ELSE @]
  /\ Goto(r, "expireTransfer")
  /\ UNCHANGED <<recon, transfer, ledger, notice, job, exception, chain, lapsed,
                 worker, bounds>>

FaultyExpireTransferLikeIntent(r) ==
  /\ request[r].pc = "expireTransfer"
  /\ transfer' = [transfer EXCEPT
       ![request[r].payment] = IF @ = "prepared" THEN "expired" ELSE @]
  /\ Respond(r)
  /\ UNCHANGED <<intent, recon, ledger, notice, job, exception, chain, lapsed,
                 worker, bounds>>

ExpireTransfer(r) ==
  /\ request[r].pc = "expireTransfer"
  /\ transfer' = [transfer EXCEPT
       ![request[r].payment] = IF @ = "prepared" THEN "failed" ELSE @]
  /\ Respond(r)
  /\ UNCHANGED <<intent, recon, ledger, notice, job, exception, chain, lapsed,
                 worker, bounds>>

(* getStellarPayment reads the record. *)
GetRead(r, p) ==
  /\ request[r] = IdleRequest
  /\ \/ intent[p] = "submitted"
     \/ intent[p] = "prepared" /\ p \in lapsed
  /\ request' = [request EXCEPT ![r] =
       [pc |-> IF intent[p] = "submitted" THEN "lookup" ELSE "expireIntent",
        payment |-> p]]
  /\ UNCHANGED <<dbVars, chain, lapsed, worker, bounds>>

FaultyGetLookupAnyInclusion(r) ==
  /\ request[r].pc = "lookup"
  /\ \/ chain[request[r].payment] \in {"success", "failed"} /\ Goto(r, "confirm")
     \/ Respond(r)
  /\ UNCHANGED <<dbVars, chain, lapsed, worker, bounds>>

(* network.Transaction for a poll; an error or a pending answer ends it. *)
GetLookup(r) ==
  LET p == request[r].payment
  IN /\ request[r].pc = "lookup"
     /\ \/ chain[p] = "success" /\ Goto(r, "confirm")
        \/ chain[p] = "failed" /\ Goto(r, "fail")
        \/ Respond(r)
     /\ UNCHANGED <<dbVars, chain, lapsed, worker, bounds>>

GetConfirm(r) ==
  /\ request[r].pc = "confirm"
  /\ ConfirmStellarPayment(request[r].payment)
  /\ Respond(r)
  /\ UNCHANGED <<job, exception, chain, lapsed, worker, bounds>>

GetFail(r) ==
  /\ request[r].pc = "fail"
  /\ FailStellarPayment(request[r].payment)
  /\ Respond(r)
  /\ UNCHANGED <<job, exception, chain, lapsed, worker, bounds>>

(* The client disconnects (the handlers work under r.Context()), the API   *)
(* process restarts, or a statement fails: the rest is not done.           *)
RequestAborts(r) ==
  /\ request[r] # IdleRequest
  /\ Respond(r)
  /\ UNCHANGED <<dbVars, chain, lapsed, worker, bounds>>

-----------------------------------------------------------------------------
(* The worker: RunOnce is a sweep, then at most one platform job.          *)

Step(w, pc) == worker' = [worker EXCEPT ![w].pc = pc]
Rest(w) == worker' = [worker EXCEPT ![w] = Resting("idle")]
RetryWith(w, code) ==
  worker' = [worker EXCEPT ![w].pc = "retry", ![w].code = code]

FaultySweepWithoutEnqueue(w) ==
  /\ worker[w].pc = "idle"
  /\ job' = [p \in Payment |-> Recovered(job[p])]
  /\ worker' = [worker EXCEPT ![w] = Resting("swept")]
  /\ UNCHANGED <<rows, exception, chain, lapsed, request, bounds>>

(* recoverStaleLocks, then enqueueMissingReconciliation. *)
Sweep(w) ==
  /\ worker[w].pc = "idle"
  /\ job' = [p \in Payment |->
       IF intent[p] = "submitted" THEN Inserted(Recovered(job[p]))
                                  ELSE Recovered(job[p])]
  /\ worker' = [worker EXCEPT ![w] = Resting("swept")]
  /\ UNCHANGED <<rows, exception, chain, lapsed, request, bounds>>

(* claimPlatformJob takes a job whose available_at has come. *)
Claim(w, p) ==
  /\ worker[w].pc = "swept"
  /\ Claimable(job[p])
  /\ job' = [job EXCEPT ![p] = Claimed(@, w)]
  /\ worker' = [worker EXCEPT ![w] =
       [pc |-> "load", payment |-> p, attempts |-> job[p].attempts + 1,
        code |-> "none"]]
  /\ UNCHANGED <<rows, exception, chain, lapsed, request, bounds>>

(* No job is due. *)
ClaimNothing(w) ==
  /\ worker[w].pc = "swept"
  /\ Rest(w)
  /\ UNCHANGED <<dbVars, chain, lapsed, request, bounds>>

(* processStellarPaymentJob reads the record the rest of it works from. *)
Load(w) ==
  LET p == worker[w].payment
  IN /\ worker[w].pc = "load"
     /\ \/ intent[p] \in Terminal /\ Step(w, "complete")
        \/ intent[p] \notin Terminal /\ Step(w, "lookup")
        \/ "payment_load_failed" \in Fault /\ RetryWith(w, "payment_load_failed")
     /\ UNCHANGED <<dbVars, chain, lapsed, request, bounds>>

(* network.Transaction: NOT_FOUND is answered for a transaction that is    *)
(* pending, dropped, or not yet visible to this RPC node.                  *)
Lookup(w) ==
  LET p == worker[w].payment
      Faulty(code) == code \in Fault /\ RetryWith(w, code)
  IN /\ worker[w].pc = "lookup"
     /\ \/ chain[p] = "success" /\ Step(w, "confirm")
        \/ chain[p] = "success" /\ Faulty("stellar_ledger_missing")
        \/ chain[p] = "failed" /\ Step(w, "fail")
        \/ Faulty("stellar_lookup_failed")
        \/ RetryWith(w, "stellar_pending")
     /\ UNCHANGED <<dbVars, chain, lapsed, request, bounds>>

Confirm(w) ==
  /\ worker[w].pc = "confirm"
  /\ \/ /\ ConfirmStellarPayment(worker[w].payment)
        /\ Step(w, "complete")
     \/ /\ "confirmation_persistence_failed" \in Fault
        /\ RetryWith(w, "confirmation_persistence_failed")
        /\ UNCHANGED rows
  /\ UNCHANGED <<job, exception, chain, lapsed, request, bounds>>

Fail(w) ==
  /\ worker[w].pc = "fail"
  /\ \/ /\ FailStellarPayment(worker[w].payment)
        /\ Step(w, "complete")
     \/ /\ "failure_persistence_failed" \in Fault
        /\ RetryWith(w, "failure_persistence_failed")
        /\ UNCHANGED rows
  /\ UNCHANGED <<job, exception, chain, lapsed, request, bounds>>

Complete(w) ==
  /\ worker[w].pc = "complete"
  /\ job' = [job EXCEPT ![worker[w].payment] = Completed(@, w)]
  /\ Rest(w)
  /\ UNCHANGED <<rows, exception, chain, lapsed, request, bounds>>

(* retryPlatformJob below the limit. *)
Reschedule(w) ==
  /\ worker[w].pc = "retry"
  /\ ~ Exhausted(worker[w].attempts)
  /\ job' = [job EXCEPT ![worker[w].payment] = Rescheduled(@, w)]
  /\ Rest(w)
  /\ UNCHANGED <<rows, exception, chain, lapsed, request, bounds>>

(* deadLetterPlatformJob: nothing is written unless the lease is still     *)
(* held; an exception that already exists for the code stays as it is, and *)
(* reconciliation_status becomes "exception" whatever the payment's status *)
(* has become.                                                             *)
DeadLetter(w) ==
  LET p == worker[w].payment
  IN /\ worker[w].pc = "retry"
     /\ Exhausted(worker[w].attempts)
     /\ job' = [job EXCEPT ![p] = DeadLettered(@, w)]
     /\ IF HeldBy(job[p], w)
          THEN /\ exception' = [exception EXCEPT ![p][worker[w].code] =
                                  IF @ = "none" THEN "open" ELSE @]
               /\ recon' = [recon EXCEPT ![p] = "exception"]
          ELSE UNCHANGED <<exception, recon>>
     /\ Rest(w)
     /\ UNCHANGED <<intent, transfer, ledger, notice, chain, lapsed, request,
                    bounds>>

(* The worker is restarted, or a statement of the cycle fails: RunOnce     *)
(* returns and a claimed job stays locked.                                 *)
Abandon(w) ==
  /\ worker[w].pc # "idle" /\ faults < MaxFaults
  /\ faults' = faults + 1
  /\ Rest(w)
  /\ UNCHANGED <<dbVars, chain, lapsed, request, retries>>

Working(p) ==
  \E w \in Worker : HeldBy(job[p], w) /\ worker[w].payment = p

(* WORKER_LOCK_TIMEOUT passes on a lock nobody is working under. *)
AgeLock(p) ==
  /\ job[p].status = "processing" /\ ~ job[p].aged /\ ~ Working(p)
  /\ job' = [job EXCEPT ![p].aged = TRUE]
  /\ UNCHANGED <<rows, exception, chain, lapsed, request, worker, bounds>>

(* ... and on the lock of a worker that is only slow. *)
AgeLockOfSlowWorker(p) ==
  /\ job[p].status = "processing" /\ ~ job[p].aged /\ Working(p)
  /\ faults < MaxFaults
  /\ faults' = faults + 1
  /\ job' = [job EXCEPT ![p].aged = TRUE]
  /\ UNCHANGED <<rows, exception, chain, lapsed, request, worker, retries>>

-----------------------------------------------------------------------------
(* The operations console. *)

RetryOperationsJob(p) ==
  /\ Retryable(job[p]) /\ retries < MaxOperatorRetries
  /\ retries' = retries + 1
  /\ job' = [job EXCEPT ![p] = Requeued(@)]
  /\ UNCHANGED <<rows, exception, chain, lapsed, request, worker, faults>>

(* resolveReconciliationException: the payment counts as matched again,    *)
(* whatever its status is.                                                 *)
ResolveException(p, c) ==
  /\ exception[p][c] = "open"
  /\ exception' = [exception EXCEPT ![p][c] = "resolved"]
  /\ recon' = [recon EXCEPT ![p] = "matched"]
  /\ UNCHANGED <<intent, transfer, ledger, notice, job, chain, lapsed, request,
                 worker, bounds>>

-----------------------------------------------------------------------------
Network == \E p \in Payment : Include(p) \/ Drop(p) \/ Lapse(p)

Api ==
  \/ \E p \in Payment : Prepare(p)
  \/ \E r \in Request :
       \/ \E p \in Payment : SubmitRead(r, p) \/ GetRead(r, p)
       \/ SubmitSend(r) \/ SubmitRecord(r) \/ SubmitReject(r)
       \/ ExpireIntent(r) \/ ExpireTransfer(r)
       \/ GetLookup(r) \/ GetConfirm(r) \/ GetFail(r)
       \/ RequestAborts(r)

(* One step of the platform job of a cycle, once claimed. *)
Process(w) ==
  \/ Load(w) \/ Lookup(w) \/ Confirm(w) \/ Fail(w)
  \/ Complete(w) \/ Reschedule(w) \/ DeadLetter(w)

RunOnce ==
  \/ \E w \in Worker :
       \/ Sweep(w) \/ ClaimNothing(w) \/ Process(w) \/ Abandon(w)
       \/ \E p \in Payment : Claim(w, p)
  \/ \E p \in Payment : AgeLock(p) \/ AgeLockOfSlowWorker(p)

Operator ==
  \E p \in Payment :
    \/ RetryOperationsJob(p)
    \/ \E c \in Code : ResolveException(p, c)

Next == Network \/ Api \/ RunOnce \/ Operator

Spec == Init /\ [][Next]_vars

(* Worker.Run polls for ever, so every cycle is finished and followed by   *)
(* another; locks age with time; and a job is never passed over for ever,  *)
(* because its backoff is at most 300 s and claims are taken in the order  *)
(* of available_at.  Nothing is assumed of the API, the customer, the      *)
(* network or the operators.                                               *)
Fairness ==
  /\ \A w \in Worker : WF_vars(Sweep(w)) /\ WF_vars(ClaimNothing(w))
                         /\ WF_vars(Process(w))
  /\ \A p \in Payment : /\ WF_vars(AgeLock(p))
                        /\ SF_vars(\E w \in Worker : Claim(w, p))

FairSpec == Spec /\ Fairness

-----------------------------------------------------------------------------
(* Properties *)

(* A payment's intent, transfer, ledger and confirmation notice speak with *)
(* one voice whatever API handlers and workers raced to end it, they only  *)
(* report a confirmation the network made, and the ledger is posted once:  *)
(* "receipt evidence, ledger state, and reconciliation must agree"         *)
(* (docs/OPERATIONS_RUNBOOK.md:9).                                         *)
ConfirmationAgrees ==
  \A p \in Payment :
    /\ intent[p] = "confirmed" => chain[p] = "success"
    /\ intent[p] = "confirmed" <=> transfer[p] = "confirmed"
    /\ intent[p] = "confirmed" <=> "confirmed" \in notice[p]
    /\ ledger[p] = IF intent[p] = "confirmed" THEN 1 ELSE 0

(* Between its lookup and its transaction, whoever is about to confirm a   *)
(* payment saw the network settle it: what it read cannot go stale.        *)
ConfirmsWhatSettled ==
  /\ \A r \in Request :
       request[r].pc = "confirm" => chain[request[r].payment] = "success"
  /\ \A w \in Worker :
       worker[w].pc = "confirm" => chain[worker[w].payment] = "success"

(* Outside the expiry path, whose two statements are not one transaction,  *)
(* the transfer the customer sees has the status of the payment intent.    *)
TransferFollowsIntent ==
  \A p \in Payment :
    CASE intent[p] = "expired" ->
           transfer[p] \in {"prepared", "submitted", "failed"}
      [] OTHER -> transfer[p] = intent[p]

(* Once a payment is confirmed nothing takes it back: not a late failure,  *)
(* an expiry, a second worker or an operator.                              *)
ConfirmedIsFinal ==
  [][\A p \in Payment : intent[p] = "confirmed" => intent'[p] = "confirmed"]_vars

(* The promise to the books: see SettlementPromise.  A payment is posted   *)
(* and announced in one step, at most once, and only once it has settled.  *)
Promise == INSTANCE SettlementPromise WITH
  settled <- {p \in Payment : chain[p] = "success"},
  posted <- ledger,
  announced <- {p \in Payment : "confirmed" \in notice[p]}
KeepsPromise == Promise!Spec

(* Every submitted payment ends, or is handed to the operators as a dead   *)
(* letter, even one that was submitted before it had a job.                *)
EventuallyReconciled ==
  \A p \in Payment :
    intent[p] = "submitted" ~>
      (intent[p] \in Terminal \/ job[p].status = "dead_letter")

-----------------------------------------------------------------------------
(* What the documents say and the code does not do *)

(* docs/ARCHITECTURE.md:199: an ambiguous RPC response is retried with the *)
(* same signed transaction, and once RPC accepted it reconciliation owns   *)
(* it: a payment that settled is not reported as failed.                   *)
SettledIsNotFailed ==
  \A p \in Payment : intent[p] = "failed" => chain[p] # "success"

(* services/platform/README.md:242: a submission the network accepted is   *)
(* recorded with its job whatever restarts, with nobody polling it.        *)
AcceptedIsRecorded ==
  \A r \in Request : \A p \in Payment :
    request[r] = [pc |-> "record", payment |-> p] /\ chain[p] = "success" ~>
      job[p].status # "none"

(* The handlers of a request that nothing interrupts run to their end.     *)
FairApiSpec ==
  FairSpec /\ \A r \in Request : WF_vars(SubmitRecord(r))
=============================================================================
