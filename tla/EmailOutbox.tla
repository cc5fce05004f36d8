----------------------------- MODULE EmailOutbox -----------------------------
(***************************************************************************)
(* notification.outbox and support.notification_outbox, the worker cycle   *)
(* that delivers them (recover stale locks, suppress unwanted product      *)
(* mail, deliver one notification, deliver one support message) and the    *)
(* member's product_email preference.  The e-mail provider is external: it *)
(* takes a message or refuses it, and its answer may be lost.              *)
(***************************************************************************)
EXTENDS Naturals, Folds, Functions

CONSTANTS
  Transactional,  \* notices of every category but product
  Product,        \* product mail, each to a member of its own
  Support,        \* rows of support.notification_outbox
  Worker, NoWorker, NoNotice,
  MaxAttempts,    \* max_attempts: 8 in the schema
  MaxFaults,      \* bound: lost answers, crashes and lost leases
  MaxChanges      \* bound: changes of one member's preference

ASSUME OutboxAssumption ==
  /\ NoWorker \notin Worker
  /\ NoNotice \notin Transactional \cup Product \cup Support
  /\ Transactional \cap Product = {}
  /\ (Transactional \cup Product) \cap Support = {}
  /\ MaxAttempts \in Nat \ {0} /\ MaxFaults \in Nat /\ MaxChanges \in Nat

Notice == Transactional \cup Product \cup Support
Final == {"sent", "failed", "suppressed"}

VARIABLES
  row,           \* the outbox row of each notice
  productEmail,  \* member_preference.product_email of each product notice
  changes,       \* how often that preference was saved
  worker,        \* where each worker is in its cycle, and what it holds
  accepted,      \* messages the provider took for each notice
  faults         \* faults each notice met: they explain a second message

vars == <<row, productEmail, changes, worker, accepted, faults>>

(* due: available_at has passed.  aged: locked_at is past the lock timeout. *)
Unlocked(r, status, due) ==
  [status |-> status, attempts |-> r.attempts, lockedBy |-> NoWorker,
   due |-> due, aged |-> FALSE]

AtStage(stage) ==
  [stage |-> stage, notice |-> NoNotice, attempts |-> 0, delivered |-> FALSE]

(* One row is claimed and settled after the other; support rows come last. *)
AfterNotice(n) == IF n \in Support THEN "recover" ELSE "support"

Faults == FoldFunction(+, 0, faults)
Fault(n) == Faults < MaxFaults /\ faults' = [faults EXCEPT ![n] = @ + 1]

Init ==
  /\ row = [n \in Notice |-> [status |-> "none", attempts |-> 0,
                              lockedBy |-> NoWorker, due |-> FALSE, aged |-> FALSE]]
  /\ productEmail = [n \in Product |-> FALSE]
  /\ changes = [n \in Product |-> 0]
  /\ worker = [w \in Worker |-> AtStage("recover")]
  /\ accepted = [n \in Notice |-> 0]
  /\ faults = [n \in Notice |-> 0]
-----------------------------------------------------------------------------
(* A handler commits an event and its notice. *)
Enqueue(n) ==
  /\ row[n].status = "none"
  /\ row' = [row EXCEPT ![n] = Unlocked(@, "pending", TRUE)]
  /\ UNCHANGED <<productEmail, changes, worker, accepted, faults>>

(* available_at passes. *)
FallDue(n) ==
  /\ row[n].status = "pending" /\ ~row[n].due
  /\ row' = [row EXCEPT ![n].due = TRUE]
  /\ UNCHANGED <<productEmail, changes, worker, accepted, faults>>

(* updateSettings; the same choice may be saved again. *)
SaveProductEmail(n, choice) ==
  /\ changes[n] < MaxChanges
  /\ productEmail' = [productEmail EXCEPT ![n] = choice]
  /\ changes' = [changes EXCEPT ![n] = @ + 1]
  /\ UNCHANGED <<row, worker, accepted, faults>>
-----------------------------------------------------------------------------
FaultyStale(r) == r.status = "processing"

(* recoverStaleLocks *)
Stale(r) == r.status = "processing" /\ r.aged
RecoverStaleLocks(w) ==
  /\ worker[w].stage = "recover"
  /\ row' = [n \in Notice |->
               IF Stale(row[n]) THEN Unlocked(row[n], "pending", TRUE) ELSE row[n]]
  /\ worker' = [worker EXCEPT ![w] = AtStage("suppress")]
  /\ UNCHANGED <<productEmail, changes, accepted, faults>>

FaultyUnwantedAtFirst(n) ==
  /\ row[n].status = "pending" /\ row[n].due
  /\ n \in Product /\ ~productEmail[n] /\ row[n].attempts = 0

(* suppressProductNotifications *)
Unwanted(n) ==
  /\ row[n].status = "pending" /\ row[n].due
  /\ n \in Product /\ ~productEmail[n]
SuppressProductNotifications(w) ==
  /\ worker[w].stage = "suppress"
  /\ row' = [n \in Notice |->
               IF Unwanted(n) THEN Unlocked(row[n], "suppressed", TRUE) ELSE row[n]]
  /\ worker' = [worker EXCEPT ![w] = AtStage("notification")]
  /\ UNCHANGED <<productEmail, changes, accepted, faults>>

FaultyDeliverableWithoutConsent(n) == row[n].status = "pending" /\ row[n].due

Deliverable(n) ==
  /\ row[n].status = "pending" /\ row[n].due
  /\ n \in Product => productEmail[n]

(* The claim counts the attempt; the worker keeps the count it read. *)
Claimed(r, w) ==
  [status |-> "processing", attempts |-> r.attempts + 1, lockedBy |-> w,
   due |-> r.due, aged |-> r.aged]
ClaimFrom(w, N) ==
  \E n \in {m \in N : Deliverable(m)} :
    /\ row' = [row EXCEPT ![n] = Claimed(@, w)]
    /\ worker' = [worker EXCEPT ![w] = [stage |-> "send", notice |-> n,
                    attempts |-> row[n].attempts + 1, delivered |-> FALSE]]
    /\ UNCHANGED <<productEmail, changes, accepted, faults>>

(* No row to claim: the cycle goes on. *)
Skip(w, N, stage) ==
  /\ \A n \in N : ~Deliverable(n)
  /\ worker' = [worker EXCEPT ![w] = AtStage(stage)]
  /\ UNCHANGED <<row, productEmail, changes, accepted, faults>>

ClaimNotification(w) ==
  /\ worker[w].stage = "notification"
  /\ \/ ClaimFrom(w, Transactional \cup Product)
     \/ Skip(w, Transactional \cup Product, "support")

ClaimSupportNotification(w) ==
  /\ worker[w].stage = "support"
  /\ \/ ClaimFrom(w, Support)
     \/ Skip(w, Support, "recover")

(* sendNotification: the provider takes the message or refuses it. *)
Answered(w, delivered) ==
  worker' = [worker EXCEPT ![w].stage = "record", ![w].delivered = delivered]
Take(n) == accepted' = [accepted EXCEPT ![n] = @ + 1]
Send(w) ==
  /\ worker[w].stage = "send"
  /\ \/ Answered(w, TRUE) /\ Take(worker[w].notice) /\ UNCHANGED faults
     \/ Answered(w, FALSE) /\ UNCHANGED <<accepted, faults>>
     \/ Answered(w, FALSE) /\ Take(worker[w].notice) /\ Fault(worker[w].notice)
  /\ UNCHANGED <<row, productEmail, changes>>

FaultyOwns(w, n) == TRUE

(* What the delivery settles: sent, given up, or due again after a delay. *)
Settled(r, delivered, attempts) ==
  IF delivered THEN Unlocked(r, "sent", TRUE)
  ELSE IF attempts >= MaxAttempts THEN Unlocked(r, "failed", TRUE)
  ELSE Unlocked(r, "pending", FALSE)

(* where id=.. and locked_by=..: the update misses a row that was taken away. *)
Owns(w, n) == row[n].lockedBy = w
Record(w) ==
  LET n == worker[w].notice IN
  /\ worker[w].stage = "record"
  /\ row' = [row EXCEPT ![n] = IF Owns(w, n)
               THEN Settled(@, worker[w].delivered, worker[w].attempts) ELSE @]
  /\ worker' = [worker EXCEPT ![w] = AtStage(AfterNotice(n))]
  /\ UNCHANGED <<productEmail, changes, accepted, faults>>

(* The process dies, is stopped, or the statement fails: the cycle ends and *)
(* the row stays locked under the worker's name.                            *)
Abandon(w) ==
  /\ worker[w].stage \in {"send", "record"}
  /\ Fault(worker[w].notice)
  /\ worker' = [worker EXCEPT ![w] = AtStage("recover")]
  /\ UNCHANGED <<row, productEmail, changes, accepted>>

InHand(n) == \E w \in Worker : worker[w].notice = n /\ row[n].lockedBy = w

(* The lock of an abandoned row times out. *)
AgeLock(n) ==
  /\ row[n].status = "processing" /\ ~row[n].aged /\ ~InHand(n)
  /\ row' = [row EXCEPT ![n].aged = TRUE]
  /\ UNCHANGED <<productEmail, changes, worker, accepted, faults>>

(* A worker takes longer than the lock timeout over a row. *)
AgeLockOfSlowWorker(n) ==
  /\ row[n].status = "processing" /\ ~row[n].aged /\ InHand(n)
  /\ Fault(n)
  /\ row' = [row EXCEPT ![n].aged = TRUE]
  /\ UNCHANGED <<productEmail, changes, worker, accepted>>
-----------------------------------------------------------------------------
WorkerStep(w) ==
  \/ RecoverStaleLocks(w) \/ SuppressProductNotifications(w)
  \/ ClaimNotification(w) \/ ClaimSupportNotification(w)
  \/ Send(w) \/ Record(w)

Next ==
  \/ \E n \in Notice :
       Enqueue(n) \/ FallDue(n) \/ AgeLock(n) \/ AgeLockOfSlowWorker(n)
  \/ \E n \in Product, choice \in BOOLEAN : SaveProductEmail(n, choice)
  \/ \E w \in Worker : WorkerStep(w) \/ Abandon(w)

Spec == Init /\ [][Next]_vars

(* The poll loop runs for ever, and time passes. *)
FairSpec ==
  /\ Spec
  /\ \A w \in Worker : WF_vars(WorkerStep(w))
  /\ \A n \in Notice : WF_vars(FallDue(n)) /\ WF_vars(AgeLock(n))
-----------------------------------------------------------------------------
(* Product mail to a member who never opted in is not handed to a provider: *)
(* the preference is read by the suppression and again by the claim.        *)
ConsentRespected ==
  \A n \in Product :
    changes[n] = 0 => accepted[n] = 0 /\ row[n].status \in {"none", "pending", "suppressed"}

(* A row says sent only when the provider took the message, however the     *)
(* lease moved in the meantime, and it took it once unless a fault explains *)
(* the repetition: a lost answer, a worker that died before it recorded, or *)
(* a lost lease (processOneNotification).                                   *)
DeliveriesExplained ==
  \A n \in Notice :
    /\ row[n].status = "sent" => accepted[n] > 0
    /\ accepted[n] <= 1 + faults[n]

(* Sent, failed and suppressed are final: no late worker and no sweep       *)
(* reopens a settled row (the locked_by guard of the final updates).        *)
OutcomeIsFinal ==
  [][\A n \in Notice : row[n].status \in Final => row'[n].status = row[n].status]_vars

(* Every queued notice is sent, given up or suppressed in the end, although *)
(* workers die and consent comes and goes.                                  *)
OutboxSettles ==
  \A n \in Notice : row[n].status = "pending" ~> row[n].status \in Final
=============================================================================
