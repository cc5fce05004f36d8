------------------------------ MODULE OutboxJob ------------------------------
(***************************************************************************)
(* The leased job rows of platform.outbox_job: every statement the API,    *)
(* the worker and the operations console run against one row, as the row   *)
(* it leaves behind.  A statement whose WHERE clause does not match leaves *)
(* the row as it is.  The modules of the aggregates (StellarSettlement)    *)
(* decide when each statement runs and what else its transaction writes.   *)
(***************************************************************************)
EXTENDS Naturals

CONSTANTS
  Worker,       \* worker replicas, identified by WORKER_ID
  NoWorker,     \* locked_by is null
  MaxAttempts   \* max_attempts: 12 in the code

ASSUME WorkerAssumption == NoWorker \notin Worker
ASSUME MaxAttemptsAssumption == MaxAttempts \in Nat \ {0}

JobStatus == {"none", "pending", "processing", "completed", "dead_letter"}

(* aged: locked_at is further back than WORKER_LOCK_TIMEOUT. *)
Job == [status : JobStatus, attempts : Nat, lockedBy : Worker \cup {NoWorker},
        aged : BOOLEAN]

Unlocked(status, attempts) ==
  [status |-> status, attempts |-> attempts, lockedBy |-> NoWorker,
   aged |-> FALSE]

NoJob == Unlocked("none", 0)

(* insert ... on conflict(idempotency_key) do nothing *)
Inserted(job) == IF job.status = "none" THEN Unlocked("pending", 0) ELSE job

HeldBy(job, w) == job.status = "processing" /\ job.lockedBy = w

(* claimPlatformJob: the row becomes w's and the attempt is counted. *)
Claimable(job) == job.status = "pending"
Claimed(job, w) ==
  [status |-> "processing", attempts |-> job.attempts + 1, lockedBy |-> w,
   aged |-> FALSE]

(* recoverStaleLocks *)
Recovered(job) ==
  IF job.status = "processing" /\ job.aged
    THEN Unlocked("pending", job.attempts) ELSE job

(* completePlatformJob *)
Completed(job, w) ==
  IF HeldBy(job, w) THEN Unlocked("completed", job.attempts) ELSE job

(* The update of retryPlatformJob; the backoff is when Claim picks it up. *)
Rescheduled(job, w) ==
  IF HeldBy(job, w) THEN Unlocked("pending", job.attempts) ELSE job

(* The first update of deadLetterPlatformJob. *)
DeadLettered(job, w) ==
  IF HeldBy(job, w) THEN Unlocked("dead_letter", job.attempts) ELSE job

(* retryPlatformJob gives up on the attempt count it read when it claimed. *)
Exhausted(attempts) == attempts >= MaxAttempts

(* retryOperationsJob: only a dead letter can be queued again, from zero. *)
Retryable(job) == job.status = "dead_letter"
Requeued(job) == Unlocked("pending", 0)
=============================================================================
