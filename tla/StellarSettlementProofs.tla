----------------------- MODULE StellarSettlementProofs -----------------------
(* Type correctness of StellarSettlement and the safety of confirmations,  *)
(* for any payments, requests, workers, faults and bounds.                 *)
EXTENDS StellarSettlement, TLAPS

-----------------------------------------------------------------------------
(* Every statement on an outbox row leaves a well-formed row. *)
LEMMA JobStatements ==
  ASSUME NEW j \in Job, NEW w \in Worker
  PROVE  /\ NoJob \in Job
         /\ Inserted(j) \in Job
         /\ Claimed(j, w) \in Job
         /\ Recovered(j) \in Job
         /\ Completed(j, w) \in Job
         /\ Rescheduled(j, w) \in Job
         /\ DeadLettered(j, w) \in Job
         /\ Requeued(j) \in Job
         /\ [j EXCEPT !.aged = TRUE] \in Job
<1>1. j.status \in JobStatus /\ j.attempts \in Nat  BY DEF Job
<1>2. ASSUME NEW st \in JobStatus, NEW n \in Nat  PROVE Unlocked(st, n) \in Job
  BY DEF Unlocked, Job
<1>3. NoJob \in Job /\ Requeued(j) \in Job
  BY <1>2 DEF NoJob, Requeued, JobStatus
<1>4. Inserted(j) \in Job  BY <1>2 DEF Inserted, JobStatus
<1>5. Claimed(j, w) \in Job
  <2>1. j.attempts + 1 \in Nat  BY <1>1
  <2> QED  BY <2>1 DEF Claimed, Job, JobStatus
<1>6. Recovered(j) \in Job  BY <1>1, <1>2 DEF Recovered, JobStatus
<1>7. Completed(j, w) \in Job  BY <1>1, <1>2 DEF Completed, JobStatus
<1>8. Rescheduled(j, w) \in Job  BY <1>1, <1>2 DEF Rescheduled, JobStatus
<1>9. DeadLettered(j, w) \in Job  BY <1>1, <1>2 DEF DeadLettered, JobStatus
<1>10. [j EXCEPT !.aged = TRUE] \in Job  BY DEF Job
<1> QED  BY <1>3, <1>4, <1>5, <1>6, <1>7, <1>8, <1>9, <1>10

(* ... so the sweep of a row, two statements, does too. *)
LEMMA JobsClosed ==
  ASSUME NEW j \in Job
  PROVE  Recovered(j) \in Job /\ Inserted(Recovered(j)) \in Job
<1>1. Recovered(j) \in Job
  BY DEF Recovered, Unlocked, Job, JobStatus
<1> QED  BY <1>1 DEF Inserted, Unlocked, Job, JobStatus

(* A busy request or worker is at work on a payment. *)
LEMMA BusyRequest ==
  ASSUME TypeOK, NEW r \in Request, request[r].pc \in RequestPc
  PROVE  request[r] \in [pc : RequestPc, payment : Payment]
BY DEF TypeOK, RequestState, IdleRequest, RequestPc

LEMMA BusyWorker ==
  ASSUME TypeOK, NEW w \in Worker, worker[w].pc \in WorkerPc
  PROVE  worker[w] \in [pc : WorkerPc, payment : Payment, attempts : Nat,
                        code : Code \cup {"none"}]
BY DEF TypeOK, WorkerState, Resting, WorkerPc

(* The moves of a busy request or worker keep it well-formed. *)
LEMMA RequestMoves ==
  ASSUME TypeOK, NEW r \in Request, request[r].pc \in RequestPc,
         \/ Respond(r)
         \/ \E pc \in RequestPc : Goto(r, pc)
  PROVE  request' \in [Request -> RequestState]
<1>1. request[r] \in [pc : RequestPc, payment : Payment]  BY BusyRequest
<1>2. CASE Respond(r)  BY <1>2 DEF Respond, TypeOK, RequestState
<1>3. CASE \E pc \in RequestPc : Goto(r, pc)
  <2>1. PICK pc \in RequestPc : Goto(r, pc)  BY <1>3
  <2>2. [request[r] EXCEPT !.pc = pc] \in RequestState
    BY <1>1, <2>1 DEF RequestState
  <2> QED  BY <2>1, <2>2 DEF Goto, TypeOK
<1> QED  BY <1>2, <1>3

LEMMA WorkerMoves ==
  ASSUME TypeOK, NEW w \in Worker, worker[w].pc \in WorkerPc,
         \/ Rest(w)
         \/ \E pc \in WorkerPc : Step(w, pc)
         \/ \E code \in Code : RetryWith(w, code)
  PROVE  worker' \in [Worker -> WorkerState]
<1>1. worker[w] \in [pc : WorkerPc, payment : Payment, attempts : Nat,
                     code : Code \cup {"none"}]
  BY BusyWorker
<1>2. CASE Rest(w)  BY <1>2 DEF Rest, TypeOK, WorkerState
<1>3. CASE \E pc \in WorkerPc : Step(w, pc)
  <2>1. PICK pc \in WorkerPc : Step(w, pc)  BY <1>3
  <2>2. [worker[w] EXCEPT !.pc = pc] \in WorkerState
    BY <1>1, <2>1 DEF WorkerState
  <2> QED  BY <2>1, <2>2 DEF Step, TypeOK
<1>4. CASE \E code \in Code : RetryWith(w, code)
  <2>1. PICK code \in Code : RetryWith(w, code)  BY <1>4
  <2>2. [worker[w] EXCEPT !.pc = "retry", !.code = code] \in WorkerState
    BY <1>1, <2>1 DEF WorkerState, WorkerPc
  <2>3. worker' = [worker EXCEPT
                     ![w] = [worker[w] EXCEPT !.pc = "retry", !.code = code]]
    BY <2>1 DEF RetryWith, TypeOK
  <2> QED  BY <2>2, <2>3 DEF TypeOK
<1> QED  BY <1>2, <1>3, <1>4

-----------------------------------------------------------------------------
(* The two transactions that end a payment write well-formed rows. *)
RowsOK ==
  /\ intent \in [Payment -> Status]
  /\ recon \in [Payment -> {"pending", "matched", "exception"}]
  /\ transfer \in [Payment -> {"absent", "prepared", "submitted", "confirmed",
                               "failed"}]
  /\ ledger \in [Payment -> Nat]
  /\ notice \in [Payment -> SUBSET {"confirmed", "failed"}]

LEMMA EndingsOK ==
  ASSUME TypeOK, NEW p \in Payment,
         FailStellarPayment(p) \/ ConfirmStellarPayment(p)
  PROVE  RowsOK'
<1> USE DEF TypeOK, RowsOK, Status, Terminal
<1>1. CASE FailStellarPayment(p) /\ intent[p] \notin {"failed", "confirmed"}
  <2>1. notice[p] \cup {"failed"} \in SUBSET {"confirmed", "failed"}
    OBVIOUS
  <2>2. (IF transfer[p] = "confirmed" THEN transfer[p] ELSE "failed")
          \in {"confirmed", "failed"}
    OBVIOUS
  <2>3. intent' \in [Payment -> Status]  BY <1>1 DEF FailStellarPayment
  <2>4. recon' \in [Payment -> {"pending", "matched", "exception"}]
    BY <1>1 DEF FailStellarPayment
  <2>5. transfer' \in [Payment -> {"absent", "prepared", "submitted",
                                  "confirmed", "failed"}]
    BY <1>1, <2>2 DEF FailStellarPayment
  <2>6. notice' \in [Payment -> SUBSET {"confirmed", "failed"}]
    BY <1>1, <2>1 DEF FailStellarPayment
  <2> QED  BY <1>1, <2>3, <2>4, <2>5, <2>6 DEF FailStellarPayment
<1>2. CASE ConfirmStellarPayment(p) /\ intent[p] # "confirmed"
  <2>1. notice[p] \cup {"confirmed"} \in SUBSET {"confirmed", "failed"}
    OBVIOUS
  <2>2. (IF ledger[p] = 0 THEN 1 ELSE ledger[p]) \in Nat  OBVIOUS
  <2>3. intent' \in [Payment -> Status]  BY <1>2 DEF ConfirmStellarPayment
  <2>4. recon' \in [Payment -> {"pending", "matched", "exception"}]
    BY <1>2 DEF ConfirmStellarPayment
  <2>5. transfer' \in [Payment -> {"absent", "prepared", "submitted",
                                  "confirmed", "failed"}]
    BY <1>2 DEF ConfirmStellarPayment
  <2>6. notice' \in [Payment -> SUBSET {"confirmed", "failed"}]
    BY <1>2, <2>1 DEF ConfirmStellarPayment
  <2>7. ledger' \in [Payment -> Nat]  BY <1>2, <2>2 DEF ConfirmStellarPayment
  <2> QED  BY <2>3, <2>4, <2>5, <2>6, <2>7
<1>3. CASE UNCHANGED rows  BY <1>3 DEF rows
<1> QED  BY <1>1, <1>2, <1>3 DEF FailStellarPayment, ConfirmStellarPayment, rows

LEMMA RowsUnchangedOK ==
  ASSUME TypeOK, UNCHANGED rows
  PROVE  RowsOK'
BY DEF TypeOK, RowsOK, rows

(* What happens to one job row keeps all of them well-formed. *)
LEMMA JobsOK ==
  ASSUME TypeOK, NEW p \in Payment, NEW j \in Job,
         job' = [job EXCEPT ![p] = j]
  PROVE  job' \in [Payment -> Job]
BY DEF TypeOK

RestOK ==
  /\ exception \in [Payment -> [Code -> {"none", "open", "resolved"}]]
  /\ chain \in [Payment -> {"none", "pending", "success", "failed"}]
  /\ lapsed \in SUBSET Payment
  /\ faults \in Nat
  /\ retries \in Nat

LEMMA TypeOKByParts ==
  TypeOK <=> /\ RowsOK /\ RestOK
             /\ job \in [Payment -> Job]
             /\ request \in [Request -> RequestState]
             /\ worker \in [Worker -> WorkerState]
BY DEF TypeOK, RowsOK, RestOK

LEMMA TypeOKInit == Init => TypeOK
<1> SUFFICES ASSUME Init  PROVE TypeOK  OBVIOUS
<1> USE DEF Init
<1>1. RowsOK  BY DEF RowsOK, Status, Terminal
<1>2. RestOK  BY DEF RestOK
<1>3. job \in [Payment -> Job]
  BY DEF NoJob, Unlocked, Job, JobStatus
<1>4. request \in [Request -> RequestState]  BY DEF RequestState
<1>5. worker \in [Worker -> WorkerState]  BY DEF WorkerState
<1> QED  BY <1>1, <1>2, <1>3, <1>4, <1>5, TypeOKByParts

LEMMA NetworkTypeOK == TypeOK /\ Network => TypeOK'
<1> SUFFICES ASSUME TypeOK, NEW p \in Payment,
                    Include(p) \/ Drop(p) \/ Lapse(p)
             PROVE  TypeOK'
  BY DEF Network
<1>1. UNCHANGED <<dbVars, request, worker, bounds>>
  BY DEF Include, Drop, Lapse
<1>2. chain' \in [Payment -> {"none", "pending", "success", "failed"}]
  BY DEF Include, Drop, Lapse, TypeOK
<1>3. lapsed' \in SUBSET Payment  BY DEF Include, Drop, Lapse, TypeOK
<1> QED  BY <1>1, <1>2, <1>3 DEF TypeOK, dbVars, bounds

LEMMA ApiTypeOK == TypeOK /\ Api => TypeOK'
<1> SUFFICES ASSUME TypeOK, Api  PROVE TypeOK'  OBVIOUS
<1>1. ASSUME NEW p \in Payment, Prepare(p)  PROVE TypeOK'
  BY <1>1 DEF Prepare, TypeOK, Status, bounds
<1>2. ASSUME NEW r \in Request, NEW p \in Payment,
             SubmitRead(r, p) \/ GetRead(r, p)
      PROVE  TypeOK'
  <2>1. request' \in [Request -> RequestState]
    BY <1>2 DEF SubmitRead, GetRead, TypeOK, RequestState, RequestPc
  <2> QED  BY <1>2, <2>1 DEF SubmitRead, GetRead, TypeOK, dbVars, bounds
<1>3. ASSUME NEW r \in Request, SubmitSend(r) \/ GetLookup(r)
      PROVE  TypeOK'
  <2>1. request[r].pc \in RequestPc
    BY <1>3 DEF SubmitSend, GetLookup, RequestPc
  <2>2. request[r].payment \in Payment  BY <2>1, BusyRequest
  <2>3. Respond(r) \/ \E pc \in RequestPc : Goto(r, pc)
    BY <1>3 DEF SubmitSend, GetLookup, RequestPc
  <2>4. request' \in [Request -> RequestState]  BY <2>1, <2>3, RequestMoves
  <2>5. chain' \in [Payment -> {"none", "pending", "success", "failed"}]
    BY <1>3, <2>2 DEF SubmitSend, GetLookup, TypeOK
  <2> QED  BY <1>3, <2>4, <2>5 DEF SubmitSend, GetLookup, TypeOK, dbVars, bounds
<1>4. ASSUME NEW r \in Request, SubmitRecord(r)  PROVE TypeOK'
  <2>1. request[r].pc \in RequestPc  BY <1>4 DEF SubmitRecord, RequestPc
  <2>2. PICK p \in Payment : p = request[r].payment  BY <2>1, BusyRequest
  <2>3. request' \in [Request -> RequestState]
    BY <1>4, <2>1, RequestMoves DEF SubmitRecord
  <2>4. RowsOK'
    BY <1>4, <2>2 DEF SubmitRecord, RowsOK, TypeOK, Status
  <2>5. Inserted(job[p]) \in Job
    BY DEF TypeOK, Inserted, Unlocked, Job, JobStatus
  <2>6. job' = [job EXCEPT ![p] = Inserted(job[p])]
    BY <1>4, <2>2 DEF SubmitRecord
  <2>7. job' \in [Payment -> Job]  BY <2>5, <2>6, JobsOK
  <2>8. UNCHANGED worker /\ RestOK'
    BY <1>4 DEF SubmitRecord, RestOK, TypeOK, bounds
  <2> QED  BY <2>3, <2>4, <2>7, <2>8 DEF TypeOK, RowsOK, RestOK
<1>5. ASSUME NEW r \in Request, SubmitReject(r) \/ GetConfirm(r) \/ GetFail(r)
      PROVE  TypeOK'
  <2>1. request[r].pc \in RequestPc
    BY <1>5 DEF SubmitReject, GetConfirm, GetFail, RequestPc
  <2>2. PICK p \in Payment : p = request[r].payment  BY <2>1, BusyRequest
  <2>3. request' \in [Request -> RequestState]
    BY <1>5, <2>1, RequestMoves DEF SubmitReject, GetConfirm, GetFail
  <2>4. RowsOK'
    BY <1>5, <2>2, EndingsOK DEF SubmitReject, GetConfirm, GetFail
  <2>5. UNCHANGED <<job, worker>> /\ RestOK'
    BY <1>5 DEF SubmitReject, GetConfirm, GetFail, RestOK, TypeOK, bounds
  <2> QED  BY <2>3, <2>4, <2>5 DEF TypeOK, RowsOK, RestOK
<1>6. ASSUME NEW r \in Request, ExpireIntent(r) \/ ExpireTransfer(r)
      PROVE  TypeOK'
  <2>1. request[r].pc \in RequestPc
    BY <1>6 DEF ExpireIntent, ExpireTransfer, RequestPc
  <2>2. PICK p \in Payment : p = request[r].payment  BY <2>1, BusyRequest
  <2>3. request' \in [Request -> RequestState]
    BY <1>6, <2>1, RequestMoves DEF ExpireIntent, ExpireTransfer, RequestPc
  <2>4. CASE ExpireIntent(r)
    <3>1. intent' = [intent EXCEPT
            ![p] = IF intent[p] = "prepared" THEN "expired" ELSE intent[p]]
      BY <2>2, <2>4 DEF ExpireIntent
    <3>2. intent' \in [Payment -> Status]
      BY <3>1 DEF TypeOK, Status, Terminal
    <3>3. UNCHANGED <<job, worker>> /\ RestOK'
      BY <2>4 DEF ExpireIntent, RestOK, TypeOK, bounds
    <3> QED  BY <2>3, <2>4, <3>2, <3>3 DEF ExpireIntent, TypeOK, RestOK
  <2>5. CASE ExpireTransfer(r)
    <3>1. transfer' = [transfer EXCEPT
            ![p] = IF transfer[p] = "prepared" THEN "failed" ELSE transfer[p]]
      BY <2>2, <2>5 DEF ExpireTransfer
    <3>2. transfer' \in [Payment -> {"absent", "prepared", "submitted",
                                    "confirmed", "failed"}]
      BY <3>1 DEF TypeOK
    <3>3. UNCHANGED <<job, worker>> /\ RestOK'
      BY <2>5 DEF ExpireTransfer, RestOK, TypeOK, bounds
    <3> QED  BY <2>3, <2>5, <3>2, <3>3 DEF ExpireTransfer, TypeOK, RestOK
  <2> QED  BY <1>6, <2>4, <2>5
<1>7. ASSUME NEW r \in Request, RequestAborts(r)  PROVE TypeOK'
  BY <1>7 DEF RequestAborts, Respond, TypeOK, RequestState, dbVars, bounds
<1> QED  BY <1>1, <1>2, <1>3, <1>4, <1>5, <1>6, <1>7 DEF Api

LEMMA RunOnceTypeOK == TypeOK /\ RunOnce => TypeOK'
<1> SUFFICES ASSUME TypeOK, RunOnce  PROVE TypeOK'  OBVIOUS
<1>1. ASSUME NEW w \in Worker, Sweep(w)  PROVE TypeOK'
  <2>1. \A p \in Payment :
          Inserted(Recovered(job[p])) \in Job /\ Recovered(job[p]) \in Job
    BY JobsClosed DEF TypeOK
  <2>2. job' \in [Payment -> Job]  BY <1>1, <2>1 DEF Sweep
  <2>3. worker' \in [Worker -> WorkerState]
    BY <1>1 DEF Sweep, TypeOK, WorkerState
  <2> QED  BY <1>1, <2>2, <2>3 DEF Sweep, TypeOK, rows, bounds
<1>2. ASSUME NEW w \in Worker, NEW p \in Payment, Claim(w, p)  PROVE TypeOK'
  <2>1. job[p] \in Job /\ job[p].attempts + 1 \in Nat  BY DEF TypeOK, Job
  <2>2. Claimed(job[p], w) \in Job  BY <2>1, JobStatements
  <2>3. job' = [job EXCEPT ![p] = Claimed(job[p], w)]  BY <1>2 DEF Claim
  <2>4. job' \in [Payment -> Job]  BY <2>2, <2>3, JobsOK
  <2>5. worker' \in [Worker -> WorkerState]
    BY <1>2, <2>1 DEF Claim, TypeOK, WorkerState, WorkerPc
  <2> QED  BY <1>2, <2>4, <2>5 DEF Claim, TypeOK, rows, bounds
<1>3. ASSUME NEW w \in Worker, ClaimNothing(w)  PROVE TypeOK'
  BY <1>3 DEF ClaimNothing, Rest, TypeOK, WorkerState, dbVars, bounds
<1>4. ASSUME NEW w \in Worker, Load(w) \/ Lookup(w)  PROVE TypeOK'
  <2>1. worker[w].pc \in WorkerPc  BY <1>4 DEF Load, Lookup, WorkerPc
  <2>2. (\E pc \in WorkerPc : Step(w, pc)) \/ (\E code \in Code : RetryWith(w, code))
    BY <1>4 DEF Load, Lookup, WorkerPc, Code, FaultCode
  <2>3. worker' \in [Worker -> WorkerState]  BY <2>1, <2>2, WorkerMoves
  <2> QED  BY <1>4, <2>3 DEF Load, Lookup, TypeOK, dbVars, bounds
<1>5. ASSUME NEW w \in Worker, Confirm(w) \/ Fail(w)  PROVE TypeOK'
  <2>1. worker[w].pc \in WorkerPc  BY <1>5 DEF Confirm, Fail, WorkerPc
  <2>2. PICK p \in Payment : p = worker[w].payment  BY <2>1, BusyWorker
  <2>3. (\E pc \in WorkerPc : Step(w, pc)) \/ (\E code \in Code : RetryWith(w, code))
    BY <1>5 DEF Confirm, Fail, WorkerPc, Code, FaultCode
  <2>4. worker' \in [Worker -> WorkerState]  BY <2>1, <2>3, WorkerMoves
  <2>5. RowsOK'
    BY <1>5, <2>2, EndingsOK, RowsUnchangedOK DEF Confirm, Fail
  <2>6. UNCHANGED <<job, request>> /\ RestOK'
    BY <1>5 DEF Confirm, Fail, RestOK, TypeOK, bounds
  <2> QED  BY <2>4, <2>5, <2>6 DEF TypeOK, RowsOK, RestOK
<1>6. ASSUME NEW w \in Worker, Complete(w) \/ Reschedule(w)  PROVE TypeOK'
  <2>1. worker[w].pc \in WorkerPc  BY <1>6 DEF Complete, Reschedule, WorkerPc
  <2>2. PICK p \in Payment : p = worker[w].payment  BY <2>1, BusyWorker
  <2>3. worker' \in [Worker -> WorkerState]
    BY <1>6, <2>1, WorkerMoves DEF Complete, Reschedule
  <2>4. \/ job' = [job EXCEPT ![p] = Completed(job[p], w)]
        \/ job' = [job EXCEPT ![p] = Rescheduled(job[p], w)]
    BY <1>6, <2>2 DEF Complete, Reschedule
  <2>5. Completed(job[p], w) \in Job /\ Rescheduled(job[p], w) \in Job
    BY JobStatements DEF TypeOK
  <2>6. job' \in [Payment -> Job]  BY <2>4, <2>5, JobsOK
  <2> QED  BY <1>6, <2>3, <2>6 DEF Complete, Reschedule, TypeOK, rows, bounds
<1>7. ASSUME NEW w \in Worker, DeadLetter(w)  PROVE TypeOK'
  <2>1. worker[w].pc \in WorkerPc  BY <1>7 DEF DeadLetter, WorkerPc
  <2>2. PICK p \in Payment : p = worker[w].payment  BY <2>1, BusyWorker
  <2>3. worker' \in [Worker -> WorkerState]
    BY <1>7, <2>1, WorkerMoves DEF DeadLetter
  <2>4. job' \in [Payment -> Job]
    <3>1. job' = [job EXCEPT ![p] = DeadLettered(job[p], w)]
      BY <1>7, <2>2 DEF DeadLetter
    <3>2. DeadLettered(job[p], w) \in Job  BY JobStatements DEF TypeOK
    <3> QED  BY <3>1, <3>2, JobsOK
  <2>5. exception' \in [Payment -> [Code -> {"none", "open", "resolved"}]]
    <3> DEFINE code == worker[w].code
               old == exception[p]
               raised == IF old[code] = "none" THEN "open" ELSE old[code]
    <3>1. \/ UNCHANGED exception
          \/ exception' = [exception EXCEPT ![p] = [old EXCEPT ![code] = raised]]
      BY <1>7, <2>2 DEF DeadLetter, TypeOK
    <3>2. old \in [Code -> {"none", "open", "resolved"}]  BY DEF TypeOK
    <3>3. code \in Code => raised \in {"none", "open", "resolved"}  BY <3>2
    <3>4. [old EXCEPT ![code] = raised] \in [Code -> {"none", "open", "resolved"}]
      <4> HIDE DEF raised, old, code
      <4> QED  BY <3>2, <3>3
    <3> QED  BY <3>1, <3>4 DEF TypeOK
  <2>6. recon' \in [Payment -> {"pending", "matched", "exception"}]
    BY <1>7, <2>2 DEF DeadLetter, TypeOK
  <2> QED  BY <1>7, <2>3, <2>4, <2>5, <2>6 DEF DeadLetter, TypeOK, bounds
<1>8. ASSUME NEW w \in Worker, Abandon(w)  PROVE TypeOK'
  BY <1>8 DEF Abandon, Rest, TypeOK, WorkerState, dbVars
<1>9. ASSUME NEW p \in Payment, AgeLock(p) \/ AgeLockOfSlowWorker(p)
      PROVE  TypeOK'
  <2>1. job' = [job EXCEPT ![p] = [job[p] EXCEPT !.aged = TRUE]]
    BY <1>9 DEF AgeLock, AgeLockOfSlowWorker, TypeOK
  <2>2. [job[p] EXCEPT !.aged = TRUE] \in Job  BY DEF TypeOK, Job
  <2>3. job' \in [Payment -> Job]  BY <2>1, <2>2, JobsOK
  <2>4. faults' \in Nat  BY <1>9 DEF AgeLock, AgeLockOfSlowWorker, TypeOK, bounds
  <2> QED
    BY <1>9, <2>3, <2>4 DEF AgeLock, AgeLockOfSlowWorker, TypeOK, rows, bounds
<1> QED  BY <1>1, <1>2, <1>3, <1>4, <1>5, <1>6, <1>7, <1>8, <1>9
         DEF RunOnce, Process

LEMMA OperatorTypeOK == TypeOK /\ Operator => TypeOK'
<1> SUFFICES ASSUME TypeOK, NEW p \in Payment,
                    \/ RetryOperationsJob(p)
                    \/ \E c \in Code : ResolveException(p, c)
             PROVE  TypeOK'
  BY DEF Operator
<1>1. CASE RetryOperationsJob(p)
  <2>1. Requeued(job[p]) \in Job  BY DEF Requeued, Unlocked, Job, JobStatus
  <2>2. job' \in [Payment -> Job]
    BY <1>1, <2>1, JobsOK DEF RetryOperationsJob
  <2> QED  BY <1>1, <2>2 DEF RetryOperationsJob, TypeOK, rows
<1>2. CASE \E c \in Code : ResolveException(p, c)
  <2>1. PICK c \in Code : ResolveException(p, c)  BY <1>2
  <2>2. exception' = [exception EXCEPT
          ![p] = [exception[p] EXCEPT ![c] = "resolved"]]
    BY <2>1 DEF ResolveException, TypeOK
  <2>3. [exception[p] EXCEPT ![c] = "resolved"]
          \in [Code -> {"none", "open", "resolved"}]
    BY DEF TypeOK
  <2>4. exception' \in [Payment -> [Code -> {"none", "open", "resolved"}]]
    BY <2>2, <2>3 DEF TypeOK
  <2>5. recon' \in [Payment -> {"pending", "matched", "exception"}]
    BY <2>1 DEF ResolveException, TypeOK
  <2> QED  BY <2>1, <2>4, <2>5 DEF ResolveException, TypeOK, bounds
<1> QED  BY <1>1, <1>2

LEMMA TypeOKStep == TypeOK /\ [Next]_vars => TypeOK'
<1>1. TypeOK /\ UNCHANGED vars => TypeOK'  BY DEF TypeOK, vars
<1> QED  BY <1>1, NetworkTypeOK, ApiTypeOK, RunOnceTypeOK, OperatorTypeOK DEF Next

(* Every reachable state has rows, handlers and workers of their types,    *)
(* whatever the number of payments, requests, workers, faults and retries. *)
THEOREM TypeCorrect == Spec => []TypeOK
<1>1. Init => TypeOK  BY TypeOKInit
<1>2. TypeOK /\ [Next]_vars => TypeOK'  BY TypeOKStep
<1> QED  BY <1>1, <1>2, PTL DEF Spec

-----------------------------------------------------------------------------
(* A step confirms a payment, or settles one, or is neutral: it leaves     *)
(* every confirmation and everything that settled as they were.            *)
Settled == {p \in Payment : chain[p] = "success"}

ConfirmsSettled(p) ==
  chain[p] = "success" /\ ConfirmStellarPayment(p) /\ UNCHANGED chain

NeutralRows ==
  /\ UNCHANGED ledger
  /\ \A p \in Payment :
       /\ intent'[p] = "confirmed" <=> intent[p] = "confirmed"
       /\ transfer'[p] = "confirmed" <=> transfer[p] = "confirmed"
       /\ "confirmed" \in notice'[p] <=> "confirmed" \in notice[p]

Neutral == NeutralRows /\ UNCHANGED Settled

LEMMA UnchangedRowsNeutral ==
  ASSUME UNCHANGED <<intent, transfer, ledger, notice>>
  PROVE  NeutralRows
BY DEF NeutralRows

LEMMA FailNeutral ==
  ASSUME TypeOK, NEW p \in Payment, FailStellarPayment(p)
  PROVE  NeutralRows
<1>1. CASE intent[p] \in {"failed", "confirmed"}
  BY <1>1, UnchangedRowsNeutral DEF FailStellarPayment
<1>2. CASE intent[p] \notin {"failed", "confirmed"}
  <2>1. UNCHANGED ledger /\ intent' = [intent EXCEPT ![p] = "failed"]
    BY <1>2 DEF FailStellarPayment
  <2>2. transfer' = [transfer EXCEPT
          ![p] = IF transfer[p] = "confirmed" THEN transfer[p] ELSE "failed"]
    BY <1>2 DEF FailStellarPayment
  <2>3. notice' = [notice EXCEPT ![p] = notice[p] \cup {"failed"}]
    BY <1>2 DEF FailStellarPayment
  <2>4. \A q \in Payment : intent'[q] = "confirmed" <=> intent[q] = "confirmed"
    BY <1>2, <2>1 DEF TypeOK
  <2>5. \A q \in Payment :
          transfer'[q] = "confirmed" <=> transfer[q] = "confirmed"
    BY <2>2 DEF TypeOK
  <2>6. \A q \in Payment :
          "confirmed" \in notice'[q] <=> "confirmed" \in notice[q]
    BY <2>3 DEF TypeOK
  <2> QED  BY <2>1, <2>4, <2>5, <2>6 DEF NeutralRows
<1> QED  BY <1>1, <1>2

LEMMA NetworkSteps ==
  TypeOK /\ Network => (\E p \in Payment : Include(p)) \/ Neutral
<1> SUFFICES ASSUME TypeOK, NEW p \in Payment, Drop(p) \/ Lapse(p)
             PROVE  Neutral
  BY DEF Network
<1>1. UNCHANGED dbVars  BY DEF Drop, Lapse
<1>2. UNCHANGED Settled  BY DEF Drop, Lapse, Settled, TypeOK
<1> QED  BY <1>1, <1>2, UnchangedRowsNeutral DEF dbVars, Neutral

LEMMA ApiSteps ==
  TypeOK /\ ConfirmsWhatSettled /\ ConfirmationAgrees /\ Api
    => (\E p \in Payment : ConfirmsSettled(p)) \/ Neutral
<1> SUFFICES ASSUME TypeOK, ConfirmsWhatSettled, ConfirmationAgrees, Api
             PROVE  (\E p \in Payment : ConfirmsSettled(p)) \/ Neutral
  OBVIOUS
<1>1. ASSUME NEW p \in Payment, Prepare(p)  PROVE Neutral
  <2>1. UNCHANGED <<chain, ledger, notice>>  BY <1>1 DEF Prepare
  <2>2. intent[p] # "confirmed" /\ transfer[p] # "confirmed"
    BY <1>1 DEF Prepare, ConfirmationAgrees
  <2>3. \A q \in Payment :
          /\ intent'[q] = "confirmed" <=> intent[q] = "confirmed"
          /\ transfer'[q] = "confirmed" <=> transfer[q] = "confirmed"
    BY <1>1, <2>2 DEF Prepare, TypeOK
  <2> QED  BY <2>1, <2>3 DEF Neutral, NeutralRows, Settled
<1>2. ASSUME NEW r \in Request,
             \/ \E p \in Payment : SubmitRead(r, p) \/ GetRead(r, p)
             \/ GetLookup(r) \/ RequestAborts(r)
      PROVE  Neutral
  BY <1>2, UnchangedRowsNeutral
  DEF SubmitRead, GetRead, GetLookup, RequestAborts, dbVars, Neutral, Settled
<1>3. ASSUME NEW r \in Request, SubmitSend(r)  PROVE Neutral
  <2>1. UNCHANGED dbVars  BY <1>3 DEF SubmitSend
  <2>2. UNCHANGED Settled
    BY <1>3 DEF SubmitSend, Settled, TypeOK
  <2> QED  BY <2>1, <2>2, UnchangedRowsNeutral DEF dbVars, Neutral
<1>4. ASSUME NEW r \in Request,
             SubmitRecord(r) \/ ExpireIntent(r) \/ ExpireTransfer(r)
      PROVE  Neutral
  <2>1. UNCHANGED <<chain, ledger, notice>>
    BY <1>4 DEF SubmitRecord, ExpireIntent, ExpireTransfer
  <2>2. \A p \in Payment :
          /\ intent'[p] = "confirmed" <=> intent[p] = "confirmed"
          /\ transfer'[p] = "confirmed" <=> transfer[p] = "confirmed"
    BY <1>4 DEF SubmitRecord, ExpireIntent, ExpireTransfer, TypeOK
  <2> QED  BY <2>1, <2>2 DEF Neutral, NeutralRows, Settled
<1>5. ASSUME NEW r \in Request, SubmitReject(r) \/ GetFail(r)  PROVE Neutral
  <2>1. request[r].pc \in RequestPc  BY <1>5 DEF SubmitReject, GetFail, RequestPc
  <2>2. request[r].payment \in Payment  BY <2>1, BusyRequest
  <2>3. UNCHANGED chain  BY <1>5 DEF SubmitReject, GetFail
  <2>4. NeutralRows  BY <1>5, <2>2, FailNeutral DEF SubmitReject, GetFail
  <2> QED  BY <2>3, <2>4 DEF Neutral, Settled
<1>6. ASSUME NEW r \in Request, GetConfirm(r)
      PROVE  \E p \in Payment : ConfirmsSettled(p)
  <2>1. request[r].pc \in RequestPc  BY <1>6 DEF GetConfirm, RequestPc
  <2>2. request[r].payment \in Payment  BY <2>1, BusyRequest
  <2> QED  BY <1>6, <2>2 DEF GetConfirm, ConfirmsWhatSettled, ConfirmsSettled
<1> QED  BY <1>1, <1>2, <1>3, <1>4, <1>5, <1>6 DEF Api

LEMMA RunOnceSteps ==
  TypeOK /\ ConfirmsWhatSettled /\ RunOnce
    => (\E p \in Payment : ConfirmsSettled(p)) \/ Neutral
<1> SUFFICES ASSUME TypeOK, ConfirmsWhatSettled, RunOnce
             PROVE  (\E p \in Payment : ConfirmsSettled(p)) \/ Neutral
  OBVIOUS
<1>1. ASSUME NEW w \in Worker,
             \/ Sweep(w) \/ ClaimNothing(w) \/ Load(w) \/ Lookup(w)
             \/ Complete(w) \/ Reschedule(w) \/ DeadLetter(w) \/ Abandon(w)
             \/ \E p \in Payment : Claim(w, p)
      PROVE  Neutral
  BY <1>1, UnchangedRowsNeutral
  DEF Sweep, ClaimNothing, Load, Lookup, Complete, Reschedule, DeadLetter,
      Abandon, Claim, rows, dbVars, Neutral, Settled
<1>2. ASSUME NEW p \in Payment, AgeLock(p) \/ AgeLockOfSlowWorker(p)
      PROVE  Neutral
  BY <1>2, UnchangedRowsNeutral
  DEF AgeLock, AgeLockOfSlowWorker, rows, Neutral, Settled
<1>3. ASSUME NEW w \in Worker, Fail(w)  PROVE Neutral
  <2>1. worker[w].pc \in WorkerPc  BY <1>3 DEF Fail, WorkerPc
  <2>2. worker[w].payment \in Payment  BY <2>1, BusyWorker
  <2>3. NeutralRows
    BY <1>3, <2>2, FailNeutral, UnchangedRowsNeutral DEF Fail, rows
  <2> QED  BY <1>3, <2>3 DEF Fail, Neutral, Settled
<1>4. ASSUME NEW w \in Worker, Confirm(w)
      PROVE  (\E p \in Payment : ConfirmsSettled(p)) \/ Neutral
  <2>1. worker[w].pc \in WorkerPc  BY <1>4 DEF Confirm, WorkerPc
  <2>2. worker[w].payment \in Payment  BY <2>1, BusyWorker
  <2>3. CASE ConfirmStellarPayment(worker[w].payment)
    BY <1>4, <2>2, <2>3 DEF Confirm, ConfirmsWhatSettled, ConfirmsSettled
  <2>4. CASE UNCHANGED rows
    BY <1>4, <2>4, UnchangedRowsNeutral DEF Confirm, rows, Neutral, Settled
  <2> QED  BY <1>4, <2>3, <2>4 DEF Confirm
<1> QED  BY <1>1, <1>2, <1>3, <1>4 DEF RunOnce, Process

LEMMA OperatorSteps == Operator => Neutral
BY UnchangedRowsNeutral
DEF Operator, RetryOperationsJob, ResolveException, rows, Neutral, Settled

LEMMA Steps ==
  TypeOK /\ ConfirmsWhatSettled /\ ConfirmationAgrees /\ [Next]_vars
    => \/ \E p \in Payment : Include(p) \/ ConfirmsSettled(p)
       \/ Neutral
<1>1. UNCHANGED vars => Neutral
  BY UnchangedRowsNeutral DEF vars, Neutral, Settled
<1> QED  BY <1>1, NetworkSteps, ApiSteps, RunOnceSteps, OperatorSteps DEF Next

-----------------------------------------------------------------------------
(* Confirmations agree with the network: the invariant and its induction.  *)
(* A handler or worker confirms on what it read in an earlier step, so the *)
(* invariant records that a success, once read, is one for ever.           *)
IInv == TypeOK /\ ConfirmsWhatSettled /\ ConfirmationAgrees

LEMMA IInvInit == Init => IInv
<1> SUFFICES ASSUME Init  PROVE IInv  OBVIOUS
<1>1. TypeOK  BY TypeOKInit
<1>2. ConfirmsWhatSettled
  BY DEF Init, ConfirmsWhatSettled, IdleRequest, Resting
<1>3. ConfirmationAgrees  BY DEF Init, ConfirmationAgrees
<1> QED  BY <1>1, <1>2, <1>3 DEF IInv

LEMMA SettledForEver ==
  IInv /\ [Next]_vars
    => \A p \in Payment : chain[p] = "success" => chain'[p] = "success"
<1> SUFFICES ASSUME IInv, [Next]_vars
             PROVE  Settled \subseteq Settled'
  BY DEF Settled
<1>1. ASSUME NEW p \in Payment, Include(p)  PROVE Settled \subseteq Settled'
  BY <1>1 DEF Include, Settled, IInv, TypeOK
<1>2. ASSUME NEW p \in Payment, ConfirmsSettled(p)
      PROVE  Settled \subseteq Settled'
  BY <1>2 DEF ConfirmsSettled, Settled
<1>3. CASE Neutral  BY <1>3 DEF Neutral
<1> QED  BY <1>1, <1>2, <1>3, Steps DEF IInv

(* Only a lookup that found a success makes anyone about to confirm. *)
LEMMA NewConfirmingRequest ==
  ASSUME TypeOK, [Next]_vars, NEW r \in Request,
         request'[r] # request[r], request'[r].pc = "confirm"
  PROVE  /\ request'[r].payment \in Payment
         /\ chain[request'[r].payment] = "success"
<1>1. Api
  BY DEF Next, Network, RunOnce, Process, Operator, vars, Include, Drop, Lapse,
         Sweep, Claim, ClaimNothing, Load, Lookup, Confirm, Fail, Complete,
         Reschedule, DeadLetter, Abandon, AgeLock, AgeLockOfSlowWorker,
         RetryOperationsJob, ResolveException
<1>2. ASSUME NEW p \in Payment, Prepare(p)  PROVE FALSE  BY <1>2 DEF Prepare
<1>3. ASSUME NEW q \in Request, NEW p \in Payment,
             SubmitRead(q, p) \/ GetRead(q, p)
      PROVE  FALSE
  BY <1>3 DEF SubmitRead, GetRead, TypeOK
<1>4. ASSUME NEW q \in Request, Respond(q)  PROVE FALSE
  BY <1>4 DEF Respond, IdleRequest, TypeOK
<1>5. ASSUME NEW q \in Request, NEW pc \in RequestPc \ {"confirm"}, Goto(q, pc)
      PROVE  FALSE
  <2>1. q # r => request'[r] = request[r]  BY <1>5 DEF Goto, TypeOK
  <2>2. request'[q].pc = pc
    <3>1. request'[q] = [request[q] EXCEPT !.pc = pc]  BY <1>5 DEF Goto, TypeOK
    <3>2. request[q] \in RequestState  BY DEF TypeOK
    <3> QED  BY <3>1, <3>2 DEF RequestState, IdleRequest
  <2> QED  BY <2>1, <2>2
<1>6. ASSUME NEW q \in Request, SubmitSend(q)  PROVE FALSE
  BY <1>4, <1>5, <1>6 DEF SubmitSend, RequestPc
<1>7. ASSUME NEW q \in Request, ExpireIntent(q)  PROVE FALSE
  BY <1>5, <1>7 DEF ExpireIntent, RequestPc
<1>8. ASSUME NEW q \in Request,
             \/ SubmitRecord(q) \/ SubmitReject(q) \/ ExpireTransfer(q)
             \/ GetConfirm(q) \/ GetFail(q) \/ RequestAborts(q)
      PROVE  FALSE
  BY <1>4, <1>8
  DEF SubmitRecord, SubmitReject, ExpireTransfer, GetConfirm, GetFail,
      RequestAborts
<1>9. PICK q \in Request : GetLookup(q)
  BY <1>1, <1>2, <1>3, <1>6, <1>7, <1>8 DEF Api
<1>10. Goto(q, "confirm") /\ chain[request[q].payment] = "success"
  BY <1>4, <1>5, <1>9 DEF GetLookup, RequestPc
<1>11. request[q] \in [pc : RequestPc, payment : Payment]
  BY <1>9, BusyRequest DEF GetLookup, RequestPc
<1>12. q = r  BY <1>10 DEF Goto, TypeOK
<1>13. request'[q] = [request[q] EXCEPT !.pc = "confirm"]
  BY <1>10 DEF Goto, TypeOK
<1>14. request'[q].payment = request[q].payment  BY <1>11, <1>13
<1> QED  BY <1>10, <1>11, <1>12, <1>14

LEMMA NewConfirmingWorker ==
  ASSUME TypeOK, [Next]_vars, NEW w \in Worker,
         worker'[w] # worker[w], worker'[w].pc = "confirm"
  PROVE  /\ worker'[w].payment \in Payment
         /\ chain[worker'[w].payment] = "success"
<1>1. \E v \in Worker :
        \/ Sweep(v) \/ ClaimNothing(v) \/ Process(v) \/ Abandon(v)
        \/ \E p \in Payment : Claim(v, p)
  BY DEF Next, Network, RunOnce, Api, Operator, vars, Include, Drop, Lapse,
         Prepare, SubmitRead, SubmitSend, SubmitRecord, SubmitReject,
         ExpireIntent, ExpireTransfer, GetRead, GetLookup, GetConfirm, GetFail,
         RequestAborts, AgeLock, AgeLockOfSlowWorker,
         RetryOperationsJob, ResolveException
<1>2. ASSUME NEW v \in Worker, NEW p \in Payment, Claim(v, p)  PROVE FALSE
  BY <1>2 DEF Claim, TypeOK
<1>3. ASSUME NEW v \in Worker, Rest(v)  PROVE FALSE
  BY <1>3 DEF Rest, Resting, TypeOK
<1>4. ASSUME NEW v \in Worker, Sweep(v)  PROVE FALSE
  BY <1>4 DEF Sweep, Resting, TypeOK
<1>5. ASSUME NEW v \in Worker, NEW pc \in WorkerPc \ {"confirm"}, Step(v, pc)
      PROVE  FALSE
  <2>1. v # w => worker'[w] = worker[w]  BY <1>5 DEF Step, TypeOK
  <2>2. worker'[v].pc = pc
    <3>1. worker'[v] = [worker[v] EXCEPT !.pc = pc]  BY <1>5 DEF Step, TypeOK
    <3>2. worker[v] \in WorkerState  BY DEF TypeOK
    <3> QED  BY <3>1, <3>2 DEF WorkerState, Resting
  <2> QED  BY <2>1, <2>2
<1>6. ASSUME NEW v \in Worker, NEW code \in Code, RetryWith(v, code)
      PROVE  FALSE
  <2>1. worker' = [worker EXCEPT
                     ![v] = [worker[v] EXCEPT !.pc = "retry", !.code = code]]
    BY <1>6 DEF RetryWith, TypeOK
  <2>2. v # w => worker'[w] = worker[w]  BY <2>1 DEF TypeOK
  <2>3. worker'[v].pc = "retry"
    <3>1. worker'[v] = [worker[v] EXCEPT !.pc = "retry", !.code = code]
      BY <2>1 DEF TypeOK
    <3>2. worker[v] \in WorkerState  BY DEF TypeOK
    <3> QED  BY <3>1, <3>2 DEF WorkerState, Resting
  <2> QED  BY <2>2, <2>3
<1>7. ASSUME NEW v \in Worker, Load(v) \/ Confirm(v) \/ Fail(v)  PROVE FALSE
  BY <1>5, <1>6, <1>7 DEF Load, Confirm, Fail, WorkerPc, Code, FaultCode
<1>8. ASSUME NEW v \in Worker,
             \/ ClaimNothing(v) \/ Complete(v) \/ Reschedule(v)
             \/ DeadLetter(v) \/ Abandon(v)
      PROVE  FALSE
  BY <1>3, <1>8 DEF ClaimNothing, Complete, Reschedule, DeadLetter, Abandon
<1>9. PICK v \in Worker : Lookup(v)
  BY <1>1, <1>2, <1>4, <1>7, <1>8 DEF Process
<1>10. Step(v, "confirm") /\ chain[worker[v].payment] = "success"
  BY <1>5, <1>6, <1>9 DEF Lookup, WorkerPc, Code, FaultCode
<1>11. worker[v] \in [pc : WorkerPc, payment : Payment, attempts : Nat,
                      code : Code \cup {"none"}]
  BY <1>9, BusyWorker DEF Lookup, WorkerPc
<1>12. v = w  BY <1>10 DEF Step, TypeOK
<1>13. worker'[v] = [worker[v] EXCEPT !.pc = "confirm"]
  BY <1>10 DEF Step, TypeOK
<1>14. worker'[v].payment = worker[v].payment  BY <1>11, <1>13
<1> QED  BY <1>10, <1>11, <1>12, <1>14

LEMMA ConfirmsWhatSettledStep == IInv /\ [Next]_vars => ConfirmsWhatSettled'
<1> SUFFICES ASSUME IInv, [Next]_vars  PROVE ConfirmsWhatSettled'  OBVIOUS
<1>1. ASSUME NEW r \in Request, request'[r].pc = "confirm"
      PROVE  chain'[request'[r].payment] = "success"
  <2>1. CASE request'[r] = request[r]
    <3>1. request[r].payment \in Payment /\ chain[request[r].payment] = "success"
      BY <1>1, <2>1, BusyRequest DEF IInv, ConfirmsWhatSettled, RequestPc
    <3> QED  BY <2>1, <3>1, SettledForEver
  <2>2. CASE request'[r] # request[r]
    <3>1. request'[r].payment \in Payment /\ chain[request'[r].payment] = "success"
      BY <1>1, <2>2, NewConfirmingRequest DEF IInv
    <3> QED  BY <3>1, SettledForEver
  <2> QED  BY <2>1, <2>2
<1>2. ASSUME NEW w \in Worker, worker'[w].pc = "confirm"
      PROVE  chain'[worker'[w].payment] = "success"
  <2>1. CASE worker'[w] = worker[w]
    <3>1. worker[w].payment \in Payment /\ chain[worker[w].payment] = "success"
      BY <1>2, <2>1, BusyWorker DEF IInv, ConfirmsWhatSettled, WorkerPc
    <3> QED  BY <2>1, <3>1, SettledForEver
  <2>2. CASE worker'[w] # worker[w]
    <3>1. worker'[w].payment \in Payment /\ chain[worker'[w].payment] = "success"
      BY <1>2, <2>2, NewConfirmingWorker DEF IInv
    <3> QED  BY <3>1, SettledForEver
  <2> QED  BY <2>1, <2>2
<1> QED  BY <1>1, <1>2 DEF ConfirmsWhatSettled

(* Confirming a payment that settled books it once. *)
LEMMA ConfirmBooksOnce ==
  ASSUME IInv, NEW p \in Payment, ConfirmsSettled(p), intent[p] # "confirmed"
  PROVE  /\ intent' = [intent EXCEPT ![p] = "confirmed"]
         /\ transfer' = [transfer EXCEPT ![p] = "confirmed"]
         /\ ledger[p] = 0 /\ ledger' = [ledger EXCEPT ![p] = 1]
         /\ "confirmed" \notin notice[p]
         /\ notice' = [notice EXCEPT ![p] = notice[p] \cup {"confirmed"}]
BY DEF IInv, ConfirmationAgrees, ConfirmsSettled, ConfirmStellarPayment

LEMMA ConfirmationAgreesStep == IInv /\ [Next]_vars => ConfirmationAgrees'
<1> SUFFICES ASSUME IInv, [Next]_vars  PROVE ConfirmationAgrees'  OBVIOUS
<1> USE DEF IInv
<1>1. ASSUME NEW p \in Payment, Include(p)  PROVE ConfirmationAgrees'
  <2>1. UNCHANGED <<intent, transfer, ledger, notice>>
    BY <1>1 DEF Include, dbVars
  <2> QED  BY <2>1, SettledForEver DEF ConfirmationAgrees
<1>2. ASSUME NEW p \in Payment, ConfirmsSettled(p)  PROVE ConfirmationAgrees'
  <2>1. CASE intent[p] = "confirmed"
    BY <1>2, <2>1
    DEF ConfirmsSettled, ConfirmStellarPayment, rows, ConfirmationAgrees
  <2>2. CASE intent[p] # "confirmed"
    <3>1. UNCHANGED chain /\ chain[p] = "success"  BY <1>2 DEF ConfirmsSettled
    <3>2. /\ intent' = [intent EXCEPT ![p] = "confirmed"]
          /\ transfer' = [transfer EXCEPT ![p] = "confirmed"]
          /\ ledger' = [ledger EXCEPT ![p] = 1]
          /\ notice' = [notice EXCEPT ![p] = notice[p] \cup {"confirmed"}]
      BY <1>2, <2>2, ConfirmBooksOnce
    <3>3. ASSUME NEW q \in Payment
          PROVE  /\ intent'[q] = IF q = p THEN "confirmed" ELSE intent[q]
                 /\ transfer'[q] = IF q = p THEN "confirmed" ELSE transfer[q]
                 /\ ledger'[q] = IF q = p THEN 1 ELSE ledger[q]
                 /\ notice'[q] = IF q = p THEN notice[q] \cup {"confirmed"}
                                         ELSE notice[q]
      BY <3>2 DEF TypeOK
    <3> QED  BY <3>1, <3>3 DEF ConfirmationAgrees
  <2> QED  BY <2>1, <2>2
<1>3. CASE Neutral
  BY <1>3, SettledForEver DEF Neutral, NeutralRows, ConfirmationAgrees
<1> QED  BY <1>1, <1>2, <1>3, Steps

LEMMA IInvStep == IInv /\ [Next]_vars => IInv'
BY TypeOKStep, ConfirmsWhatSettledStep, ConfirmationAgreesStep DEF IInv

LEMMA IInvAlways == Spec => []IInv
<1>1. Init => IInv  BY IInvInit
<1>2. IInv /\ [Next]_vars => IInv'  BY IInvStep
<1> QED  BY <1>1, <1>2, PTL DEF Spec

(* Intent, transfer, ledger and confirmation notice of every payment speak *)
(* with one voice, and only of what the network settled, for any number of *)
(* concurrent requests and workers, lost leases, crashes and retries       *)
(* (docs/OPERATIONS_RUNBOOK.md:9).                                         *)
THEOREM ConfirmationsAgree == Spec => []ConfirmationAgrees
<1>1. IInv => ConfirmationAgrees  BY DEF IInv
<1> QED  BY <1>1, IInvAlways, PTL

(* What a handler or a worker read before it confirms cannot go stale.     *)
THEOREM ConfirmersSawSuccess == Spec => []ConfirmsWhatSettled
<1>1. IInv => ConfirmsWhatSettled  BY DEF IInv
<1> QED  BY <1>1, IInvAlways, PTL

(* No handler, worker or operator ever takes a confirmation back. *)
THEOREM ConfirmationIsFinal == Spec => ConfirmedIsFinal
<1>1. ASSUME IInv, [Next]_vars, NEW p \in Payment, intent[p] = "confirmed"
      PROVE  intent'[p] = "confirmed"
  <2>1. ASSUME NEW q \in Payment, Include(q)  PROVE intent'[p] = "confirmed"
    BY <1>1, <2>1 DEF Include, dbVars
  <2>2. ASSUME NEW q \in Payment, ConfirmsSettled(q)
        PROVE  intent'[p] = "confirmed"
    BY <1>1, <2>2
    DEF ConfirmsSettled, ConfirmStellarPayment, rows, IInv, TypeOK
  <2>3. CASE Neutral  BY <1>1, <2>3 DEF Neutral, NeutralRows
  <2> QED  BY <1>1, <2>1, <2>2, <2>3, Steps DEF IInv
<1>2. IInv /\ [Next]_vars
        => [\A p \in Payment : intent[p] = "confirmed" => intent'[p] = "confirmed"]_vars
  BY <1>1
<1> QED  BY <1>2, IInvAlways, PTL DEF Spec, ConfirmedIsFinal

-----------------------------------------------------------------------------
(* StellarSettlement implements SettlementPromise. *)
LEMMA PromiseInit == Init => Promise!Init
BY DEF Init, Promise!Init

LEMMA PromiseStep == IInv /\ [Next]_vars => [Promise!Next]_(Promise!vars)
<1> SUFFICES ASSUME IInv, [Next]_vars
             PROVE  Promise!Next \/ UNCHANGED Promise!vars
  OBVIOUS
<1> DEFINE settled == {p \in Payment : chain[p] = "success"}
           announced == {p \in Payment : "confirmed" \in notice[p]}
<1>1. ASSUME NEW p \in Payment, Include(p)
      PROVE  Promise!Settle(p) \/ UNCHANGED Promise!vars
  <2>1. UNCHANGED <<ledger, announced>>  BY <1>1 DEF Include, dbVars
  <2>2. \/ p \notin settled /\ settled' = settled \cup {p}
        \/ UNCHANGED settled
    BY <1>1 DEF Include, IInv, TypeOK
  <2> QED  BY <2>1, <2>2 DEF Promise!Settle, Promise!vars
<1>2. ASSUME NEW p \in Payment, ConfirmsSettled(p)
      PROVE  Promise!Book(p) \/ UNCHANGED Promise!vars
  <2>1. UNCHANGED settled /\ p \in settled  BY <1>2 DEF ConfirmsSettled
  <2>2. CASE intent[p] = "confirmed"
    BY <1>2, <2>1, <2>2
    DEF ConfirmsSettled, ConfirmStellarPayment, rows, Promise!vars
  <2>3. CASE intent[p] # "confirmed"
    <3>1. /\ ledger[p] = 0 /\ ledger' = [ledger EXCEPT ![p] = 1]
          /\ "confirmed" \notin notice[p]
          /\ notice' = [notice EXCEPT ![p] = notice[p] \cup {"confirmed"}]
      BY <1>2, <2>3, ConfirmBooksOnce
    <3>2. p \notin announced /\ announced' = announced \cup {p}
      BY <3>1 DEF IInv, TypeOK
    <3> QED  BY <2>1, <3>1, <3>2 DEF Promise!Book
  <2> QED  BY <2>2, <2>3
<1>3. CASE Neutral
  BY <1>3 DEF Neutral, NeutralRows, Settled, Promise!vars
<1> QED  BY <1>1, <1>2, <1>3, Steps DEF IInv, Promise!Next

(* Every behaviour of the handlers, the worker and the operators is one in *)
(* which a payment is posted and announced in one step, at most once, and  *)
(* after the network has settled it.                                       *)
THEOREM ImplementsPromise == Spec => KeepsPromise
<1>1. Init => Promise!Init  BY PromiseInit
<1>2. IInv /\ [Next]_vars => [Promise!Next]_(Promise!vars)  BY PromiseStep
<1> QED  BY <1>1, <1>2, IInvAlways, PTL DEF Spec, KeepsPromise, Promise!Spec


-----------------------------------------------------------------------------
(* The transfer follows the intent.  The second statement of the expiry     *)
(* fails a transfer that is still prepared, whatever its intent became in   *)
(* between: the invariant is that a handler between the two statements has  *)
(* a payment that is not prepared any more, and never will be again.        *)
Together(i, t) == IF i = "expired" THEN t \in {"prepared", "submitted", "failed"} ELSE t = i
ExpiringInv ==
  \A r \in Request :
    /\ request[r].pc \in {"expireIntent", "expireTransfer"} =>
         intent[request[r].payment] # "absent"
    /\ request[r].pc = "expireTransfer" => intent[request[r].payment] # "prepared"
FollowInv ==
  TypeOK /\ (\A p \in Payment : Together(intent[p], transfer[p])) /\ ExpiringInv

(* No step leads back to an absent or to a prepared payment. *)
Later(i, j) == /\ i # "absent" => j # "absent"
               /\ i \notin {"absent", "prepared"} => j # "prepared"
Onward(p) == Together(intent'[p], transfer'[p]) /\ Later(intent[p], intent'[p])

LEMMA SameOnward ==
  ASSUME FollowInv, UNCHANGED <<intent, transfer>>
  PROVE  \A p \in Payment : Onward(p)
BY DEF Onward, Later, FollowInv

LEMMA FailOnward ==
  ASSUME FollowInv, NEW p \in Payment, FailStellarPayment(p)
  PROVE  \A q \in Payment : Onward(q)
<1>1. CASE intent[p] \in {"failed", "confirmed"}
  BY <1>1, SameOnward DEF FailStellarPayment
<1>2. CASE intent[p] \notin {"failed", "confirmed"}
  <2>1. /\ intent' = [intent EXCEPT ![p] = "failed"]
        /\ transfer' = [transfer EXCEPT
                          ![p] = IF transfer[p] = "confirmed" THEN transfer[p] ELSE "failed"]
    BY <1>2 DEF FailStellarPayment
  <2>2. transfer[p] # "confirmed"
    BY <1>2 DEF FollowInv, Together
  <2> QED
    BY <2>1, <2>2 DEF FollowInv, TypeOK, Onward, Together, Later
<1> QED
  BY <1>1, <1>2

LEMMA ConfirmOnward ==
  ASSUME FollowInv, NEW p \in Payment, ConfirmStellarPayment(p)
  PROVE  \A q \in Payment : Onward(q)
<1>1. CASE intent[p] = "confirmed"
  BY <1>1, SameOnward DEF ConfirmStellarPayment, rows
<1>2. CASE intent[p] # "confirmed"
  <2>1. /\ intent' = [intent EXCEPT ![p] = "confirmed"]
        /\ transfer' = [transfer EXCEPT ![p] = "confirmed"]
    BY <1>2 DEF ConfirmStellarPayment
  <2> QED
    BY <2>1 DEF FollowInv, TypeOK, Onward, Together, Later
<1> QED
  BY <1>1, <1>2

LEMMA ApiOnward ==
  ASSUME FollowInv, Api
  PROVE  \A q \in Payment : Onward(q)
<1>0. TypeOK
  BY DEF FollowInv
<1>1. ASSUME NEW p \in Payment, Prepare(p)  PROVE \A q \in Payment : Onward(q)
  BY <1>0, <1>1 DEF Prepare, FollowInv, TypeOK, Onward, Together, Later
<1>2. ASSUME NEW r \in Request,
             \/ \E p \in Payment : SubmitRead(r, p) \/ GetRead(r, p)
             \/ SubmitSend(r) \/ GetLookup(r) \/ RequestAborts(r)
      PROVE  \A q \in Payment : Onward(q)
  <2>1. UNCHANGED dbVars
    BY <1>2 DEF SubmitRead, GetRead, SubmitSend, GetLookup, RequestAborts
  <2> QED
    BY <2>1, SameOnward DEF dbVars
<1>3. ASSUME NEW r \in Request, SubmitRecord(r)  PROVE \A q \in Payment : Onward(q)
  <2>1. request[r].payment \in Payment
    BY <1>0, <1>3, BusyRequest DEF SubmitRecord, RequestPc
  <2>2. PICK p \in Payment :
          /\ intent' = [intent EXCEPT
               ![p] = IF intent[p] = "prepared" THEN "submitted" ELSE intent[p]]
          /\ transfer' = [transfer EXCEPT
               ![p] = IF transfer[p] = "prepared" THEN "submitted" ELSE transfer[p]]
    BY <1>3, <2>1 DEF SubmitRecord
  <2> QED
    BY <2>2 DEF FollowInv, TypeOK, Onward, Together, Later
<1>4. ASSUME NEW r \in Request, ExpireIntent(r)  PROVE \A q \in Payment : Onward(q)
  <2>1. request[r].payment \in Payment
    BY <1>0, <1>4, BusyRequest DEF ExpireIntent, RequestPc
  <2>2. PICK p \in Payment :
          /\ intent' = [intent EXCEPT
               ![p] = IF intent[p] = "prepared" THEN "expired" ELSE intent[p]]
          /\ transfer' = transfer
    BY <1>4, <2>1 DEF ExpireIntent
  <2> QED
    BY <2>2 DEF FollowInv, TypeOK, Onward, Together, Later
<1>5. ASSUME NEW r \in Request, ExpireTransfer(r)  PROVE \A q \in Payment : Onward(q)
  <2>1. request[r].payment \in Payment
    BY <1>0, <1>5, BusyRequest DEF ExpireTransfer, RequestPc
  <2>2. PICK p \in Payment :
          /\ p = request[r].payment /\ intent' = intent
          /\ transfer' = [transfer EXCEPT
               ![p] = IF transfer[p] = "prepared" THEN "failed" ELSE transfer[p]]
    BY <1>5, <2>1 DEF ExpireTransfer
  <2>3. intent[p] # "prepared"
    BY <1>5, <2>2 DEF ExpireTransfer, FollowInv, ExpiringInv
  <2> QED
    BY <2>2, <2>3 DEF FollowInv, TypeOK, Onward, Together, Later
<1>6. ASSUME NEW r \in Request, SubmitReject(r) \/ GetFail(r) \/ GetConfirm(r)
      PROVE  \A q \in Payment : Onward(q)
  <2>1. request[r].payment \in Payment
    BY <1>0, <1>6, BusyRequest DEF SubmitReject, GetFail, GetConfirm, RequestPc
  <2> QED
    BY <1>6, <2>1, FailOnward, ConfirmOnward DEF SubmitReject, GetFail, GetConfirm
<1> QED
  BY <1>1, <1>2, <1>3, <1>4, <1>5, <1>6 DEF Api

LEMMA WorkOnward ==
  ASSUME FollowInv, Network \/ RunOnce \/ Operator \/ UNCHANGED vars
  PROVE  \A q \in Payment : Onward(q)
<1>0. TypeOK
  BY DEF FollowInv
<1>1. CASE Network
  BY <1>1, SameOnward DEF Network, Include, Drop, Lapse, dbVars
<1>2. CASE Operator
  BY <1>2, SameOnward DEF Operator, RetryOperationsJob, ResolveException, rows
<1>3. CASE UNCHANGED vars
  BY <1>3, SameOnward DEF vars
<1>4. CASE RunOnce
  <2>1. ASSUME NEW w \in Worker,
               \/ Sweep(w) \/ ClaimNothing(w) \/ Load(w) \/ Lookup(w)
               \/ Complete(w) \/ Reschedule(w) \/ DeadLetter(w) \/ Abandon(w)
               \/ \E p \in Payment : Claim(w, p)
        PROVE  \A q \in Payment : Onward(q)
    BY <2>1, SameOnward
    DEF Sweep, ClaimNothing, Load, Lookup, Complete, Reschedule, DeadLetter,
        Abandon, Claim, rows, dbVars
  <2>2. ASSUME NEW p \in Payment, AgeLock(p) \/ AgeLockOfSlowWorker(p)
        PROVE  \A q \in Payment : Onward(q)
    BY <2>2, SameOnward DEF AgeLock, AgeLockOfSlowWorker, rows
  <2>3. ASSUME NEW w \in Worker, Fail(w) \/ Confirm(w)
        PROVE  \A q \in Payment : Onward(q)
    <3>1. worker[w].payment \in Payment
      BY <1>0, <2>3, BusyWorker DEF Fail, Confirm, WorkerPc
    <3> QED
      BY <2>3, <3>1, FailOnward, ConfirmOnward, SameOnward DEF Fail, Confirm, rows
  <2> QED
    BY <1>4, <2>1, <2>2, <2>3 DEF RunOnce, Process
<1> QED
  BY <1>1, <1>2, <1>3, <1>4

(* Who enters the expiry path, or its second statement. *)
LEMMA ExpiringMoves ==
  ASSUME FollowInv, [Next]_vars, NEW r \in Request,
         request'[r].pc \in {"expireIntent", "expireTransfer"}
  PROVE  /\ request'[r].payment \in Payment /\ intent[request'[r].payment] # "absent"
         /\ request'[r].pc = "expireTransfer" => intent'[request'[r].payment] # "prepared"
<1>0. TypeOK /\ request \in [Request -> RequestState] /\ intent \in [Payment -> Status]
  BY DEF FollowInv, TypeOK
<1>1. CASE request'[r] = request[r]
  <2>1. request[r].payment \in Payment
    BY <1>0, <1>1, BusyRequest DEF RequestPc
  <2>2. Onward(request[r].payment)
    BY <2>1, ApiOnward, WorkOnward DEF Next
  <2> QED
    BY <1>1, <2>1, <2>2 DEF FollowInv, ExpiringInv, Onward, Later
<1>2. ASSUME NEW p \in Payment, SubmitRead(r, p) \/ GetRead(r, p)
      PROVE  /\ request'[r].payment = p /\ intent[p] # "absent"
             /\ request'[r].pc # "expireTransfer"
  BY <1>0, <1>2 DEF SubmitRead, GetRead
<1>3. CASE ExpireIntent(r)
  <2>1. request[r] \in [pc : RequestPc, payment : Payment]
    BY <1>0, <1>3, BusyRequest DEF ExpireIntent, RequestPc
  <2>2. request' = [request EXCEPT ![r].pc = "expireTransfer"]
    BY <1>3 DEF ExpireIntent, Goto
  <2>3. request'[r].payment = request[r].payment
    BY <1>0, <2>1, <2>2
  <2>4. intent[request[r].payment] # "absent" /\ intent'[request[r].payment] # "prepared"
    BY <1>0, <1>3, <2>1 DEF ExpireIntent, FollowInv, ExpiringInv
  <2> QED
    BY <2>1, <2>3, <2>4
<1>4. ASSUME NEW o \in Request,
             \/ SubmitSend(o) \/ SubmitRecord(o) \/ SubmitReject(o) \/ ExpireTransfer(o)
             \/ GetLookup(o) \/ GetConfirm(o) \/ GetFail(o) \/ RequestAborts(o)
      PROVE  request'[r] = request[r]
  <2>1. \/ request' = [request EXCEPT ![o] = IdleRequest]
        \/ \E pc \in {"record", "reject", "confirm", "fail"} :
             request' = [request EXCEPT ![o].pc = pc]
    BY <1>4 DEF SubmitSend, SubmitRecord, SubmitReject, ExpireTransfer, GetLookup,
                GetConfirm, GetFail, RequestAborts, Respond, Goto
  <2>2. IdleRequest.pc = "idle"
    BY DEF IdleRequest
  <2>3. CASE request' = [request EXCEPT ![o] = IdleRequest]
    BY <1>0, <2>2, <2>3
  <2>4. CASE \E pc \in {"record", "reject", "confirm", "fail"} :
               request' = [request EXCEPT ![o].pc = pc]
    <3>1. PICK pc \in {"record", "reject", "confirm", "fail"} :
            request' = [request EXCEPT ![o].pc = pc]
      BY <2>4
    <3>2. request[o].pc \in RequestPc
      BY <1>0, <1>4 DEF SubmitSend, SubmitRecord, SubmitReject, ExpireTransfer, GetLookup,
                        GetConfirm, GetFail, RequestAborts, RequestPc, RequestState
    <3>3. request[o] \in [pc : RequestPc, payment : Payment]
      BY <1>0, <3>2, BusyRequest
    <3>4. [request[o] EXCEPT !.pc = pc].pc = pc
      BY <3>3
    <3> QED
      BY <1>0, <3>1, <3>4
  <2> QED
    BY <2>1, <2>3, <2>4
<1>5. ASSUME NEW o \in Request, o # r,
             (\E p \in Payment : SubmitRead(o, p) \/ GetRead(o, p)) \/ ExpireIntent(o)
      PROVE  request'[r] = request[r]
  BY <1>0, <1>5 DEF SubmitRead, GetRead, ExpireIntent, Goto
<1>6. CASE Api
  <2>1. CASE \E p \in Payment : Prepare(p)
    BY <1>1, <2>1 DEF Prepare
  <2>2. CASE \E p \in Payment : SubmitRead(r, p) \/ GetRead(r, p)
    BY <1>2, <2>2
  <2> QED
    BY <1>1, <1>3, <1>4, <1>5, <1>6, <2>1, <2>2 DEF Api
<1>7. CASE Network \/ RunOnce \/ Operator \/ UNCHANGED vars
  BY <1>1, <1>7 DEF Network, Include, Drop, Lapse, RunOnce, Process, Operator, vars,
       Sweep, ClaimNothing, Load, Lookup, Confirm, Fail, Complete, Reschedule, DeadLetter,
       Abandon, Claim, AgeLock, AgeLockOfSlowWorker, RetryOperationsJob, ResolveException
<1> QED
  BY <1>6, <1>7 DEF Next

LEMMA FollowStep == FollowInv /\ [Next]_vars => FollowInv'
<1> SUFFICES ASSUME FollowInv, [Next]_vars  PROVE FollowInv'
  OBVIOUS
<1>1. TypeOK'
  BY TypeOKStep DEF FollowInv
<1>2. \A p \in Payment : Onward(p)
  BY ApiOnward, WorkOnward DEF Next
<1>3. ExpiringInv'
  BY <1>2, ExpiringMoves DEF ExpiringInv, Onward, Later
<1> QED
  BY <1>1, <1>2, <1>3 DEF FollowInv, Onward

(* Outside the expiry, whose two statements are not one transaction, the    *)
(* transfer that the customer sees has the status of the intent, and no     *)
(* expiry that is late fails the transfer of a payment that went on.        *)
THEOREM TransfersFollowIntents == Spec => []TransferFollowsIntent
<1>1. Init => FollowInv
  <2> SUFFICES ASSUME Init  PROVE FollowInv
    OBVIOUS
  <2>1. TypeOK
    BY TypeOKInit
  <2>2. ExpiringInv
    BY DEF Init, ExpiringInv, IdleRequest
  <2>3. \A p \in Payment : Together(intent[p], transfer[p])
    BY DEF Init, Together
  <2> QED
    BY <2>1, <2>2, <2>3 DEF FollowInv
<1>2. FollowInv => TransferFollowsIntent
  BY DEF FollowInv, Together, TransferFollowsIntent
<1> QED
  BY <1>1, <1>2, FollowStep, PTL DEF Spec
=============================================================================
