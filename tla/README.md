# Padalix in TLA+

This directory models the parts of Padalix in which money, messages and
decisions depend on the order of concurrent steps: TLA+ modules translated from
the Go platform service, the TypeScript administration and customer
applications, the SQL schema and the Soroban contract; TLC configurations that
model-check them on small instances; and proofs, checked by TLAPS, that every
safety property the runs check holds in every instance. `PROJECT.json` maps every
definition to the lines it stands for.

Paths below are relative to the root of the repository. "Platform" stands for
`services/platform/internal/platform`, "admin" for `apps/admin/src/lib`, "desk"
for `apps/admin/src/components` and "page" for `apps/web/src/components`.

Run a model with `tlc -config <X>.cfg <module>` and a proof with
`tlapm <module>`; the table of runs names the pairs.

## 1. The system

Padalix is an API in Go that a Next.js gateway calls for signed-in customers, a
worker in the same code base, an administration application, PostgreSQL between
them, and a contract on Stellar. There is no queue: jobs and messages are rows
that the worker leases. Every handler may run several times at once and every
process may stop between two statements, so the only order is what transactions,
row locks, unique indexes and conditional updates impose.

| Component | State it keeps | Operations | Talks to |
| --- | --- | --- | --- |
| Stellar payment settlement (Platform `stellar_payment_handlers.go`) | `stellar_payment_intent`, `transfer`, ledger, receipt, notices | prepare, submit, get (poll), expire, fail, confirm | network by RPC; worker through `outbox_job` |
| Worker (Platform `worker.go`) | leases in `outbox_job` and both e-mail outboxes, heartbeat | recover stale locks, enqueue missing jobs, claim, process, complete, reschedule, dead-letter, deliver | network, e-mail provider |
| Operations console (admin `operations.ts`) | job status, reconciliation exceptions | retry a dead letter, resolve an exception | worker, through rows |
| E-mail outboxes (`worker.go`, SQL 004, 005, 015) | `notification.outbox`, `support.notification_outbox` | enqueue, suppress, claim, send, record | e-mail provider |
| Sandbox wallet and transfers (Platform `service.go`, `compliance.go`) | wallet, quotes, transfers, ledger postings, AML alerts | create quote, create transfer with the compliance gate | family distributions share wallet and transfers |
| Family distributions (Platform `family_distribution*.go`) | plans, executions | create a plan, execute it | sandbox wallet |
| Recipient claims (Platform `recipient_claims.go`) | `recipient_claim_intent` | create, redeem | transfers |
| Ganap funding checkout (Platform `ganap_checkout.go`) | `funding_checkout`, `webhook_inbox` | create, receive a webhook | Ganap |
| Milestone escrow (`contracts/milestone-escrow`) | escrows, milestones, one token balance | create, release, refund | token contracts |
| KYC desk and evidence (admin `kyc.ts`, `kyc-evidence.ts`) | evidence sessions, cases, verification level | create and finalize a session, ingest, review | private bucket |
| Claimable balances (Platform `stellar_claimable_balances.go`) | `stellar_claimable_balance_intent`, its transfer | prepare, submit, get, expire | worker, network |
| Wallet links (Platform `stellar_wallets.go`) | challenges, links | challenge, verify, unlink | payments and claimable balances check them |
| Support desk (admin `support.ts`) | tickets, messages, notices | create, reply, update | support outbox |
| Status monitor (admin `status-monitor.ts`, `status-store.ts`) | components, incidents | probe, open, resolve, edit | public status page |
| Content (admin `content-store.ts`, desk `cms-editor.tsx`) | documents, drafts and published | open, edit, upload, save, publish | marketing site |
| Customer pages (page `send-flow`, `family-distribution-manager`, `verification-flow`, `stellar-*`) | a form, the phase of a request, what was answered | the buttons, and answers that come late or never | the services above, by the gateway |
| Experience layer (page `customer-experience-layer.tsx`, its store) | onboarding, read and dismissed notices | finish, read, dismiss | none |
| Profile, settings, terms (Platform `account_preferences.go`) | preferences, acceptances | update, accept | e-mail outbox reads one preference |

What is hard in it, and what correctness means there:

* **Settlement.** The network answers late, twice or not at all; polls and
  workers race to end a payment; a crash may fall between the RPC answer and
  the row that records it. Intent, transfer, ledger and notice must agree, a
  confirmation must be true and final, and every submitted payment must end or
  reach an operator.
* **Leases.** A worker that is only slow loses its lease and goes on working
  beside its successor. No effect may happen twice and no stale worker may
  settle the successor's row.
* **Messages.** A provider that took a message may not be heard. Nothing may be
  sent against the member's wish, a row must not say sent when nothing was, and
  every row must settle.
* **Wallets.** Requests race on a quote, a key, the balance and the velocity
  thresholds at READ COMMITTED. The balance must always be explained by the
  ledger and the transfers, and no interleaving may pass a threshold.
* **Claims.** A creation and a redemption see each other only through locks and
  two partial indexes. A transfer must be redeemed once, with one key.
* **Checkouts.** The webhook may be faster than the answer to the request that
  caused it, and is repeated. The provider must be asked once, and an outcome
  must be reported, announced once and final.
* **Escrows.** All escrows of a token share the contract's balance. What is owed
  must be there, whatever the order of releases, refunds and deadlines.
* **The KYC desk.** Reviews write what they read before their transaction; two
  finalizations inspect the same objects. A session must lead to one case, a
  status must have a trail, and only an approval may verify a member.
* **Pages.** A page sees a call end in an answer, an error or silence, while the
  service may have done what it was asked in all three cases. What a page says
  must be true, and pressing a button again must not do a thing twice.
* **Links.** A challenge can be replaced, expire or be posted twice. A link must
  rest on a fresh proof of its own customer.
* **Support, status, content.** Operators overwrite each other, replies race
  for a limit, monitor runs overlap and die half way, saves overtake each other.
  Limits and closed tickets must hold, a component must have one account of its
  health, and the public feed must follow it.

## 2. Modules

A step of a model is one transaction, one statement where the code uses no
transaction, or one call to an external service, so actors interleave wherever
the code lets them. What a conditional update did not match is left unchanged.
Definitions called `Faulty...` are deviations used to see a property fail; no
specification refers to them.

**OutboxJob** holds the statements on one row of `platform.outbox_job` as
operators from the row to the row it leaves: `Claimed`, `Recovered`,
`Completed`, `Rescheduled`, `DeadLettered`, `Requeued`. `locked_at` is
abstracted to `aged`, older than the lock timeout.

**StellarSettlement** extends it. `intent`, `transfer`, `ledger`, `notice`,
`recon` and `exception` are the rows of a payment, `job` its outbox job, `chain`
what the network made of its transaction, `lapsed` whether it can still be
submitted. `request` and `worker` hold where each handler and each worker is and
what it carries from one statement to the next.

| Code | Actions |
| --- | --- |
| `prepareStellarPayment` | `Prepare` |
| `submitStellarPayment` | `SubmitRead`, `SubmitSend`, `SubmitRecord` / `SubmitReject` |
| `getStellarPayment` | `GetRead`, `GetLookup`, `GetConfirm` / `GetFail` |
| `expireStellarPayment` | `ExpireIntent`, `ExpireTransfer` (two statements, no transaction) |
| `confirm...Context`, `fail...Context` | `ConfirmStellarPayment`, `FailStellarPayment`, used by handlers and worker |
| `RunOnce` | `Sweep`, `Claim` / `ClaimNothing`, then `Process`: `Load`, `Lookup`, `Confirm` / `Fail`, `Complete` / `Reschedule` / `DeadLetter` |
| restart, failed statement, slow worker | `RequestAborts`, `Abandon`, `AgeLock`, `AgeLockOfSlowWorker` |
| `retryOperationsJob`, `resolveReconciliationException` | `RetryOperationsJob`, `ResolveException` |
| network (external) | `Include`, `Drop`, `Lapse`, and the answers `Lookup` and `SubmitSend` may get |

**SettlementPromise** is the abstract specification: a payment is settled by the
network; after that, once, and in one step, it is posted and announced.
StellarSettlement implements it under the mapping `settled` <- payments included
successfully, `posted` <- the ledger, `announced` <- payments with a confirmation
notice.

**SandboxTransfers** models `createQuote`, `createTransfer` and
`assessTransferCompliance` with their locks: the look-up of the idempotency key
takes none (`Begin`), the quote's row is locked (`LockQuote`), the gate runs
under the account's advisory lock (`Gate`), and from the debit on the wallet's
row orders everything (`Settle`). **FamilyDistribution** extends it: executions
debit the same wallet and insert into the same transfers, with keys a direct
transfer may use too. Shares are rounded down with the rest for the last
recipient, fees per recipient to the nearest unit.

**RecipientClaims** models `createRecipientClaim` statement by statement (lock
the transfer, expire, look for a redeemed claim, look for an active one, insert)
and `redeemRecipientClaim`, whose transaction locks the claim, as one step per
outcome. `now()` is the instant the transaction began.

**EmailOutbox** models both outboxes and a worker cycle: recover, suppress,
one notification, one support message. It has the member's preference, the
provider's lost answers, crashes and leases that run out under a slow worker.

**GanapCheckout** models the request (`InsertCheckout`, `AskProvider`,
`RecordAnswer` / `RecordFailure`, `RequestDies`) and `ReceiveGanapWebhook`
against a provider that reports before it answers, repeats itself, and may
report another amount.

**MilestoneEscrow** models `create`, `release` and `refund` of the contract, one
step per invocation, with transfers by other accounts around them.
**EscrowCustody** is its abstract specification: value kept for an escrow leaves
it only with as many tokens and never out of another escrow.

**KycCases** models evidence sessions against a bucket whose objects change, and
the desk: a finalization inspects objects before it locks the session, and a
review carries the row it read into the transaction that writes it back.
**KycDesk** extends it with the page of each reviewer, where the selected and
the shown case are two pieces of state; **VerificationFlow** extends it with the
customer's page: five steps with a camera, a submission of several requests, and
a gateway that gives up while the finalization goes on.

**SupportTickets** models a ticket with its thread and its notices: replies that
take the advisory lock and count, operators who write what they read, and
migration 015, after which a notice cannot be inserted. **StatusIncidents**
models overlapping invocations of `runStatusChecks`, one transaction per
component, the incidents they open and close, administrators whose forms write
old states back, and the feed, read in two queries. **ContentEditor** models
editors who type, upload and save while earlier saves are on their way.

**ClaimableBalances** is the settlement protocol of a claimable balance, several
balances and submissions at a time; **SigningPage** extends it with the page
that prepares, signs, submits and polls, and gives up on any of them.
**WalletLinks** models challenges, verification and unlinking of one account
that two customers claim, with their pages. **SendFlow** and **FamilyManager**
are the pages over SandboxTransfers and FamilyDistribution.
**CustomerExperience** is the layer over every page, in two tabs.

| Code of the applications | Actions |
| --- | --- |
| `SendFlow.createQuote`, `.transfer` | `AskQuote`, `QuoteAnswers` / `QuoteFails`; `ConfirmTransfer`, then the service's own steps (`Served`), `TransferUnanswered` |
| `FamilyDistributionManager.createPlan`, `.executePlan` | `PressSave`, `SaveAnswers` / `SaveFails`; `PressExecute`, `ExecutionServed`, `ExecutionUnanswered` |
| `VerificationFlow.submitVerification` | `SubmitVerification`, `IntentsAnswered`, `PutEvidence`, `AskFinalize`, `AwaitedStep`; `IntentsFail`, `PutFails`, `GatewayTimeout` |
| `StellarTestnetPayment`, `StellarClaimableBalanceFlow` | `StartPrepare`, `PrepareAnswers`, `WalletSigns`, `SubmissionServed`, `SubmissionEnds`, `Poll`; `PrepareFails`, `WalletRefuses`, `PollFails`, `SubmissionUnanswered` |
| `StellarWalletLinker.linkWallet`, `.unlinkWallet` | `ConnectWallet`, `CreateChallenge`, `SignChallenge`, `VerifyAnswered`; `AskUnlink`, `UnlinkAnswered`; each with its failures |
| `KycDesk.open`, `.apply` | `OpenCase`, `Loaded` / `LoadFails`; `Apply` (from `ChangeControl` or `Submit`), `Applied` |
| `runStatusChecks`, `persistResult` | `RunBegin`; `PersistRead`, `PersistWrite` for each component; `RunAborts` |
| `addCustomerReply`, `updateTicket`, `addAdminReply` | `ReplyBegin`, `ReplyCount`, `ReplyInsert` / `ReplyFails`; `UpdateRead` or `AnswerRead`, then `EditWrite` / `EditFails` |

**Compositions.** A page and its service run together and interleave: the
service's steps answer the page, and go on when the page no longer waits.
**MoneyPages**, **AccountPages**, **AdminDesks** and **StellarWallets** put under
one specification the scenes of an application which share no row that changes:
the initial state chooses the scene, and a behaviour stays in it, so that one
run checks each of them exhaustively. Where parts do share rows (transfers and
family executions, pages and services, payments and jobs) they are one scene.

The `MC...` modules give the instances their values and the symmetry sets. The
`...Proofs` modules hold the theorems of section 5, and **SumLemmas** what they
need about sums.

## 3. Runs

| Run (configuration) | Instance | What it shows |
| --- | --- | --- |
| `settlement_safety` (SettlementSafety) | 1 payment, 2 requests, 2 workers, 2 attempts, 1 crash or lost lease, 1 operator retry, lookups that fail | The rows of a payment agree and report what settled, a confirmation is final, SettlementPromise is implemented |
| `settlement_faults` (SettlementFaults) | 1 payment, 1 request, 2 workers, all five faults the worker retries on, fairness | Every submitted payment ends or reaches the operators, whichever fault and crash delays it |
| `email_outbox` (EmailOutbox) | a product notice, a support row, 2 workers, 2 faults, 2 preference changes, fairness | Consent kept, deliveries explained, outcomes final, every row settles |
| `ganap_checkout` (GanapCheckout) | 2 keys, 2 requests, 1 reference number | Asked once, the outcome reported and final, no event wasted |
| `money_pages` (MoneyPages) | clients: 2 quotes, 2 keys, 3 requests, 3 instants; the send page over the same; claims: 1 transfer, 3 claims, 2 keys, 2 creations | The wallet is explained, quotes and claims are used once, no interleaving passes the velocity thresholds, the page's answers are true |
| `account_pages` (AccountPages) | clients and page: 1 plan out of 2 allocations, 2 executions, 2 keys, 1 direct transfer with a colliding key; verification: 1 session, 2 cases, 2 finalizations, 3 uploads; 2 tabs, 2 notices | Executions are whole, results are true, one case per session and it stays, received means filed, nothing hidden comes back |
| `admin_desks` (AdminDesks) | KYC: 2 reviewers, 2 reviews; support: 2 visitors, 1 operator, 3 instants, before and after the migration; status: 2 components, 2 invocations, 2 outages, 1 abort, 1 edit, fairness; content: 2 editors, one of whom uploads, 1 edit, 3 saves | A trail behind every status, notices and limits, one account of each component and a feed that follows it, saved means stored |
| `stellar_wallets` (StellarWallets) | escrow: 2 escrows, 3 accounts, 6 milestone lists, before and after the deadline; balances: 2 intents, 2 keys, 2 submissions, 2 polls; links: 2 customers, 3 challenges, 2 presses | The escrow's books balance and EscrowCustody is implemented, a balance is confirmed only on chain and stays so, a form is paid once, a link needs a fresh proof |
| `settled_failed`, `accepted_unrecorded`, `critical_decided`, `family_retry` | the smallest instance that shows it | TLC finds the stated promise violated: section 6 |

### Bounds, and why they are enough

* One payment: the rows of different payments meet only in the worker's choice
  of a job, and the proofs of section 5 cover any number. Two requests and two
  workers are what it takes for every race in the code, which is between two
  actors on one row; a third adds no lock and no guard.
* `MaxAttempts = 2` reaches the retry below the limit, the dead letter at it,
  and the operator's retry from zero. `MaxFaults` counts crashes, lost leases
  and lost answers: one suffices for two workers to hold the same job, two for
  a message to be sent twice and given up.
* Three requests in `money_pages` are needed because the gate lets
  `MaxCount - 1 = 1` transfer through: one that is through, one that waits with
  an old snapshot, one that overtakes it. The windows are scaled to three
  instants, the amounts so that both thresholds and the balance can be hit.
* The shares of `account_pages` are rounded in every allocation; one of them
  leaves a recipient nothing at the smaller amount. The second case is there so
  that a second finalization could open one.
* `MaxInt = 4` in `stellar_wallets` stands for the largest i128: one of the
  lists overflows it, others are empty, too long, or have a zero amount. Three
  challenges are an old one, the one that replaced it, and one of the other
  customer; two keys are the form's and the one after a reset.
* In `admin_desks`, two replies are allowed in a window of two of three
  instants and three messages fit, so a third reply would show; counters are
  compared with 2 and 3, and a component can fail and recover within the bounds
  because probes are not bounded.
* `Uploader`, `MaxReviews`, `MaxUploads`, `MaxChanges`, `MaxEdits`, `MaxWrites`, `MaxSaves`,
  `MaxPolls` and `MaxOperatorRetries` only bound how often a person acts. Two
  reviews are what it takes for one to be stale.

`CHECK_DEADLOCK FALSE` is set where the system may rest: an instance whose
notices are sent (EmailOutbox), whose keys are used and requests idle
(GanapCheckout), or whose scene has used up its bounds and awaits nothing (the
four compositions). Elsewhere deadlock is checked.

### Fairness

Liveness is stated for the worker and the status monitor, under what their code
does by itself. The worker: `Run` polls for ever and a cycle that fails is followed by another (weak
fairness of the steps of a cycle); locks age and `available_at` comes, because
time passes (weak fairness of `AgeLock` and `FallDue`); and a due job is not
passed over for ever, because backoff is capped and claims are taken in order of
`available_at` (strong fairness of `Claim`). Crashes and slow workers are
bounded, not fair. The monitor (`FairStatus`): cron invokes it every minute (weak
fairness of some `RunBegin`), a run that was begun goes on unless it aborts (weak
fairness of its steps; aborts are bounded), and the feed is read for as long as
somebody looks. Nothing is assumed of customers, the API, operators, the
network or the e-mail provider. The run `accepted_unrecorded` adds fairness of
`SubmitRecord`, so that its counterexample is a crash and not a handler that
merely stops.

## 4. What the properties say

Every property is stated in its module with the code it is about. The ones a
reader should start with:

* `ConfirmationAgrees`, `ConfirmsWhatSettled`, `ConfirmedIsFinal`, `KeepsPromise`
  (StellarSettlement): the books, the customer and the network cannot disagree
  about a confirmation.
* `TransferFollowsIntent`, `EventuallyReconciled`: the transfer never contradicts
  its intent, and nobody's payment is forgotten once it was recorded as
  submitted.
* `DeliveriesExplained`, `OutcomeIsFinal` (EmailOutbox): a row that says sent was
  accepted, and every message beyond the first has a fault behind it, although
  a worker that lost its lease goes on.
* `VelocityHeld`, `WalletExplained`, `ExecutionWhole`: concurrency does not
  create money, and the compliance gate cannot be raced.
* `SingleUse`; `AskedOnce`, `NoEventWasted`; `OneCasePerSession`,
  `FinalizedStands`, `TrailExplains`; `BooksBalance`, `KeepsCustody`.
* `AnswersAreTrue`, `ResultsAreTrue`, `ReceivedIsFiled`, `FormPaidOnce`,
  `HiddenIsStored`, `SavedIsStored`: what a page tells its user is so in the
  store, for ever where the service's rows stay, although answers are lost,
  late, or belong to an earlier click.
* `LinkNeedsFreshProof`, `ConfirmedOnChain`, `ClaimableStands`: a link and a
  confirmed balance have a proof behind them and survive what comes late.
* `RepliesWithinLimit`, `ClosedIsQuiet`, `NoticesMatch`, `OneAccountEach`,
  `FeedFollowsHealth`: the desks. `OneAccountEach` compares the counters, which
  are derived from a row read before the probes, with the checks recorded since.

Where a document promises more than holds, the property states what holds and
says so: `TransferFollowsIntent` allows the transfer of an expired intent to be
prepared, submitted or failed, because expiry is two statements;
`DeliveriesExplained` allows one more message per fault, although
`docs/NOTIFICATIONS_AND_COMPLIANCE.md:18` speaks of no duplicates, because a
provider cannot be asked what it did with an answer that was lost;
`SavedIsStored` speaks of the editor who waits for a save before typing on.

Every property has a mutant in `PROJECT.json`: a plausible slip in one mapped
definition under which TLC finds the property violated in the same run.

## 5. Proofs

Every safety invariant and every action property that a passing run checks is
also a theorem, for any number of payments, requests, workers, quotes, keys,
cases, tickets, components, editors and so on, and for any bounds, amounts and
limits the assumptions allow. The proofs of the module X, or of the
modules that X composes, are in XProofs. Each follows the same plan: an inductive
invariant, checked by TLC on the instance of section 3 before it was proved; a
lemma that it holds initially; lemmas that say what a statement or a handler
does to the row it works on; one step of the proof for each action; and the
property from the invariant, or for an action property from the invariant and
the step. Where an invariant of one scene says nothing of the others, a lemma
says that their steps leave its variables alone.

**StellarSettlementProofs.** It rests on `WorkerAssumption` (`NoWorker` is no
worker) and the other assumptions named in OutboxJob and StellarSettlement.

* `TypeCorrect`: every reachable state is well-typed. One lemma per group of
  actions (network, API, worker, operator), over lemmas about the statements of
  OutboxJob and the moves of a request and a worker.
* `ConfirmationsAgree`, `ConfirmersSawSuccess`: neither is inductive alone. A
  handler confirms on an answer it got earlier, so agreement needs
  `ConfirmsWhatSettled`: whoever is about to confirm holds an answer that is
  still true. That one needs that a transaction which succeeded stays so
  (`SettledForEver`), whoever moves in between. The invariant is
  `IInv == TypeOK /\ ConfirmsWhatSettled /\ ConfirmationAgrees`.
* The lemma `Steps` reduces every step of every actor to three kinds: it leaves
  books and settlement alone (`Neutral`), it settles on the network, or it is
  `ConfirmStellarPayment`. Agreement, finality and refinement are then proved of
  three cases instead of thirty.
* `ConfirmationIsFinal`: `Spec => ConfirmedIsFinal`.
* `TransfersFollowIntents`: what a request read before it expires or records is
  stale when it writes. `ExpiringInv` says what is left of it: the payment
  exists, and when an expiry comes to the transfer, the intent has left
  `prepared` for good (`Later`). `FollowInv` adds which statuses of intent and
  transfer may stand together.
* `ImplementsPromise`: `Spec => Promise!Spec`. Initial states map to initial
  states; inclusion maps to `Settle`, the first confirmation to `Book`,
  everything else to a stutter.

**GanapCheckoutProofs**, from `GanapAssumption` (`NoKey` is no key,
`NoReference` no reference).

* `ProviderAskedOnce`: `AskedOnce` needs that a key without a row was never
  asked for and nobody works on it (`Untouched`), and that whoever is about to
  ask is alone on a key nobody has asked for (`OneAsker`).
* `OutcomesAreReported`, `OutcomesAnnounced`: these three invariants are
  inductive together with the types: an event in the inbox means an ended
  checkout, which an answer finds overtaken and an event without effect.
* `OutcomesAreFinal`: `Spec => OutcomeStands`.

**EmailOutboxProofs.** `DeliveriesAreExplained` counts chances. A notice may be
handed over once for a row that can still be claimed (it waits, its lock ran
out, or whoever locked it lost it), and once for each worker that holds it and
was not told of a delivery; `ChancesInv` says that these and the messages
accepted so far are at most one more than the faults. A fault adds a chance, a
claim turns one into a sender, an answer turns a sender into a message.
`ConsentIsRespected` needs that without a change of the preference nobody ever
claimed the row; `OutcomesAreFinal` needs only who may hold a lock.

**MoneyPagesProofs.**

* `WalletIsExplained`, `QuotesUsedOnce`, `VelocityIsHeld`: the row lock of a
  quote and the advisory lock of the account each have one holder (`LocksInv`),
  a consumed quote has one transfer (`QuotesInv`). `VelocityHeld` is about
  windows that end in the past while a request decides on the present one:
  `GateInv` says that a request which passed the gate is still below the
  thresholds when it settles, because nobody else settles under the advisory
  lock, and `SafeInv` follows since a new transfer lies only in windows that end
  with it or later.
* `SendAnswersAreTrue`: `PageInv` says that a key of the page is used by one
  request, and that the call which is awaited is the one confirmed last, so an
  answer to it cannot be that of another.
* `ClaimsAreSingleUse`, `ClaimOutcomesAreFinal`: `CreationInv` says that one
  creation holds a transfer, and that it expired only active claims of it.

**StellarWalletsProofs.**

* `BalancesConfirmedOnChain`, `ConfirmedBalanceStands`: as in the settlement,
  from what the worker looked up and has not recorded yet (`LookupsHold`).
* `FormsPaidOnce`: an idempotency key has one intent, and every intent of a form
  was prepared under the key the page drew for it (`SigningInv`).
* `LinksNeedFreshProof`: each step that links an account is a verification which
  consumes an open challenge of that customer.
* `EscrowBooksBalance`, `ContractKeepsCustody`: the accounts of an escrow are
  sums over its milestones, from which a release takes one (`EscrowInv`). Every
  call maps to a step of EscrowCustody or to a stutter.

**AdminDesksProofs.**

* `TrailIsExplained`: an open case has a trail that begins with its submission
  and ends where the case is; only open cases are reviewed, so a review that
  writes what it read still adds its entry.
* `PageTellsStored`: an editor who waits for her save has at most one save under
  way, and it carries what her page shows (`ContentInv`).
* `NoticesFollowAnswers`, `RepliesAreLimited`, `ClosedStaysQuiet`: a reply that
  is about to insert holds its ticket alone, has found it open, and still has
  room in every window that contains the instant it began (`SupportInv`).
* `MonitorKeepsOneAccount`: the counters of a component are the length of the
  last run of equal results, capped at three; one invocation works at a time;
  the row it read is still the stored one for every component it has yet to
  write; and if it found no incident for a component, none that is untouched by
  an administrator has appeared when it opens one (`StatusInv`).

**AccountPagesProofs.**

* `LayerHidesWhatIsStored`: what a visit shows as finished or dismissed is
  stored, and no call takes that back.
* `SessionsHaveOneCase`, `FinalizationsStand`, `ReceivedHasCase`: a session is
  finalized exactly if one open case belongs to it (`Owned`), and the
  finalization the page waits for works on the page's session (`FlowInv`).
* `ExecutionsAreWhole`: an execution and its transfers are written in one
  transaction, which fails if a direct transfer has taken one of their keys, and
  afterwards nothing rewrites a transfer, a plan or an execution, so what was
  whole stays whole (`FamilyInv`). That the legs add up although each share is rounded is the
  lemma `LegsAddUp`: the last recipient gets the rest, which is not negative.
* `FamilyResultsAreTrue`: the key of a press is used by one execution, a key
  whose press has ended is begun by nobody again, and what the page shows of a
  plan is what the record of that key says (`PagesInv`).

**SumLemmas** is what the proofs about money rest on. The models sum over sets
with the folds of the community modules, which take the members in the order
CHOOSE picks them. That the order does not matter, and that a sum grows by
what a new member has, is an induction over finite sets; it is done as a search
for a least counterexample (`LeastSet`), from the fact that strict inclusion of
finite sets is well-founded. Sums over sequences are sums over their indices.

### Assumptions on the constants

They are named in the module that declares the constant and TLC evaluates them in
the runs. Most say that a stand-in for NULL (`NoWorker`, `NoKey`, `NoQuote`) is
no value of its kind, or that a bound is a number. Those that say more:

* `FamilyAssumption`: an allocation is a sequence of recipients and shares, no
  recipient twice in one plan (the primary key of the allocations,
  `apps/admin/sql/020_family_distribution.sql:25`); the key of a leg is the
  execution's key with the recipient's id (`family_distribution_execution.go:209`),
  so the legs of one execution have different keys.
* `ManagerAssumption`: among the share sheets a member may fill in, those that
  add up are the allocations the service accepts, because page and service
  compare the sum with the same total.
* `SupportAssumption`: at least one reply is allowed in a window, as the first message of
  a ticket counts as one.
* `FlowAssumption`: evidence is a document or a selfie, or both.

### What is only model-checked

The three liveness properties, `EventuallyReconciled`, `OutboxSettles` and
`FeedFollowsHealth`: the prover has no rule for fairness and ENABLED. The four
runs that find a promise violated are counterexamples and have nothing to prove.
The type invariants of the modules are parts of the inductive invariants; no run
repeats them but that of the settlement.

## 6. Where the code and its documents disagree

Shown by a run:

* **A settled payment is reported as failed** (`settled_failed`). The answer to
  a submission is lost, the transaction is included, and the customer retries
  with the same signed transaction as `docs/ARCHITECTURE.md:199` says. RPC
  answers ERROR because the sequence number is used, and `submitStellarPayment`
  fails the payment as `rpc_rejected` and matched on that answer alone.
* **A submission is never reconciled** (`accepted_unrecorded`). It is recorded
  in a transaction that begins after RPC has accepted it, under the request's
  context. If the API restarts or the client disconnects in between, the intent
  stays prepared, and `enqueueMissingReconciliation` only sees submitted ones.
  `services/platform/README.md:243` promises recovery from the submitted intent.
* **A family is paid twice** (`family_retry`). The page draws a new idempotency
  key for every press (`family-distribution-manager.tsx:88`), so pressing again
  after an error or a lost answer is a second execution.
  `docs/DELIVERY_PLAN.md:165` says that a retry never duplicates a leg.
* **An officer decides a critical case** (`critical_decided`). `reviewKycCase`
  checks the risk it read before its transaction. A case that an administrator
  raised in between is decided all the same, and its old risk is written back.
  `docs/NOTIFICATIONS_AND_COMPLIANCE.md:42` requires an administrator.

Seen in the code while modelling, and followed by the models as the code has it:

* Attempts are counted when a job is claimed and compared with the limit only by
  a worker that lives to reschedule it (`worker.go:378`), so a job that kills its
  worker is retried without end; `docs/ARCHITECTURE.md:195` speaks of bounded
  attempts.
* An exception that was resolved is not opened again when the retried job dies
  with the same code (`worker.go:406`, `on conflict do nothing`);
  `services/platform/README.md:249` says an exhausted job creates an
  operator-visible row.
* Family executions do not pass the compliance gate
  (`family_distribution_execution.go:182`); `docs/DEPLOYMENT.md:93` says that
  every money-moving command evaluates sanctions status, velocity and limits.
* An execution key used again with the same amount is answered with the first
  execution even when it names another plan
  (`family_distribution_execution.go:107`).
* A transfer whose fee rounds to nothing always fails, because a posting of zero
  breaks a constraint (`service.go:496`); family executions skip it.
* `support.ts:105` inserts a notice without the key that migration 015 makes
  mandatory, so creating a ticket or answering one publicly rolls back once the
  migration has run. SupportTickets refuses both after `Migrate`.
* `updateTicket` writes back the status and priority it read before its
  transaction (`support.ts:163`), over whatever changed meanwhile, and an answer
  may go to a ticket that was closed since it was read.
* The pages of the KYC and support desks send a request for the case that is
  selected while another may still be shown (`kyc-desk.tsx:86`).
* The form of an incident keeps the state it had when it was first shown
  (`status-console.tsx:29`): sent later, it reopens what was resolved.
* A claimable balance that expires between the acceptance by RPC and its record
  stays expired although the network settles it
  (`stellar_claimable_balances.go:332`); its exceptions are joined away by the
  console (`operations.ts:84`), so nobody can resolve them.
* The editor's answer to a save reports what was sent, whatever was typed since
  (`cms-editor.tsx:226`).
* `reviewKycCase` takes a connection before it checks the request and releases
  it only inside the `try`, so every refused review keeps one (`kyc.ts:364`).

## 7. What is not modelled

* Within modelled components: the contents of signed transactions, addresses,
  digests and templates; the match of names against a watchlist (an input of
  the gate); assignments and scores at the KYC desk; the limit of five evidence
  sessions; the limit on new tickets per address; worker heartbeats and metrics,
  which only report; TTL extension and archival of contract entries, which delay
  a call; texts, updates and latencies of incidents.
* The unlinking of a wallet while a payment or a balance of it is being
  prepared: WalletLinks and the settlement are separate, as the check of the
  link is one read in the preparing handler that later steps do not repeat.
* External systems are modelled by the answers the code must expect: the
  network, Ganap, the e-mail provider, the bucket, wallets, token contracts.
* Sign-in (Better Auth), HTTP filters, receipts and connector listings, media
  uploads, the remaining pages and forms, marketing pages, seeds and deployment:
  no state the modelled handlers share, or pure reading and rendering.

## 8. Plan

Done: the settlement with its refinement and liveness; the outboxes; wallets,
claims and family distributions; checkouts; escrow and its refinement; the KYC
cases; claimable balances, wallet links, support, status and content; the pages
over them, composed with their services; the proofs of every safety invariant
and action property of the runs, and of both refinements. Left, in this order:

1. Abstract specifications of what customers are promised by more parts: a
   wallet that is debited once per confirmed instruction, over SandboxTransfers
   and FamilyDistribution, and a notice that is delivered or given up, over
   EmailOutbox; each with a proof on top of the invariants of section 5.
2. The liveness properties rest on TLC alone. Their safety parts (no step leads
   away from the goal, and some step towards it is possible until then) can be
   stated without ENABLED and proved.
3. SigningPage over StellarSettlement too, and WalletLinks with the preparation
   of payments.
