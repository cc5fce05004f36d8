---------------------------- MODULE GanapCheckout ----------------------------
(***************************************************************************)
(* Funding checkouts collected through Ganap: createFundingCheckout asks   *)
(* the provider for a checkout between two statements of its own, and      *)
(* receiveGanapWebhook records what the provider reports, which may arrive *)
(* before the answer, twice, or out of order.                              *)
(* A checkout is named by the idempotency key of the account that made it. *)
(***************************************************************************)
EXTENDS Naturals

CONSTANTS
  Key,        \* idempotency keys of one account
  Request,    \* POST /v1/funding-checkouts in progress
  Reference,  \* reference numbers of the provider
  NoKey, NoReference

ASSUME GanapAssumption ==
  /\ NoKey \notin Key
  /\ NoReference \notin Reference

CheckoutStatus == {"none", "created", "pending", "success", "failed", "provider_error"}
Outcome == {"success", "failed"}

(* The identity of an event is derived: key, status and reference number. A *)
(* success carries a reference; the amount may not be the one asked for.    *)
EventId == [key : Key, status : Outcome, reference : Reference \cup {NoReference}]
Event == [id : EventId, asked : BOOLEAN]

VARIABLES
  checkout,   \* platform.funding_checkout and its activity events
  inbox,      \* identities in platform.webhook_inbox
  request,    \* where each request is, and the provider's answer to it
  opened,     \* checkouts the provider opened for each key
  reported    \* events the provider has reported, to be delivered at least once

vars == <<checkout, inbox, request, opened, reported>>

Checkout == [status : CheckoutStatus, url : BOOLEAN,
             reference : Reference \cup {NoReference}, activity : Nat]
Idle == [pc |-> "idle", key |-> NoKey, answered |-> FALSE]

Init ==
  /\ checkout = [k \in Key |-> [status |-> "none", url |-> FALSE,
                                reference |-> NoReference, activity |-> 0]]
  /\ inbox = {}
  /\ request = [r \in Request |-> Idle]
  /\ opened = [k \in Key |-> 0]
  /\ reported = {}
-----------------------------------------------------------------------------
FaultyMayInsert(k) == checkout[k].status \in {"none", "created", "provider_error"}

(* insert ... on conflict(account_id,idempotency_key) do nothing: a repeated *)
(* key is answered from the row and goes no further.                         *)
MayInsert(k) == checkout[k].status = "none"
InsertCheckout(r, k) ==
  /\ request[r].pc = "idle"
  /\ MayInsert(k)
  /\ checkout' = [checkout EXCEPT ![k].status = "created"]
  /\ request' = [request EXCEPT ![r] = [pc |-> "ask", key |-> k, answered |-> FALSE]]
  /\ UNCHANGED <<inbox, opened, reported>>

(* CreateCheckout: the provider opens the checkout or not, and whatever it  *)
(* did its answer may be lost, late or unreadable.                          *)
AskProvider(r) ==
  /\ request[r].pc = "ask"
  /\ \E open, answered \in BOOLEAN :
       /\ answered => open
       /\ opened' = [opened EXCEPT ![request[r].key] = @ + IF open THEN 1 ELSE 0]
       /\ request' = [request EXCEPT ![r].pc = "record", ![r].answered = answered]
  /\ UNCHANGED <<checkout, inbox, reported>>

FaultyOvertaken(c) == FALSE

(* Only the status tells that a webhook was faster than the answer. *)
Overtaken(c) == c.status \notin {"created", "provider_error"}

RecordAnswer(r) ==
  LET k == request[r].key IN
  /\ request[r].pc = "record" /\ request[r].answered
  /\ checkout' = [checkout EXCEPT ![k] =
       IF Overtaken(@) THEN @ ELSE [@ EXCEPT !.status = "pending", !.url = TRUE]]
  /\ request' = [request EXCEPT ![r] = Idle]
  /\ UNCHANGED <<inbox, opened, reported>>

RecordFailure(r) ==
  LET k == request[r].key IN
  /\ request[r].pc = "record" /\ ~request[r].answered
  /\ checkout' = [checkout EXCEPT ![k].status =
       IF @ = "created" THEN "provider_error" ELSE @]
  /\ request' = [request EXCEPT ![r] = Idle]
  /\ UNCHANGED <<inbox, opened, reported>>

(* The API restarts or the client goes away, and with it the context of the *)
(* call and of the statements.                                              *)
RequestDies(r) ==
  /\ request[r].pc # "idle"
  /\ request' = [request EXCEPT ![r] = Idle]
  /\ UNCHANGED <<checkout, inbox, opened, reported>>
-----------------------------------------------------------------------------
(* External: the provider reports an attempt that failed, a collection, or  *)
(* an amount that is not the one of the checkout.  It collects once.        *)
ProviderReports(e) ==
  /\ opened[e.id.key] > 0
  /\ e.id.status = "success" =>
       /\ e.id.reference \in Reference
       /\ \A f \in reported : f.id.key = e.id.key => f.id.status # "success"
  /\ reported' = reported \cup {e}
  /\ UNCHANGED <<checkout, inbox, request, opened>>

FaultyMatches(e) == TRUE
FaultyTakesEffectWhenPending(c) == c.status = "pending"

(* equalDecimal: any other amount is answered 409. *)
Matches(e) == e.asked
TakesEffect(c) == c.status \notin Outcome

(* The row as the event leaves it, with the activity event it announces. *)
Ended(c, e) ==
  [c EXCEPT !.status = e.id.status, !.activity = c.activity + 1,
            !.reference = IF e.id.reference = NoReference
                            THEN c.reference ELSE e.id.reference]

(* receiveGanapWebhook: one transaction under the lock of the row.  A known *)
(* identity is a duplicate; a settled checkout only keeps the event.        *)
ReceiveGanapWebhook(e) ==
  LET k == e.id.key IN
  /\ e \in reported /\ Matches(e) /\ e.id \notin inbox
  /\ inbox' = inbox \cup {e.id}
  /\ checkout' = [checkout EXCEPT ![k] =
       IF TakesEffect(@) THEN Ended(@, e) ELSE @]
  /\ UNCHANGED <<request, opened, reported>>
-----------------------------------------------------------------------------
Next ==
  \/ \E r \in Request :
       \/ \E k \in Key : InsertCheckout(r, k)
       \/ AskProvider(r) \/ RecordAnswer(r) \/ RecordFailure(r) \/ RequestDies(r)
  \/ \E e \in Event : ProviderReports(e) \/ ReceiveGanapWebhook(e)

Spec == Init /\ [][Next]_vars
-----------------------------------------------------------------------------
(* Rows, events and requests are well-formed. *)
TypeOKGanap ==
  /\ checkout \in [Key -> Checkout]
  /\ inbox \subseteq EventId
  /\ request \in [Request -> [pc : {"idle", "ask", "record"},
                              key : Key \cup {NoKey}, answered : BOOLEAN]]
  /\ \A r \in Request : request[r].key = NoKey <=> request[r].pc = "idle"
  /\ opened \in [Key -> Nat]
  /\ reported \subseteq Event

(* However often a key is sent, and whatever happened to earlier requests,  *)
(* the provider is asked to collect at most once for it.                    *)
AskedOnce == \A k \in Key : opened[k] <= 1

(* A checkout ends as the provider reported it, for the amount that was     *)
(* asked; the answer to the request alone never ends it.                    *)
OutcomeIsReported ==
  \A k \in Key : checkout[k].status \in Outcome =>
    \E e \in reported : e.asked /\ e.id.key = k /\ e.id.status = checkout[k].status

(* The customer sees one activity event per checkout that ended, although   *)
(* events are repeated and the provider may report twice.                   *)
OutcomeAnnouncedOnce ==
  \A k \in Key :
    checkout[k].activity = IF checkout[k].status \in Outcome THEN 1 ELSE 0

(* An event in the inbox is never delivered again, so its checkout must     *)
(* have ended, even when it came before the provider's answer.              *)
NoEventWasted ==
  \A k \in Key : (\E i \in inbox : i.key = k) => checkout[k].status \in Outcome

(* Neither a late answer of the provider nor a later event changes an       *)
(* outcome.                                                                 *)
OutcomeStands ==
  [][\A k \in Key : checkout[k].status \in Outcome =>
       checkout'[k].status = checkout[k].status]_vars
=============================================================================
