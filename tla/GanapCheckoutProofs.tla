------------------------- MODULE GanapCheckoutProofs -------------------------
(* Type correctness of GanapCheckout, that the provider is asked once for a *)
(* key, and that an outcome is true, announced once and final, for any      *)
(* keys, requests and reference numbers.                                    *)
EXTENDS GanapCheckout, TLAPS

(* AskedOnce is not inductive: whoever is about to ask must be the only one *)
(* at work on a key nobody has asked for.                                   *)
Untouched ==
  \A k \in Key : checkout[k].status = "none" =>
    opened[k] = 0 /\ \A r \in Request : request[r].key # k
OneAsker ==
  /\ \A r, q \in Request :
       request[r].pc # "idle" /\ request[r].key = request[q].key => r = q
  /\ \A r \in Request : request[r].pc = "ask" => opened[request[r].key] = 0
AskInv == TypeOKGanap /\ Untouched /\ OneAsker /\ AskedOnce

OutcomeInv ==
  TypeOKGanap /\ OutcomeIsReported /\ OutcomeAnnouncedOnce /\ NoEventWasted

-----------------------------------------------------------------------------
(* A request that is not idle works on a key. *)
LEMMA Working ==
  ASSUME TypeOKGanap, NEW r \in Request, request[r].pc # "idle"
  PROVE  request[r].key \in Key
BY DEF TypeOKGanap

(* What a step writes into one row leaves well-formed rows. *)
LEMMA RowWritten ==
  ASSUME TypeOKGanap, NEW k \in Key, NEW c \in Checkout,
         checkout' = [checkout EXCEPT ![k] = c]
  PROVE  /\ checkout' \in [Key -> Checkout]
         /\ \A m \in Key : checkout'[m] = IF m = k THEN c ELSE checkout[m]
BY DEF TypeOKGanap

(* ... and of a request likewise. *)
LEMMA RequestWritten ==
  ASSUME TypeOKGanap, NEW r \in Request,
         NEW s \in [pc : {"idle", "ask", "record"}, key : Key \cup {NoKey},
                    answered : BOOLEAN],
         s.key = NoKey <=> s.pc = "idle",
         request' = [request EXCEPT ![r] = s]
  PROVE  /\ request' \in [Request -> [pc : {"idle", "ask", "record"},
                              key : Key \cup {NoKey}, answered : BOOLEAN]]
         /\ \A q \in Request : request'[q].key = NoKey <=> request'[q].pc = "idle"
         /\ \A q \in Request : request'[q] = IF q = r THEN s ELSE request[q]
BY DEF TypeOKGanap

(* What each handler does to the row and the request it works on, and that *)
(* it leaves every row, request and event well-formed.                      *)
Others(k) == \A m \in Key : m # k => checkout'[m] = checkout[m]
OtherRequests(r) == \A q \in Request : q # r => request'[q] = request[q]

LEMMA InsertEffect ==
  ASSUME TypeOKGanap, NEW r \in Request, NEW k \in Key, InsertCheckout(r, k)
  PROVE  /\ TypeOKGanap' /\ Others(k) /\ OtherRequests(r)
         /\ checkout[k].status = "none" /\ checkout'[k].status = "created"
         /\ checkout'[k].activity = checkout[k].activity
         /\ request'[r].pc = "ask" /\ request'[r].key = k
<1> DEFINE c == [checkout[k] EXCEPT !.status = "created"]
           s == [pc |-> "ask", key |-> k, answered |-> FALSE]
<1>1. /\ c \in Checkout
      /\ c.status = "created" /\ c.activity = checkout[k].activity
  BY DEF TypeOKGanap, Checkout, CheckoutStatus
<1>2. /\ s \in [pc : {"idle", "ask", "record"}, key : Key \cup {NoKey},
                answered : BOOLEAN]
      /\ s.key = NoKey <=> s.pc = "idle"
  BY GanapAssumption
<1>3. checkout' = [checkout EXCEPT ![k] = c] /\ request' = [request EXCEPT ![r] = s]
  BY DEF InsertCheckout
<1>4. /\ s.pc = "ask" /\ s.key = k
      /\ checkout[k].status = "none"
      /\ UNCHANGED <<inbox, opened, reported>>
  BY DEF InsertCheckout, MayInsert
<1> HIDE DEF c, s
<1>5. /\ checkout' \in [Key -> Checkout]
      /\ \A m \in Key : checkout'[m] = IF m = k THEN c ELSE checkout[m]
  BY <1>1, <1>3, RowWritten
<1>6. /\ request' \in [Request -> [pc : {"idle", "ask", "record"},
                              key : Key \cup {NoKey}, answered : BOOLEAN]]
      /\ \A q \in Request : request'[q].key = NoKey <=> request'[q].pc = "idle"
      /\ \A q \in Request : request'[q] = IF q = r THEN s ELSE request[q]
  BY <1>2, <1>3, RequestWritten
<1>7. TypeOKGanap'
  BY <1>4, <1>5, <1>6 DEF TypeOKGanap
<1> QED  BY <1>1, <1>4, <1>5, <1>6, <1>7 DEF Others, OtherRequests

LEMMA AskEffect ==
  ASSUME TypeOKGanap, NEW r \in Request, AskProvider(r)
  PROVE  /\ TypeOKGanap' /\ OtherRequests(r)
         /\ request[r].pc = "ask" /\ request'[r].pc = "record"
         /\ request[r].key \in Key /\ request'[r].key = request[r].key
         /\ \A k \in Key : k # request[r].key => opened'[k] = opened[k]
         /\ opened'[request[r].key] <= opened[request[r].key] + 1
         /\ UNCHANGED <<checkout, inbox, reported>>
<1>1. PICK open \in BOOLEAN, answered \in BOOLEAN :
        /\ opened' = [opened EXCEPT ![request[r].key] =
                        opened[request[r].key] + IF open THEN 1 ELSE 0]
        /\ request' = [request EXCEPT ![r].pc = "record", ![r].answered = answered]
  BY DEF AskProvider
<1>2. request[r].pc = "ask" /\ request[r].key \in Key
      /\ UNCHANGED <<checkout, inbox, reported>>
  BY Working DEF AskProvider
<1> DEFINE s == [request[r] EXCEPT !.pc = "record", !.answered = answered]
<1>3. /\ s \in [pc : {"idle", "ask", "record"}, key : Key \cup {NoKey},
                answered : BOOLEAN]
      /\ s.pc = "record" /\ s.key = request[r].key
  BY DEF TypeOKGanap
<1>4. request' = [request EXCEPT ![r] = s]
  BY <1>1 DEF TypeOKGanap
<1> HIDE DEF s
<1>5. s.key = NoKey <=> s.pc = "idle"
  BY <1>2, <1>3, GanapAssumption
<1>6. /\ request' \in [Request -> [pc : {"idle", "ask", "record"},
                              key : Key \cup {NoKey}, answered : BOOLEAN]]
      /\ \A q \in Request : request'[q].key = NoKey <=> request'[q].pc = "idle"
      /\ \A q \in Request : request'[q] = IF q = r THEN s ELSE request[q]
  BY <1>3, <1>4, <1>5, RequestWritten
<1>7. /\ opened' \in [Key -> Nat]
      /\ \A k \in Key : k # request[r].key => opened'[k] = opened[k]
      /\ opened'[request[r].key] <= opened[request[r].key] + 1
  BY <1>1, <1>2 DEF TypeOKGanap
<1>8. TypeOKGanap'
  BY <1>2, <1>6, <1>7 DEF TypeOKGanap
<1> QED  BY <1>2, <1>3, <1>6, <1>7, <1>8 DEF OtherRequests

(* Every end of a request leaves it idle. *)
LEMMA IdleEffect ==
  ASSUME TypeOKGanap, NEW r \in Request, request' = [request EXCEPT ![r] = Idle]
  PROVE  /\ request' \in [Request -> [pc : {"idle", "ask", "record"},
                              key : Key \cup {NoKey}, answered : BOOLEAN]]
         /\ \A q \in Request : request'[q].key = NoKey <=> request'[q].pc = "idle"
         /\ OtherRequests(r)
         /\ request'[r].pc = "idle" /\ request'[r].key = NoKey
<1>1. /\ Idle \in [pc : {"idle", "ask", "record"}, key : Key \cup {NoKey},
                   answered : BOOLEAN]
      /\ Idle.key = NoKey /\ Idle.pc = "idle"
  BY DEF Idle
<1> QED  BY <1>1, RequestWritten DEF OtherRequests

(* The answer and the failure change a row only while it is open, and never *)
(* to an outcome.                                                           *)
LEMMA RecordEffect ==
  ASSUME TypeOKGanap, NEW r \in Request, RecordAnswer(r) \/ RecordFailure(r)
  PROVE  /\ TypeOKGanap' /\ OtherRequests(r)
         /\ request'[r].pc = "idle" /\ request'[r].key = NoKey
         /\ request[r].key \in Key /\ Others(request[r].key)
         /\ \/ checkout'[request[r].key] = checkout[request[r].key]
            \/ /\ checkout[request[r].key].status \in {"created", "provider_error"}
               /\ checkout'[request[r].key].status \in {"pending", "provider_error"}
               /\ checkout'[request[r].key].activity =
                    checkout[request[r].key].activity
         /\ UNCHANGED <<inbox, opened, reported>>
<1> DEFINE k == request[r].key
           old == checkout[k]
<1>1. /\ request[r].pc = "record" /\ k \in Key /\ old \in Checkout
      /\ request' = [request EXCEPT ![r] = Idle]
      /\ UNCHANGED <<inbox, opened, reported>>
  BY Working DEF RecordAnswer, RecordFailure, TypeOKGanap
<1>2. PICK c \in Checkout :
        /\ checkout' = [checkout EXCEPT ![k] = c]
        /\ \/ c = old
           \/ /\ old.status \in {"created", "provider_error"}
              /\ c.status \in {"pending", "provider_error"}
              /\ c.activity = old.activity
  <2>1. CASE RecordAnswer(r)
    <3> DEFINE c == [old EXCEPT !.status = "pending", !.url = TRUE]
    <3>1. c \in Checkout /\ c.status = "pending" /\ c.activity = old.activity
      BY <1>1 DEF Checkout, CheckoutStatus
    <3>2. checkout' = [checkout EXCEPT ![k] = IF Overtaken(old) THEN old ELSE c]
      BY <2>1 DEF RecordAnswer
    <3>3. Overtaken(old) \/ old.status \in {"created", "provider_error"}
      BY DEF Overtaken
    <3> HIDE DEF c, k
    <3> QED  BY <1>1, <3>1, <3>2, <3>3
  <2>2. CASE RecordFailure(r)
    <3> DEFINE c == [old EXCEPT !.status = "provider_error"]
    <3>1. c \in Checkout /\ c.status = "provider_error" /\ c.activity = old.activity
      BY <1>1 DEF Checkout, CheckoutStatus
    <3>2. CASE old.status = "created"
      <4>1. checkout' = [checkout EXCEPT ![k] = c]
        BY <1>1, <2>2, <3>2 DEF RecordFailure
      <4> HIDE DEF c, k
      <4> QED  BY <3>1, <3>2, <4>1
    <3>3. CASE old.status # "created"
      <4>1. checkout' = [checkout EXCEPT ![k].status = old.status]
        BY <2>2, <3>3 DEF RecordFailure
      <4>2. [old EXCEPT !.status = old.status] = old
        BY <1>1 DEF Checkout
      <4>3. checkout' = [checkout EXCEPT ![k] = old]
        BY <4>1, <4>2
      <4> QED  BY <1>1, <4>3
    <3> QED  BY <3>2, <3>3
  <2> QED  BY <2>1, <2>2
<1>3. /\ checkout' \in [Key -> Checkout]
      /\ \A m \in Key : checkout'[m] = IF m = k THEN c ELSE checkout[m]
  BY <1>1, <1>2, RowWritten
<1>4. /\ request' \in [Request -> [pc : {"idle", "ask", "record"},
                              key : Key \cup {NoKey}, answered : BOOLEAN]]
      /\ \A q \in Request : request'[q].key = NoKey <=> request'[q].pc = "idle"
      /\ OtherRequests(r)
      /\ request'[r].pc = "idle" /\ request'[r].key = NoKey
  BY <1>1, IdleEffect
<1>5. TypeOKGanap'
  BY <1>1, <1>3, <1>4 DEF TypeOKGanap
<1>6. checkout'[k] = c
  BY <1>1, <1>3
<1> QED  BY <1>1, <1>2, <1>3, <1>4, <1>5, <1>6 DEF Others

LEMMA DiesEffect ==
  ASSUME TypeOKGanap, NEW r \in Request, RequestDies(r)
  PROVE  /\ TypeOKGanap' /\ OtherRequests(r)
         /\ request'[r].pc = "idle" /\ request'[r].key = NoKey
         /\ UNCHANGED <<checkout, inbox, opened, reported>>
BY IdleEffect DEF RequestDies, TypeOKGanap

LEMMA ReportEffect ==
  ASSUME TypeOKGanap, NEW e \in Event, ProviderReports(e)
  PROVE  /\ TypeOKGanap' /\ reported \subseteq reported'
         /\ UNCHANGED <<checkout, inbox, request, opened>>
BY DEF ProviderReports, TypeOKGanap

(* A webhook ends the checkout it is about, or finds it ended. *)
LEMMA WebhookEffect ==
  ASSUME TypeOKGanap, NEW e \in Event, ReceiveGanapWebhook(e)
  PROVE  /\ TypeOKGanap' /\ e.id.key \in Key /\ Others(e.id.key)
         /\ e \in reported /\ e.asked /\ inbox' = inbox \cup {e.id}
         /\ \/ /\ checkout[e.id.key].status \in Outcome
               /\ UNCHANGED checkout[e.id.key]
            \/ /\ checkout[e.id.key].status \notin Outcome
               /\ checkout'[e.id.key].status = e.id.status
               /\ e.id.status \in Outcome
               /\ checkout'[e.id.key].activity = checkout[e.id.key].activity + 1
         /\ UNCHANGED <<request, opened, reported>>
<1> DEFINE k == e.id.key
           old == checkout[k]
           ref == IF e.id.reference = NoReference THEN old.reference
                                                  ELSE e.id.reference
           c == Ended(old, e)
<1>1. /\ e.id \in EventId /\ k \in Key /\ e.id.status \in Outcome
      /\ e.id.reference \in Reference \cup {NoReference}
  BY DEF Event, EventId
<1>2. old \in Checkout
  BY <1>1 DEF TypeOKGanap
<1>3. c \in Checkout /\ c.status = e.id.status /\ c.activity = old.activity + 1
  <2>1. ref \in Reference \cup {NoReference}
    BY <1>1, <1>2 DEF Checkout
  <2>2. old.activity + 1 \in Nat /\ e.id.status \in CheckoutStatus
    BY <1>1, <1>2 DEF Checkout, Outcome, CheckoutStatus
  <2>3. c = [old EXCEPT !.status = e.id.status, !.activity = old.activity + 1,
                        !.reference = ref]
    BY DEF Ended
  <2> HIDE DEF ref, k, c, old
  <2> QED  BY <1>2, <2>1, <2>2, <2>3 DEF Checkout
<1>4. checkout' = [checkout EXCEPT ![k] = IF TakesEffect(old) THEN c ELSE old]
  BY DEF ReceiveGanapWebhook
<1>5. /\ TakesEffect(old) <=> old.status \notin Outcome
      /\ e \in reported /\ e.asked /\ inbox' = inbox \cup {e.id}
      /\ UNCHANGED <<request, opened, reported>>
  BY DEF TakesEffect, Matches, ReceiveGanapWebhook
<1> HIDE DEF c, k
<1>6. /\ checkout' \in [Key -> Checkout]
      /\ \A m \in Key : checkout'[m] =
            IF m = k THEN IF TakesEffect(old) THEN c ELSE old ELSE checkout[m]
  BY <1>1, <1>2, <1>3, <1>4, RowWritten
<1>7. TypeOKGanap'
  BY <1>1, <1>5, <1>6 DEF TypeOKGanap
<1>8. Others(k) /\ checkout'[k] = IF TakesEffect(old) THEN c ELSE old
  BY <1>1, <1>6 DEF Others
<1> QED  BY <1>1, <1>3, <1>5, <1>7, <1>8 DEF k
-----------------------------------------------------------------------------
LEMMA InitInvs == Init => AskInv /\ OutcomeInv
<1> SUFFICES ASSUME Init PROVE AskInv /\ OutcomeInv
  OBVIOUS
<1>1. TypeOKGanap
  BY GanapAssumption DEF Init, Idle, TypeOKGanap, Checkout, CheckoutStatus
<1>2. Untouched /\ OneAsker /\ AskedOnce
  BY GanapAssumption DEF Init, Idle, Untouched, OneAsker, AskedOnce
<1>3. OutcomeIsReported /\ OutcomeAnnouncedOnce /\ NoEventWasted
  BY DEF Init, OutcomeIsReported, OutcomeAnnouncedOnce, NoEventWasted, Outcome
<1> QED  BY <1>1, <1>2, <1>3 DEF AskInv, OutcomeInv

LEMMA AskStep == AskInv /\ [Next]_vars => AskInv'
<1> SUFFICES ASSUME AskInv, [Next]_vars PROVE AskInv'
  OBVIOUS
<1> USE DEF AskInv
<1>1. ASSUME NEW r \in Request, NEW k \in Key, InsertCheckout(r, k) PROVE AskInv'
  <2>1. /\ TypeOKGanap' /\ Others(k) /\ OtherRequests(r)
        /\ checkout[k].status = "none" /\ checkout'[k].status = "created"
        /\ request'[r].pc = "ask" /\ request'[r].key = k
    BY <1>1, InsertEffect
  <2>2. opened' = opened
    BY <1>1 DEF InsertCheckout
  <2>3. opened[k] = 0 /\ \A q \in Request : request[q].key # k
    BY <2>1 DEF Untouched
  <2>4. Untouched'
    BY <2>1, <2>2, <2>3 DEF Untouched, Others, OtherRequests
  <2>5. OneAsker'
    BY <2>1, <2>2, <2>3 DEF OneAsker, OtherRequests
  <2> QED  BY <2>1, <2>2, <2>4, <2>5 DEF AskedOnce
<1>2. ASSUME NEW r \in Request, AskProvider(r) PROVE AskInv'
  <2> DEFINE k == request[r].key
  <2>1. /\ TypeOKGanap' /\ OtherRequests(r)
        /\ request[r].pc = "ask" /\ request'[r].pc = "record"
        /\ k \in Key /\ request'[r].key = k
        /\ \A m \in Key : m # k => opened'[m] = opened[m]
        /\ opened'[k] <= opened[k] + 1
        /\ checkout' = checkout
    BY <1>2, AskEffect
  <2>2. opened[k] = 0 /\ checkout[k].status # "none"
    BY <2>1 DEF OneAsker, Untouched
  <2>3. \A q \in Request : request[q].pc # "idle" /\ q # r => request[q].key # k
    BY <2>1 DEF OneAsker
  <2> HIDE DEF k
  <2>4. \A q \in Request : request'[q].key = request[q].key
    BY <2>1 DEF k, OtherRequests
  <2>5. Untouched'
    BY <2>1, <2>2, <2>4 DEF Untouched
  <2>6. \A q, s \in Request :
          request'[q].pc # "idle" /\ request'[q].key = request'[s].key => q = s
    BY <2>1, <2>4 DEF OneAsker, OtherRequests
  <2>7. ASSUME NEW q \in Request, request'[q].pc = "ask"
        PROVE  opened'[request'[q].key] = 0
    <3>1. q # r /\ request[q].pc = "ask"
      BY <2>1, <2>7 DEF OtherRequests
    <3>2. request[q].key # k /\ request[q].key \in Key /\ opened[request[q].key] = 0
      BY <2>3, <3>1, Working DEF OneAsker
    <3> QED  BY <2>1, <2>4, <3>2
  <2>8. AskedOnce'
    <3> SUFFICES ASSUME NEW m \in Key PROVE opened'[m] <= 1
      BY DEF AskedOnce
    <3>1. opened[m] <= 1
      BY DEF AskedOnce
    <3> QED  BY <2>1, <2>2, <3>1 
  <2> QED  BY <2>1, <2>5, <2>6, <2>7, <2>8 DEF OneAsker
<1>3. ASSUME NEW r \in Request, RecordAnswer(r) \/ RecordFailure(r) PROVE AskInv'
  <2> DEFINE k == request[r].key
  <2>1. /\ TypeOKGanap' /\ OtherRequests(r) /\ opened' = opened
        /\ request'[r].pc = "idle" /\ request'[r].key = NoKey
        /\ k \in Key /\ Others(k)
        /\ \/ checkout'[k] = checkout[k]
           \/ checkout'[k].status \in {"pending", "provider_error"}
    BY <1>3, RecordEffect
  <2> HIDE DEF k
  <2>2. Untouched'
    BY <2>1, GanapAssumption DEF Untouched, Others, OtherRequests
  <2>3. OneAsker'
    BY <2>1 DEF OneAsker, OtherRequests, TypeOKGanap
  <2> QED  BY <2>1, <2>2, <2>3 DEF AskedOnce
<1>4. ASSUME NEW r \in Request, RequestDies(r) PROVE AskInv'
  <2>1. /\ TypeOKGanap' /\ OtherRequests(r)
        /\ request'[r].pc = "idle" /\ request'[r].key = NoKey
        /\ checkout' = checkout /\ opened' = opened
    BY <1>4, DiesEffect
  <2>2. Untouched'
    BY <2>1, GanapAssumption DEF Untouched, OtherRequests
  <2>3. OneAsker'
    BY <2>1 DEF OneAsker, OtherRequests, TypeOKGanap
  <2> QED  BY <2>1, <2>2, <2>3 DEF AskedOnce
<1>5. ASSUME NEW e \in Event, ProviderReports(e) PROVE AskInv'
  BY <1>5, ReportEffect DEF Untouched, OneAsker, AskedOnce
<1>6. ASSUME NEW e \in Event, ReceiveGanapWebhook(e) PROVE AskInv'
  <2>1. /\ TypeOKGanap' /\ e.id.key \in Key /\ Others(e.id.key)
        /\ checkout'[e.id.key].status \in Outcome
        /\ request' = request /\ opened' = opened
    BY <1>6, WebhookEffect
  <2>2. Untouched'
    BY <2>1 DEF Untouched, Others, Outcome
  <2> QED  BY <2>1, <2>2 DEF OneAsker, AskedOnce
<1>7. CASE UNCHANGED vars
  BY <1>7 DEF vars, TypeOKGanap, Untouched, OneAsker, AskedOnce
<1> QED  BY <1>1, <1>2, <1>3, <1>4, <1>5, <1>6, <1>7 DEF Next

LEMMA OutcomeStep == OutcomeInv /\ [Next]_vars => OutcomeInv'
<1> SUFFICES ASSUME OutcomeInv, [Next]_vars PROVE OutcomeInv'
  OBVIOUS
<1> USE DEF OutcomeInv
<1>1. ASSUME NEW r \in Request, NEW k \in Key, InsertCheckout(r, k) PROVE OutcomeInv'
  <2>1. /\ TypeOKGanap' /\ Others(k)
        /\ checkout[k].status = "none" /\ checkout'[k].status = "created"
        /\ checkout'[k].activity = checkout[k].activity
        /\ inbox' = inbox /\ reported' = reported
    BY <1>1, InsertEffect DEF InsertCheckout
  <2> QED
    BY <2>1 DEF OutcomeIsReported, OutcomeAnnouncedOnce, NoEventWasted, Others, Outcome
<1>2. ASSUME NEW r \in Request, AskProvider(r) PROVE OutcomeInv'
  <2>1. TypeOKGanap' /\ UNCHANGED <<checkout, inbox, reported>>
    BY <1>2, AskEffect
  <2> QED  BY <2>1 DEF OutcomeIsReported, OutcomeAnnouncedOnce, NoEventWasted
<1>3. ASSUME NEW r \in Request, RecordAnswer(r) \/ RecordFailure(r) PROVE OutcomeInv'
  <2> DEFINE k == request[r].key
  <2>1. /\ TypeOKGanap' /\ k \in Key /\ Others(k)
        /\ \/ checkout'[k] = checkout[k]
           \/ /\ checkout[k].status \in {"created", "provider_error"}
              /\ checkout'[k].status \in {"pending", "provider_error"}
              /\ checkout'[k].activity = checkout[k].activity
        /\ inbox' = inbox /\ reported' = reported
    BY <1>3, RecordEffect
  <2> HIDE DEF k
  <2> QED
    BY <2>1 DEF OutcomeIsReported, OutcomeAnnouncedOnce, NoEventWasted, Others, Outcome
<1>4. ASSUME NEW r \in Request, RequestDies(r) PROVE OutcomeInv'
  <2>1. TypeOKGanap' /\ UNCHANGED <<checkout, inbox, reported>>
    BY <1>4, DiesEffect
  <2> QED  BY <2>1 DEF OutcomeIsReported, OutcomeAnnouncedOnce, NoEventWasted
<1>5. ASSUME NEW e \in Event, ProviderReports(e) PROVE OutcomeInv'
  <2>1. TypeOKGanap' /\ reported \subseteq reported' /\ UNCHANGED <<checkout, inbox>>
    BY <1>5, ReportEffect
  <2> QED  BY <2>1 DEF OutcomeIsReported, OutcomeAnnouncedOnce, NoEventWasted
<1>6. ASSUME NEW e \in Event, ReceiveGanapWebhook(e) PROVE OutcomeInv'
  <2> DEFINE k == e.id.key
  <2>1. /\ TypeOKGanap' /\ k \in Key /\ Others(k)
        /\ e \in reported /\ e.asked /\ inbox' = inbox \cup {e.id}
        /\ \/ checkout[k].status \in Outcome /\ checkout'[k] = checkout[k]
           \/ /\ checkout[k].status \notin Outcome
              /\ checkout'[k].status = e.id.status /\ e.id.status \in Outcome
              /\ checkout'[k].activity = checkout[k].activity + 1
        /\ reported' = reported
    BY <1>6, WebhookEffect
  <2>2. OutcomeIsReported'
    BY <2>1 DEF OutcomeIsReported, Others
  <2>3. OutcomeAnnouncedOnce'
    BY <2>1 DEF OutcomeAnnouncedOnce, Others
  <2>4. NoEventWasted'
    BY <2>1 DEF NoEventWasted, Others
  <2> QED  BY <2>1, <2>2, <2>3, <2>4
<1>7. CASE UNCHANGED vars
  BY <1>7 DEF vars, TypeOKGanap, OutcomeIsReported, OutcomeAnnouncedOnce, NoEventWasted
<1> QED  BY <1>1, <1>2, <1>3, <1>4, <1>5, <1>6, <1>7 DEF Next

(* An outcome survives every step: an answer finds it overtaken, and an     *)
(* event finds that it has no effect.                                       *)
LEMMA OutcomeKept ==
  ASSUME TypeOKGanap, [Next]_vars, NEW m \in Key, checkout[m].status \in Outcome
  PROVE  checkout'[m].status = checkout[m].status
<1>1. ASSUME NEW r \in Request, NEW k \in Key, InsertCheckout(r, k)
      PROVE  checkout'[m].status = checkout[m].status
  BY <1>1, InsertEffect DEF Others, Outcome
<1>2. ASSUME NEW r \in Request, AskProvider(r) \/ RequestDies(r)
      PROVE  checkout' = checkout
  BY <1>2 DEF AskProvider, RequestDies
<1>3. ASSUME NEW r \in Request, RecordAnswer(r) \/ RecordFailure(r)
      PROVE  checkout'[m].status = checkout[m].status
  BY <1>3, RecordEffect DEF Others, Outcome
<1>4. ASSUME NEW e \in Event, ProviderReports(e) PROVE checkout' = checkout
  BY <1>4 DEF ProviderReports
<1>5. ASSUME NEW e \in Event, ReceiveGanapWebhook(e)
      PROVE  checkout'[m].status = checkout[m].status
  BY <1>5, WebhookEffect DEF Others
<1>6. CASE UNCHANGED vars
  BY <1>6 DEF vars
<1> QED  BY <1>1, <1>2, <1>3, <1>4, <1>5, <1>6 DEF Next

-----------------------------------------------------------------------------
(* The provider is asked at most once for a key, whatever requests, deaths  *)
(* and repetitions there are, and every reachable state is well-formed      *)
(* (createFundingCheckout).                                                 *)
THEOREM ProviderAskedOnce == Spec => [](TypeOKGanap /\ AskedOnce)
<1>1. AskInv => TypeOKGanap /\ AskedOnce
  BY DEF AskInv
<1> QED  BY <1>1, InitInvs, AskStep, PTL DEF Spec

(* A checkout only ends as the provider reported it for the amount asked.   *)
THEOREM OutcomesAreReported == Spec => []OutcomeIsReported
<1>1. OutcomeInv => OutcomeIsReported
  BY DEF OutcomeInv
<1> QED  BY <1>1, InitInvs, OutcomeStep, PTL DEF Spec

(* The end of a checkout is announced once, and no event that was kept and  *)
(* will not be delivered again was left without effect                      *)
(* (receiveGanapWebhook).                                                   *)
THEOREM OutcomesAnnounced == Spec => [](OutcomeAnnouncedOnce /\ NoEventWasted)
<1>1. OutcomeInv => OutcomeAnnouncedOnce /\ NoEventWasted
  BY DEF OutcomeInv
<1> QED  BY <1>1, InitInvs, OutcomeStep, PTL DEF Spec

(* No late answer, repeated event or later event changes an outcome.        *)
THEOREM OutcomesAreFinal == Spec => OutcomeStands
<1>1. AskInv /\ [Next]_vars =>
        [\A k \in Key : checkout[k].status \in Outcome =>
           checkout'[k].status = checkout[k].status]_vars
  BY OutcomeKept DEF AskInv
<1> QED  BY <1>1, InitInvs, AskStep, PTL DEF Spec, OutcomeStands
=============================================================================
