-------------------------- MODULE EmailOutboxProofs --------------------------
(* Proofs about EmailOutbox, for any number of notices and workers.  What   *)
(* has to be found is how many more times the provider may be handed a      *)
(* notice: once for a row that can still be claimed, and once for each      *)
(* worker that holds it and was not told that it was delivered.             *)
EXTENDS EmailOutbox, Integers, FiniteSetTheorems, TLAPS

OutboxRow == [status : {"none", "pending", "processing", "sent", "failed", "suppressed"},
              attempts : Nat, lockedBy : Worker \cup {NoWorker},
              due : BOOLEAN, aged : BOOLEAN]
Busy == {"send", "record"}
Hand == [stage : Busy \cup {"recover", "suppress", "notification", "support"},
         notice : Notice \cup {NoNotice}, attempts : Nat, delivered : BOOLEAN]

OutboxTypes ==
  /\ row \in [Notice -> OutboxRow] /\ worker \in [Worker -> Hand]
  /\ productEmail \in [Product -> BOOLEAN] /\ changes \in [Product -> Nat]
  /\ accepted \in [Notice -> Nat] /\ faults \in [Notice -> Nat]

(* Only a row in processing is locked or ages, and only a busy worker holds *)
(* one.                                                                     *)
LocksInv ==
  /\ \A n \in Notice : row[n].lockedBy # NoWorker \/ row[n].aged => row[n].status = "processing"
  /\ \A w \in Worker : worker[w].notice \in Notice <=> worker[w].stage \in Busy

(* Without a change of the preference nobody ever claimed the mail. *)
ConsentInv ==
  \A n \in Product : changes[n] = 0 =>
    /\ ~productEmail[n] /\ accepted[n] = 0
    /\ row[n].status \in {"none", "pending", "suppressed"}
    /\ \A w \in Worker : worker[w].notice # n

(* Who reports a delivery was told of one. *)
SentInv ==
  /\ \A n \in Notice : row[n].status = "sent" => accepted[n] > 0
  /\ \A w \in Worker : worker[w].stage = "record" /\ worker[w].delivered =>
       accepted[worker[w].notice] > 0

(* Workers that hold n and may have it sent, or sent again. *)
Open(h, n) == h.notice = n /\ (h.stage = "send" \/ (h.stage = "record" /\ ~h.delivered))
Senders(hands, n) == {w \in Worker : Open(hands[w], n)}
(* A row that may be claimed once more: it waits, or its lock ran out, or   *)
(* the worker that locked it lost it.                                       *)
Held(r, hands, n) == \E w \in Worker : hands[w].notice = n /\ r.lockedBy = w
Loose(r, hands, n) ==
  \/ r.status \in {"none", "pending"}
  \/ (r.status = "processing" /\ (r.aged \/ ~Held(r, hands, n)))
Chance(r, hands, n) == IF Loose(r, hands, n) THEN 1 ELSE 0

ChancesInv ==
  \A n \in Notice :
    /\ IsFiniteSet(Senders(worker, n))
    /\ accepted[n] + Cardinality(Senders(worker, n)) + Chance(row[n], worker, n)
         <= 1 + faults[n]

OutboxInv == OutboxTypes /\ LocksInv /\ ConsentInv /\ SentInv /\ ChancesInv

-----------------------------------------------------------------------------
(* Whose hands are meant in both tables. *)
LEMMA HandsAgree ==
  ASSUME NEW one, NEW other, NEW n,
         \A w \in Worker : one[w].notice = n <=> other[w].notice = n,
         \A w \in Worker : Open(one[w], n) <=> Open(other[w], n)
  PROVE  /\ Senders(one, n) = Senders(other, n)
         /\ \A r : Held(r, one, n) <=> Held(r, other, n)
         /\ \A r : Loose(r, one, n) <=> Loose(r, other, n)
         /\ \A r : Chance(r, one, n) = Chance(r, other, n)
<1>1. Senders(one, n) = Senders(other, n)
  BY DEF Senders
<1>2. \A r : Held(r, one, n) <=> Held(r, other, n)
  BY DEF Held
<1>3. \A r : Loose(r, one, n) <=> Loose(r, other, n)
  BY <1>2 DEF Loose
<1> QED
  BY <1>1, <1>2, <1>3 DEF Chance

(* A move of one worker leaves the notices alone that it does not name. *)
LEMMA OthersAgree ==
  ASSUME NEW hands, NEW w \in Worker, NEW after, NEW n,
         \A v \in Worker : v # w => after[v] = hands[v],
         hands[w].notice # n, after[w].notice # n
  PROVE  /\ Senders(after, n) = Senders(hands, n)
         /\ \A r : Loose(r, after, n) <=> Loose(r, hands, n)
         /\ \A r : Chance(r, after, n) = Chance(r, hands, n)
<1>1. \A v \in Worker : after[v].notice = n <=> hands[v].notice = n
  OBVIOUS
<1>2. \A v \in Worker : Open(after[v], n) <=> Open(hands[v], n)
  BY DEF Open
<1>3. Senders(after, n) = Senders(hands, n)
  BY <1>2 DEF Senders
<1>4. \A r : Loose(r, after, n) <=> Loose(r, hands, n)
  BY <1>1 DEF Loose, Held
<1> QED
  BY <1>3, <1>4 DEF Chance

LEMMA OneSenderMore ==
  ASSUME NEW hands, NEW w \in Worker, NEW after, NEW n,
         \A v \in Worker : v # w => after[v] = hands[v],
         ~Open(hands[w], n), Open(after[w], n), IsFiniteSet(Senders(hands, n))
  PROVE  /\ IsFiniteSet(Senders(after, n))
         /\ Cardinality(Senders(after, n)) = Cardinality(Senders(hands, n)) + 1
<1>1. Senders(after, n) = Senders(hands, n) \cup {w} /\ w \notin Senders(hands, n)
  BY DEF Senders
<1>2. /\ IsFiniteSet(Senders(hands, n) \cup {w})
      /\ Cardinality(Senders(hands, n) \cup {w}) = Cardinality(Senders(hands, n)) + 1
  BY <1>1, FS_AddElement
<1> QED
  BY <1>1, <1>2, Zenon

LEMMA OneSenderLess ==
  ASSUME NEW hands, NEW w \in Worker, NEW after, NEW n,
         \A v \in Worker : v # w => after[v] = hands[v],
         Open(hands[w], n), ~Open(after[w], n), IsFiniteSet(Senders(hands, n))
  PROVE  /\ IsFiniteSet(Senders(after, n))
         /\ Cardinality(Senders(after, n)) = Cardinality(Senders(hands, n)) - 1
<1>1. Senders(after, n) = Senders(hands, n) \ {w} /\ w \in Senders(hands, n)
  BY DEF Senders
<1>2. /\ IsFiniteSet(Senders(hands, n) \ {w})
      /\ Cardinality(Senders(hands, n) \ {w}) = Cardinality(Senders(hands, n)) - 1
  BY <1>1, FS_RemoveElement
<1> QED
  BY <1>1, <1>2, Zenon

LEMMA SendersSame ==
  ASSUME NEW hands, NEW w \in Worker, NEW after, NEW n,
         \A v \in Worker : v # w => after[v] = hands[v],
         Open(hands[w], n) <=> Open(after[w], n)
  PROVE  Senders(after, n) = Senders(hands, n)
BY DEF Senders

LEMMA ChanceType ==
  ASSUME NEW r, NEW hands, NEW n
  PROVE  /\ Chance(r, hands, n) \in {0, 1}
         /\ Chance(r, hands, n) = 1 <=> Loose(r, hands, n)
BY DEF Chance

LEMMA OutboxStarts == Init => OutboxInv
<1> SUFFICES ASSUME Init PROVE OutboxInv
  OBVIOUS
<1> USE OutboxAssumption
<1>1. OutboxTypes
  BY DEF Init, OutboxTypes, OutboxRow, Hand, Busy, AtStage
<1>2. \A w \in Worker : worker[w].notice = NoNotice /\ worker[w].stage = "recover"
  BY DEF Init, AtStage
<1>3. \A n \in Notice : /\ row[n].status = "none" /\ row[n].lockedBy = NoWorker /\ ~row[n].aged
                        /\ accepted[n] = 0 /\ faults[n] = 0
  BY DEF Init
<1>n. NoNotice \notin Notice /\ Product \subseteq Notice
  BY DEF Notice
<1>4. LocksInv
  BY <1>2, <1>3, <1>n DEF LocksInv, Busy
<1>5. ConsentInv
  BY <1>2, <1>3, <1>n DEF ConsentInv, Init
<1>6. SentInv
  BY <1>2, <1>3 DEF SentInv
<1>7. ASSUME NEW n \in Notice PROVE Senders(worker, n) = {}
  BY <1>2, <1>n DEF Senders, Open
<1>8. ChancesInv
  <2> SUFFICES ASSUME NEW n \in Notice
               PROVE  /\ IsFiniteSet(Senders(worker, n))
                      /\ accepted[n] + Cardinality(Senders(worker, n))
                           + Chance(row[n], worker, n) <= 1 + faults[n]
    BY DEF ChancesInv
  <2>1. IsFiniteSet(Senders(worker, n)) /\ Cardinality(Senders(worker, n)) = 0
    BY <1>7, FS_EmptySet
  <2>2. Chance(row[n], worker, n) \in {0, 1}
    BY ChanceType
  <2> QED
    BY <1>3, <2>1, <2>2
<1> QED
  BY <1>1, <1>4, <1>5, <1>6, <1>8 DEF OutboxInv

-----------------------------------------------------------------------------
(* A step that hands nothing to the provider and moves no busy worker: it   *)
(* opens a way to claim a row again only when a fault was counted.          *)
LEMMA QuietStep ==
  ASSUME OutboxInv, OutboxTypes', accepted' = accepted,
         \A w \in Worker : /\ worker'[w].notice = worker[w].notice
                           /\ worker'[w].stage \in Busy <=> worker[w].stage \in Busy
                           /\ worker[w].stage \in Busy => worker'[w] = worker[w],
         \A n \in Notice : faults'[n] >= faults[n],
         \A n \in Notice : row'[n].lockedBy # NoWorker \/ row'[n].aged => row'[n].status = "processing",
         \A n \in Notice : row'[n].status = "sent" => row[n].status = "sent",
         \A n \in Notice : row[n].status \in {"none", "pending", "suppressed"} =>
                             row'[n].status \in {"none", "pending", "suppressed"},
         \A n \in Notice : Loose(row'[n], worker, n) =>
                             Loose(row[n], worker, n) \/ faults'[n] > faults[n],
         \A n \in Product : changes'[n] = 0 =>
                              changes[n] = 0 /\ productEmail'[n] = productEmail[n]
  PROVE  OutboxInv'
<1>n. Product \subseteq Notice
  BY DEF Notice
<1>1. LocksInv'
  BY DEF OutboxInv, LocksInv
<1>2. ConsentInv'
  BY <1>n DEF OutboxInv, ConsentInv
<1>3. SentInv'
  BY DEF OutboxInv, SentInv, Busy
<1>4. ChancesInv'
  <2> SUFFICES ASSUME NEW n \in Notice
               PROVE  /\ IsFiniteSet(Senders(worker', n))
                      /\ accepted'[n] + Cardinality(Senders(worker', n))
                           + Chance(row'[n], worker', n) <= 1 + faults'[n]
    BY DEF ChancesInv
  <2>1. \A w \in Worker : Open(worker'[w], n) <=> Open(worker[w], n)
    BY DEF Open, Busy
  <2>2. /\ Senders(worker', n) = Senders(worker, n)
        /\ Chance(row'[n], worker', n) = Chance(row'[n], worker, n)
    BY <2>1, HandsAgree
  <2>3. /\ IsFiniteSet(Senders(worker, n))
        /\ accepted[n] + Cardinality(Senders(worker, n)) + Chance(row[n], worker, n)
             <= 1 + faults[n]
    BY DEF OutboxInv, ChancesInv
  <2>4. /\ accepted[n] \in Nat /\ faults[n] \in Nat /\ faults'[n] \in Nat
        /\ Cardinality(Senders(worker, n)) \in Nat
    BY <2>3, FS_CardinalityType DEF OutboxInv, OutboxTypes
  <2>5. /\ Chance(row[n], worker, n) \in {0, 1} /\ Chance(row'[n], worker, n) \in {0, 1}
        /\ \/ Chance(row'[n], worker, n) <= Chance(row[n], worker, n)
           \/ faults'[n] > faults[n]
    BY ChanceType
  <2>6. faults'[n] >= faults[n]
    OBVIOUS
  <2> DEFINE size == Cardinality(Senders(worker, n))
             before == Chance(row[n], worker, n)
             later == Chance(row'[n], worker, n)
  <2>7. accepted[n] + size + later <= 1 + faults'[n]
    <3>1. /\ accepted[n] + size + before <= 1 + faults[n] /\ size \in Nat
          /\ before \in {0, 1} /\ later \in {0, 1}
          /\ (later <= before \/ faults'[n] > faults[n])
      BY <2>3, <2>4, <2>5
    <3> HIDE DEF size, before, later
    <3> QED
      BY <3>1, <2>4, <2>6
  <2> QED
    BY <2>2, <2>3, <2>7
<1> QED
  BY <1>1, <1>2, <1>3, <1>4 DEF OutboxInv


-----------------------------------------------------------------------------
(* Where the lease of a row stands after the moves of the outbox. *)
LEMMA UnlockedRow ==
  ASSUME NEW r \in OutboxRow, NEW due \in BOOLEAN,
         NEW status \in {"pending", "sent", "failed", "suppressed"}
  PROVE  /\ Unlocked(r, status, due) \in OutboxRow
         /\ Unlocked(r, status, due).status = status
         /\ Unlocked(r, status, due).lockedBy = NoWorker
         /\ ~Unlocked(r, status, due).aged
BY DEF Unlocked, OutboxRow

LEMMA IdleHand ==
  ASSUME NEW stage \in {"recover", "suppress", "notification", "support"}
  PROVE  /\ AtStage(stage) \in Hand /\ AtStage(stage).notice = NoNotice
         /\ AtStage(stage).stage = stage /\ stage \notin Busy
         /\ \A n \in Notice : ~Open(AtStage(stage), n) /\ NoNotice # n
BY OutboxAssumption DEF AtStage, Hand, Busy, Open, Notice

(* One row changes, nobody moves and nothing else happens but a fault. *)
LEMMA OneRowMoves ==
  ASSUME OutboxInv, NEW n \in Notice, NEW r \in OutboxRow, row' = [row EXCEPT ![n] = r],
         UNCHANGED <<productEmail, changes, worker, accepted>>,
         faults' \in [Notice -> Nat], \A m \in Notice : faults'[m] >= faults[m],
         r.lockedBy # NoWorker \/ r.aged => r.status = "processing",
         r.status = "sent" => row[n].status = "sent",
         row[n].status \in {"none", "pending", "suppressed"} =>
           r.status \in {"none", "pending", "suppressed"},
         Loose(r, worker, n) => Loose(row[n], worker, n) \/ faults'[n] > faults[n]
  PROVE  OutboxInv'
<1>1. row \in [Notice -> OutboxRow] /\ worker \in [Worker -> Hand]
  BY DEF OutboxInv, OutboxTypes
<1>2. row'[n] = r /\ \A m \in Notice : m # n => row'[m] = row[m]
  BY <1>1
<1>3. OutboxTypes'
  BY DEF OutboxInv, OutboxTypes
<1>4. \A m \in Notice : row[m].lockedBy # NoWorker \/ row[m].aged => row[m].status = "processing"
  BY DEF OutboxInv, LocksInv
<1>5. \A m \in Notice : row'[m].lockedBy # NoWorker \/ row'[m].aged => row'[m].status = "processing"
  BY <1>2, <1>4
<1>6. \A m \in Notice : Loose(row'[m], worker, m) =>
                          Loose(row[m], worker, m) \/ faults'[m] > faults[m]
  BY <1>2
<1>7. \A m \in Notice : row[m].status \in {"none", "pending", "suppressed"} =>
                          row'[m].status \in {"none", "pending", "suppressed"}
  BY <1>2
<1>8. \A m \in Notice : row'[m].status = "sent" => row[m].status = "sent"
  BY <1>2
<1> QED
  BY <1>3, <1>5, <1>6, <1>7, <1>8, QuietStep

LEMMA FaultsGrow ==
  ASSUME OutboxInv, NEW n \in Notice, Fault(n)
  PROVE  /\ faults' \in [Notice -> Nat] /\ faults'[n] = faults[n] + 1
         /\ \A m \in Notice : faults'[m] >= faults[m]
         /\ \A m \in Notice : m # n => faults'[m] = faults[m]
<1>1. faults \in [Notice -> Nat]
  BY DEF OutboxInv, OutboxTypes
<1> QED
  BY <1>1 DEF Fault

LEMMA EnqueueStep ==
  ASSUME OutboxInv, NEW n \in Notice, Enqueue(n) PROVE OutboxInv'
<1> DEFINE r == Unlocked(row[n], "pending", TRUE)
<1>1. row[n] \in OutboxRow /\ row[n].status = "none" /\ faults \in [Notice -> Nat]
  BY DEF OutboxInv, OutboxTypes, Enqueue
<1>2. r \in OutboxRow /\ r.status = "pending" /\ r.lockedBy = NoWorker /\ ~r.aged
  BY <1>1, UnlockedRow
<1>3. row' = [row EXCEPT ![n] = r]
  BY DEF Enqueue
<1>4. Loose(row[n], worker, n)
  BY <1>1 DEF Loose
<1>5. faults' = faults /\ UNCHANGED <<productEmail, changes, worker, accepted>>
  BY DEF Enqueue
<1>7. faults' \in [Notice -> Nat] /\ \A m \in Notice : faults'[m] >= faults[m]
  BY <1>1, <1>5
<1> HIDE DEF r
<1> QED
  BY <1>1, <1>2, <1>3, <1>4, <1>5, <1>7, OneRowMoves

LEMMA FallDueStep ==
  ASSUME OutboxInv, NEW n \in Notice, FallDue(n) PROVE OutboxInv'
<1> DEFINE r == [row[n] EXCEPT !.due = TRUE]
<1>1. row[n] \in OutboxRow /\ row[n].status = "pending" /\ faults \in [Notice -> Nat]
  BY DEF OutboxInv, OutboxTypes, FallDue
<1>2. /\ r \in OutboxRow /\ r.status = "pending"
      /\ r.lockedBy = row[n].lockedBy /\ r.aged = row[n].aged
  BY <1>1 DEF OutboxRow
<1>3. row' = [row EXCEPT ![n] = r]
  BY DEF FallDue
<1>4. Loose(row[n], worker, n)
  BY <1>1 DEF Loose
<1>5. faults' = faults /\ UNCHANGED <<productEmail, changes, worker, accepted>>
  BY DEF FallDue
<1>7. faults' \in [Notice -> Nat] /\ \A m \in Notice : faults'[m] >= faults[m]
  BY <1>1, <1>5
<1>6. r.lockedBy # NoWorker \/ r.aged => r.status = "processing"
  BY <1>2 DEF OutboxInv, LocksInv
<1> HIDE DEF r
<1> QED
  BY <1>1, <1>2, <1>3, <1>4, <1>5, <1>6, <1>7, OneRowMoves

LEMMA AgeStep ==
  ASSUME OutboxInv, NEW n \in Notice, AgeLock(n) \/ AgeLockOfSlowWorker(n) PROVE OutboxInv'
<1> DEFINE r == [row[n] EXCEPT !.aged = TRUE]
<1>1. row[n] \in OutboxRow /\ row[n].status = "processing" /\ faults \in [Notice -> Nat]
  BY DEF OutboxInv, OutboxTypes, AgeLock, AgeLockOfSlowWorker
<1>2. r \in OutboxRow /\ r.status = "processing"
  BY <1>1 DEF OutboxRow
<1>3. row' = [row EXCEPT ![n] = r] /\ UNCHANGED <<productEmail, changes, worker, accepted>>
  BY DEF AgeLock, AgeLockOfSlowWorker
<1>4. \/ faults' = faults /\ Loose(row[n], worker, n)
      \/ Fault(n)
  BY <1>1 DEF AgeLock, AgeLockOfSlowWorker, InHand, Loose, Held
<1>5. /\ faults' \in [Notice -> Nat] /\ \A m \in Notice : faults'[m] >= faults[m]
      /\ Loose(row[n], worker, n) \/ faults'[n] > faults[n]
  BY <1>1, <1>4, FaultsGrow
<1> HIDE DEF r
<1> QED
  BY <1>1, <1>2, <1>3, <1>5, OneRowMoves

LEMMA SaveStep ==
  ASSUME OutboxInv, NEW n \in Product, NEW choice \in BOOLEAN, SaveProductEmail(n, choice)
  PROVE  OutboxInv'
<1>1. /\ changes \in [Product -> Nat] /\ productEmail \in [Product -> BOOLEAN]
      /\ faults \in [Notice -> Nat]
  BY DEF OutboxInv, OutboxTypes
<1>2. /\ changes' = [changes EXCEPT ![n] = @ + 1]
      /\ productEmail' = [productEmail EXCEPT ![n] = choice]
      /\ UNCHANGED <<row, worker, accepted, faults>>
  BY DEF SaveProductEmail
<1>3. OutboxTypes'
  BY <1>1, <1>2 DEF OutboxInv, OutboxTypes
<1>4. \A m \in Product : changes'[m] = 0 =>
                           changes[m] = 0 /\ productEmail'[m] = productEmail[m]
  BY <1>1, <1>2
<1>5. \A m \in Notice : row[m].lockedBy # NoWorker \/ row[m].aged => row[m].status = "processing"
  BY DEF OutboxInv, LocksInv
<1>6. \A m \in Notice : faults'[m] >= faults[m]
  BY <1>1, <1>2
<1> QED
  BY <1>2, <1>3, <1>4, <1>5, <1>6, QuietStep

(* A worker that holds nothing goes on in its cycle. *)
LEMMA IdleMove ==
  ASSUME OutboxInv, NEW w \in Worker, worker[w].stage \notin Busy,
         NEW stage \in {"recover", "suppress", "notification", "support"},
         worker' = [worker EXCEPT ![w] = AtStage(stage)]
  PROVE  /\ worker' \in [Worker -> Hand]
         /\ \A v \in Worker : /\ worker'[v].notice = worker[v].notice
                              /\ worker'[v].stage \in Busy <=> worker[v].stage \in Busy
                              /\ worker[v].stage \in Busy => worker'[v] = worker[v]
<1>1. worker \in [Worker -> Hand]
  BY DEF OutboxInv, OutboxTypes
<1>2. worker[w].notice = NoNotice
  BY <1>1 DEF OutboxInv, LocksInv, Hand
<1>3. /\ AtStage(stage) \in Hand /\ AtStage(stage).notice = NoNotice
      /\ AtStage(stage).stage \notin Busy
  BY IdleHand
<1>4. worker'[w] = AtStage(stage) /\ \A v \in Worker : v # w => worker'[v] = worker[v]
  BY <1>1
<1>5. worker' \in [Worker -> Hand]
  BY <1>1, <1>3
<1> QED
  BY <1>2, <1>3, <1>4, <1>5

(* The sweeps change the rows of a guard at once. *)
LEMMA SweepStep ==
  ASSUME OutboxInv, NEW w \in Worker, RecoverStaleLocks(w) \/ SuppressProductNotifications(w)
  PROVE  OutboxInv'
<1>1. /\ row \in [Notice -> OutboxRow] /\ row' \in [Notice -> OutboxRow]
      /\ \A n \in Notice :
           \/ row'[n] = row[n]
           \/ /\ row'[n].status \in {"pending", "suppressed"} /\ row'[n].lockedBy = NoWorker
              /\ ~row'[n].aged
              /\ Loose(row[n], worker, n) /\ row[n].status # "none"
              /\ row[n].status = "pending" => row'[n].status = "suppressed"
              /\ row[n].status \in {"pending", "processing"}
  <2>0. row \in [Notice -> OutboxRow]
    BY DEF OutboxInv, OutboxTypes
  <2>1. CASE RecoverStaleLocks(w)
    <3>1. ASSUME NEW n \in Notice, Stale(row[n])
          PROVE  /\ Unlocked(row[n], "pending", TRUE) \in OutboxRow
                 /\ Unlocked(row[n], "pending", TRUE).status = "pending"
                 /\ Unlocked(row[n], "pending", TRUE).lockedBy = NoWorker
                 /\ ~Unlocked(row[n], "pending", TRUE).aged
                 /\ Loose(row[n], worker, n) /\ row[n].status = "processing"
      BY <2>0, <3>1, UnlockedRow DEF Stale, Loose
    <3>2. row' = [n \in Notice |->
                    IF Stale(row[n]) THEN Unlocked(row[n], "pending", TRUE) ELSE row[n]]
      BY <2>1 DEF RecoverStaleLocks
    <3> QED
      BY <2>0, <3>1, <3>2
  <2>2. CASE SuppressProductNotifications(w)
    <3>1. ASSUME NEW n \in Notice, Unwanted(n)
          PROVE  /\ Unlocked(row[n], "suppressed", TRUE) \in OutboxRow
                 /\ Unlocked(row[n], "suppressed", TRUE).status = "suppressed"
                 /\ Unlocked(row[n], "suppressed", TRUE).lockedBy = NoWorker
                 /\ ~Unlocked(row[n], "suppressed", TRUE).aged
                 /\ Loose(row[n], worker, n) /\ row[n].status = "pending"
      BY <2>0, <3>1, UnlockedRow DEF Unwanted, Loose
    <3>2. row' = [n \in Notice |->
                    IF Unwanted(n) THEN Unlocked(row[n], "suppressed", TRUE) ELSE row[n]]
      BY <2>2 DEF SuppressProductNotifications
    <3> QED
      BY <2>0, <3>1, <3>2
  <2> QED
    BY <2>1, <2>2
<1>2. /\ \E stage \in {"recover", "suppress", "notification", "support"} :
             worker' = [worker EXCEPT ![w] = AtStage(stage)]
      /\ worker[w].stage \notin Busy
      /\ UNCHANGED <<productEmail, changes, accepted, faults>>
  BY DEF RecoverStaleLocks, SuppressProductNotifications, Busy
<1>3. /\ worker' \in [Worker -> Hand]
      /\ \A v \in Worker : /\ worker'[v].notice = worker[v].notice
                           /\ worker'[v].stage \in Busy <=> worker[v].stage \in Busy
                           /\ worker[v].stage \in Busy => worker'[v] = worker[v]
  BY <1>2, IdleMove
<1>4. OutboxTypes'
  BY <1>1, <1>2, <1>3 DEF OutboxInv, OutboxTypes
<1>5. \A n \in Notice : row[n].lockedBy # NoWorker \/ row[n].aged => row[n].status = "processing"
  BY DEF OutboxInv, LocksInv
<1>6. \A n \in Notice : row'[n].lockedBy # NoWorker \/ row'[n].aged => row'[n].status = "processing"
  BY <1>1, <1>5
<1>7. \A n \in Notice : Loose(row'[n], worker, n) => Loose(row[n], worker, n)
  BY <1>1
<1>8. \A n \in Notice : /\ row'[n].status = "sent" => row[n].status = "sent"
                        /\ row[n].status \in {"none", "pending", "suppressed"} =>
                             row'[n].status \in {"none", "pending", "suppressed"}
  BY <1>1
<1>9. \A n \in Notice : faults'[n] >= faults[n]
  BY <1>2 DEF OutboxInv, OutboxTypes
<1> QED
  BY <1>2, <1>3, <1>4, <1>6, <1>7, <1>8, <1>9, QuietStep

LEMMA SkipStep ==
  ASSUME OutboxInv, NEW w \in Worker, worker[w].stage \notin Busy, NEW N,
         NEW stage \in {"recover", "support"}, Skip(w, N, stage)
  PROVE  OutboxInv'
<1>1. /\ worker' \in [Worker -> Hand]
      /\ \A v \in Worker : /\ worker'[v].notice = worker[v].notice
                           /\ worker'[v].stage \in Busy <=> worker[v].stage \in Busy
                           /\ worker[v].stage \in Busy => worker'[v] = worker[v]
  BY IdleMove DEF Skip
<1>2. UNCHANGED <<row, productEmail, changes, accepted, faults>>
  BY DEF Skip
<1>3. OutboxTypes'
  BY <1>1, <1>2 DEF OutboxInv, OutboxTypes
<1>4. \A n \in Notice : row[n].lockedBy # NoWorker \/ row[n].aged => row[n].status = "processing"
  BY DEF OutboxInv, LocksInv
<1>5. \A n \in Notice : faults'[n] >= faults[n]
  BY <1>2 DEF OutboxInv, OutboxTypes
<1> QED
  BY <1>1, <1>2, <1>3, <1>4, <1>5, QuietStep


-----------------------------------------------------------------------------
(* The claim turns the chance of the row into a sender. *)
LEMMA ClaimStep ==
  ASSUME OutboxInv, NEW w \in Worker, worker[w].stage \notin Busy, NEW N \in SUBSET Notice,
         ClaimFrom(w, N)
  PROVE  OutboxInv'
<1>1. PICK n \in N : /\ Deliverable(n) /\ row' = [row EXCEPT ![n] = Claimed(row[n], w)]
                     /\ worker' = [worker EXCEPT ![w] = [stage |-> "send", notice |-> n,
                                     attempts |-> row[n].attempts + 1, delivered |-> FALSE]]
                     /\ UNCHANGED <<productEmail, changes, accepted, faults>>
  BY DEF ClaimFrom
<1> DEFINE r == Claimed(row[n], w)
           h == [stage |-> "send", notice |-> n,
                 attempts |-> row[n].attempts + 1, delivered |-> FALSE]
<1>2. /\ row \in [Notice -> OutboxRow] /\ worker \in [Worker -> Hand] /\ n \in Notice
      /\ row[n].status = "pending"
      /\ n \in Product => productEmail[n]
      /\ row[n] \in OutboxRow
  BY <1>1 DEF OutboxInv, OutboxTypes, Deliverable
<1>3. r \in OutboxRow /\ r.status = "processing" /\ r.lockedBy = w /\ r.aged = row[n].aged
  BY <1>2 DEF OutboxRow, Claimed
<1>4. /\ h \in Hand /\ h.notice = n /\ h.stage = "send"
      /\ Open(h, n)
  BY <1>2 DEF Hand, OutboxRow, Busy, Open
<1>5. row' = [row EXCEPT ![n] = r] /\ worker' = [worker EXCEPT ![w] = h]
  BY <1>1
<1> HIDE DEF r, h
<1>6. /\ row'[n] = r /\ \A m \in Notice : m # n => row'[m] = row[m]
      /\ worker'[w] = h /\ \A v \in Worker : v # w => worker'[v] = worker[v]
  BY <1>2, <1>5
<1>7. OutboxTypes'
  <2>1. row' \in [Notice -> OutboxRow]
    BY <1>2, <1>3, <1>5
  <2>2. worker' \in [Worker -> Hand]
    BY <1>2, <1>4, <1>5
  <2> QED
    BY <1>1, <2>1, <2>2 DEF OutboxInv, OutboxTypes
<1>8. LocksInv'
  <2>1. /\ \A m \in Notice : row[m].lockedBy # NoWorker \/ row[m].aged => row[m].status = "processing"
        /\ \A v \in Worker : worker[v].notice \in Notice <=> worker[v].stage \in Busy
    BY DEF OutboxInv, LocksInv
  <2>2. \A m \in Notice : row'[m].lockedBy # NoWorker \/ row'[m].aged => row'[m].status = "processing"
    BY <1>3, <1>6, <2>1
  <2>3. h.notice \in Notice /\ h.stage \in Busy
    BY <1>2, <1>4 DEF Busy
  <2>4. \A v \in Worker : worker'[v].notice \in Notice <=> worker'[v].stage \in Busy
    BY <1>6, <2>1, <2>3
  <2> QED
    BY <2>2, <2>4 DEF LocksInv
<1>9. ConsentInv'
  <2>1. \A m \in Product : changes[m] = 0 => m # n
    BY <1>2 DEF OutboxInv, ConsentInv
  <2>2. \A m \in Product : m \in Notice
    BY DEF Notice
  <2> QED
    BY <1>1, <1>4, <1>6, <2>1, <2>2 DEF OutboxInv, ConsentInv
<1>10. SentInv'
  <2>1. \A m \in Notice : row'[m].status = "sent" => row[m].status = "sent"
    BY <1>3, <1>6
  <2>2. \A v \in Worker : worker'[v].stage = "record" => worker'[v] = worker[v]
    BY <1>4, <1>6
  <2> QED
    BY <1>1, <2>1, <2>2 DEF OutboxInv, SentInv
<1>11. ChancesInv'
  <2> SUFFICES ASSUME NEW m \in Notice
               PROVE  /\ IsFiniteSet(Senders(worker', m))
                      /\ accepted[m] + Cardinality(Senders(worker', m))
                           + Chance(row'[m], worker', m) <= 1 + faults[m]
    BY <1>1 DEF ChancesInv
  <2>1. /\ IsFiniteSet(Senders(worker, m))
        /\ accepted[m] + Cardinality(Senders(worker, m)) + Chance(row[m], worker, m)
             <= 1 + faults[m]
    BY DEF OutboxInv, ChancesInv
  <2>0. worker[w].notice \notin Notice
    BY DEF OutboxInv, LocksInv
  <2>2. CASE m # n
    <3>1. /\ Senders(worker', m) = Senders(worker, m)
          /\ Chance(row[m], worker', m) = Chance(row[m], worker, m)
      BY <1>4, <1>6, <2>0, <2>2, OthersAgree
    <3> QED
      BY <1>6, <2>1, <2>2, <3>1
  <2>3. CASE m = n
    <3>1. ~Open(worker[w], n)
      BY <1>2, <2>0 DEF Open
    <3>2. /\ IsFiniteSet(Senders(worker', n))
          /\ Cardinality(Senders(worker', n)) = Cardinality(Senders(worker, n)) + 1
      BY <1>4, <1>6, <2>1, <2>3, <3>1, OneSenderMore
    <3>3. Chance(row[n], worker, n) = 1
      BY <1>2, ChanceType DEF Loose
    <3>4. ~Loose(r, worker', n)
      <4>1. row[n].aged = FALSE
        BY <1>2 DEF OutboxInv, LocksInv, OutboxRow
      <4> QED
        BY <1>3, <1>4, <1>6, <4>1 DEF Loose, Held
    <3>5. Chance(row'[n], worker', n) = 0
      BY <1>6, <3>4 DEF Chance
    <3>6. accepted[n] \in Nat /\ faults[n] \in Nat /\ Cardinality(Senders(worker, n)) \in Nat
      BY <1>2, <2>1, <2>3, FS_CardinalityType DEF OutboxInv, OutboxTypes
    <3> QED
      BY <2>1, <2>3, <3>2, <3>3, <3>5, <3>6
  <2> QED
    BY <2>2, <2>3
<1> QED
  BY <1>7, <1>8, <1>9, <1>10, <1>11 DEF OutboxInv


(* The provider is handed a notice by a worker that was a sender of it: the *)
(* worker is one no more, or the answer was lost and a fault is counted.    *)
LEMMA SendStep ==
  ASSUME OutboxInv, NEW w \in Worker, Send(w)
  PROVE  OutboxInv'
<1> DEFINE n == worker[w].notice
<1>1. PICK delivered \in BOOLEAN :
        /\ Answered(w, delivered)
        /\ \/ Take(n) /\ UNCHANGED faults /\ delivered
           \/ UNCHANGED <<accepted, faults>> /\ ~delivered
           \/ Take(n) /\ Fault(n) /\ ~delivered
  BY DEF Send
<1>2. /\ worker[w].stage = "send" /\ worker \in [Worker -> Hand] /\ n \in Notice
      /\ accepted \in [Notice -> Nat] /\ faults \in [Notice -> Nat]
      /\ UNCHANGED <<row, productEmail, changes>> /\ worker[w] \in Hand
  BY DEF Send, OutboxInv, OutboxTypes, LocksInv, Busy
<1> DEFINE h == worker'[w]
<1>3. /\ h \in Hand /\ h.notice = n /\ h.stage = "record" /\ h.delivered = delivered
      /\ worker' \in [Worker -> Hand]
      /\ \A v \in Worker : v # w => worker'[v] = worker[v]
  <2> DEFINE answered == [worker[w] EXCEPT !.stage = "record"]
             told == [answered EXCEPT !.delivered = delivered]
  <2>1. answered \in Hand /\ answered.notice = n /\ answered.stage = "record"
    BY <1>2 DEF Hand, Busy
  <2>2. worker' = [worker EXCEPT ![w] = told]
    BY <1>1, <1>2 DEF Answered
  <2> HIDE DEF answered
  <2>3. told \in Hand /\ told.notice = n /\ told.stage = "record" /\ told.delivered = delivered
    BY <2>1 DEF Hand
  <2> HIDE DEF told, n
  <2> QED
    BY <1>2, <2>2, <2>3
<1>4. /\ accepted' \in [Notice -> Nat] /\ faults' \in [Notice -> Nat]
      /\ \A m \in Notice : accepted'[m] >= accepted[m]
      /\ \A m \in Notice : m # n => accepted'[m] = accepted[m] /\ faults'[m] = faults[m]
      /\ delivered => accepted'[n] = accepted[n] + 1 /\ faults'[n] = faults[n]
      /\ ~delivered => accepted'[n] - accepted[n] <= faults'[n] - faults[n]
  BY <1>1, <1>2, FaultsGrow DEF Take
<1>n. NoNotice \notin Notice /\ Product \subseteq Notice
  BY OutboxAssumption DEF Notice
<1> HIDE DEF n, h
<1>5. OutboxTypes'
  BY <1>2, <1>3, <1>4 DEF OutboxInv, OutboxTypes
<1>6. LocksInv'
  <2>1. \A v \in Worker : worker'[v].notice \in Notice <=> worker'[v].stage \in Busy
    BY <1>2, <1>3 DEF OutboxInv, LocksInv, Busy, h
  <2> QED
    BY <1>2, <2>1 DEF OutboxInv, LocksInv
<1>7. ConsentInv'
  <2> SUFFICES ASSUME NEW m \in Product, changes[m] = 0
               PROVE  /\ ~productEmail[m] /\ accepted'[m] = 0
                      /\ row[m].status \in {"none", "pending", "suppressed"}
                      /\ \A v \in Worker : worker'[v].notice # m
    BY <1>2 DEF ConsentInv
  <2>1. /\ ~productEmail[m] /\ accepted[m] = 0
        /\ row[m].status \in {"none", "pending", "suppressed"}
        /\ \A v \in Worker : worker[v].notice # m
    BY DEF OutboxInv, ConsentInv
  <2>2. m # n
    BY <2>1 DEF n
  <2> QED
    BY <1>3, <1>4, <1>n, <2>1, <2>2 DEF h
<1>8. SentInv'
  <2>1. /\ \A m \in Notice : row[m].status = "sent" => accepted[m] > 0
        /\ \A v \in Worker : worker[v].stage = "record" /\ worker[v].delivered =>
             accepted[worker[v].notice] > 0
    BY DEF OutboxInv, SentInv
  <2>2. \A m \in Notice : accepted[m] > 0 => accepted'[m] > 0
    BY <1>2, <1>4
  <2>3. ASSUME NEW v \in Worker, worker'[v].stage = "record", worker'[v].delivered
        PROVE  accepted'[worker'[v].notice] > 0
    <3>1. CASE v = w
      BY <1>2, <1>3, <1>4, <2>3, <3>1 DEF h
    <3>2. CASE v # w
      <4>1. worker[v].notice \in Notice
        BY <1>3, <2>3, <3>2 DEF OutboxInv, LocksInv, Busy
      <4> QED
        BY <1>3, <2>1, <2>2, <2>3, <3>2, <4>1
    <3> QED
      BY <3>1, <3>2
  <2> QED
    BY <1>2, <2>1, <2>2, <2>3 DEF SentInv
<1>9. ChancesInv'
  <2> SUFFICES ASSUME NEW m \in Notice
               PROVE  /\ IsFiniteSet(Senders(worker', m))
                      /\ accepted'[m] + Cardinality(Senders(worker', m))
                           + Chance(row[m], worker', m) <= 1 + faults'[m]
    BY <1>2 DEF ChancesInv
  <2>1. /\ IsFiniteSet(Senders(worker, m))
        /\ accepted[m] + Cardinality(Senders(worker, m)) + Chance(row[m], worker, m)
             <= 1 + faults[m]
    BY DEF OutboxInv, ChancesInv
  <2>2. CASE m # n
    <3>1. /\ Senders(worker', m) = Senders(worker, m)
          /\ Chance(row[m], worker', m) = Chance(row[m], worker, m)
      BY <1>3, <2>2, OthersAgree DEF h, n
    <3> QED
      BY <1>4, <2>1, <2>2, <3>1
  <2>3. CASE m = n
    <3>0. \A v \in Worker : worker'[v].notice = n <=> worker[v].notice = n
      BY <1>3 DEF n, h
    <3>1. Chance(row[n], worker', n) = Chance(row[n], worker, n)
      BY <3>0 DEF Chance, Loose, Held
    <3>2. Open(worker[w], n) /\ (Open(worker'[w], n) <=> ~delivered)
      BY <1>2, <1>3 DEF Open, n, h
    <3>3. /\ IsFiniteSet(Senders(worker', n))
          /\ Cardinality(Senders(worker', n)) =
               IF delivered THEN Cardinality(Senders(worker, n)) - 1
               ELSE Cardinality(Senders(worker, n))
      <4>1. CASE delivered
        BY <1>3, <2>1, <2>3, <3>2, <4>1, OneSenderLess
      <4>2. CASE ~delivered
        BY <1>3, <2>1, <2>3, <3>2, <4>2, SendersSame
      <4> QED
        BY <4>1, <4>2
    <3>4. /\ accepted[n] \in Nat /\ faults[n] \in Nat /\ Cardinality(Senders(worker, n)) \in Nat
          /\ accepted'[n] \in Nat /\ faults'[n] \in Nat /\ Chance(row[n], worker, n) \in {0, 1}
      BY <1>2, <1>4, <2>1, <2>3, FS_CardinalityType, ChanceType
    <3> DEFINE size == Cardinality(Senders(worker, n))
               chance == Chance(row[n], worker, n)
    <3>5. /\ accepted[n] + size + chance <= 1 + faults[n]
          /\ size \in Nat /\ chance \in {0, 1}
      BY <2>1, <2>3, <3>4
    <3>6. accepted'[n] + Cardinality(Senders(worker', n)) + chance <= 1 + faults'[n]
      <4>1. CASE delivered
        <5>1. Cardinality(Senders(worker', n)) = size - 1
          BY <3>3, <4>1
        <5> HIDE DEF size, chance
        <5> QED
          BY <1>4, <3>4, <3>5, <4>1, <5>1
      <4>2. CASE ~delivered
        <5>1. Cardinality(Senders(worker', n)) = size
          BY <3>3, <4>2
        <5> HIDE DEF size, chance
        <5> QED
          BY <1>4, <3>4, <3>5, <4>2, <5>1
      <4> QED
        BY <4>1, <4>2
    <3> QED
      BY <2>3, <3>1, <3>3, <3>6
  <2> QED
    BY <2>2, <2>3
<1> QED
  BY <1>5, <1>6, <1>7, <1>8, <1>9 DEF OutboxInv


(* A worker lets go of the notice n it holds. *)
LEMMA HandsOff ==
  ASSUME OutboxInv, NEW w \in Worker, worker[w].stage \in Busy,
         NEW stage \in {"recover", "support"}, worker'[w] = AtStage(stage),
         \A v \in Worker : v # w => worker'[v] = worker[v],
         OutboxTypes',
         \A m \in Notice : accepted'[m] = accepted[m],
         \A m \in Notice : row'[m].lockedBy # NoWorker \/ row'[m].aged => row'[m].status = "processing",
         \A m \in Product : changes'[m] = 0 =>
            changes[m] = 0 /\ productEmail'[m] = productEmail[m] /\ row'[m] = row[m],
         \A m \in Notice : row'[m].status = "sent" => row[m].status = "sent" \/ accepted[m] > 0,
         \A m \in Notice : m # worker[w].notice => row'[m] = row[m] /\ faults'[m] = faults[m],
         LET m == worker[w].notice IN
           Cardinality(Senders(worker', m)) + Chance(row'[m], worker', m) + faults[m]
             <= Cardinality(Senders(worker, m)) + Chance(row[m], worker, m) + faults'[m]
  PROVE  OutboxInv'
<1> DEFINE n == worker[w].notice
<1>1. /\ worker \in [Worker -> Hand] /\ accepted \in [Notice -> Nat]
      /\ faults \in [Notice -> Nat] /\ faults' \in [Notice -> Nat]
  BY DEF OutboxInv, OutboxTypes
<1>2. n \in Notice /\ Product \subseteq Notice
  BY DEF OutboxInv, LocksInv, Notice
<1>3. /\ worker'[w] = AtStage(stage) /\ worker'[w].notice = NoNotice
      /\ worker'[w].stage \notin Busy /\ worker'[w].stage # "record"
      /\ \A m \in Notice : ~Open(worker'[w], m) /\ NoNotice # m
      /\ NoNotice \notin Notice
      /\ \A v \in Worker : v # w => worker'[v] = worker[v]
  BY <1>1, IdleHand DEF Busy
<1>4. LocksInv'
  BY <1>3 DEF OutboxInv, LocksInv
<1>5. ConsentInv'
  BY <1>2, <1>3 DEF OutboxInv, ConsentInv
<1>6. SentInv'
  <2>1. \A v \in Worker : worker[v].stage = "record" /\ worker[v].delivered =>
          accepted[worker[v].notice] > 0 /\ worker[v].notice \in Notice
    BY DEF OutboxInv, SentInv, LocksInv, Busy
  <2>2. \A v \in Worker : worker'[v].stage = "record" /\ worker'[v].delivered =>
          accepted'[worker'[v].notice] > 0
    BY <1>3, <2>1
  <2> QED
    BY <2>2 DEF OutboxInv, SentInv
<1>7. ChancesInv'
  <2> SUFFICES ASSUME NEW m \in Notice
               PROVE  /\ IsFiniteSet(Senders(worker', m))
                      /\ accepted'[m] + Cardinality(Senders(worker', m))
                           + Chance(row'[m], worker', m) <= 1 + faults'[m]
    BY DEF ChancesInv
  <2>1. /\ IsFiniteSet(Senders(worker, m))
        /\ accepted[m] + Cardinality(Senders(worker, m)) + Chance(row[m], worker, m)
             <= 1 + faults[m]
    BY DEF OutboxInv, ChancesInv
  <2>2. CASE m # n
    <3>1. /\ Senders(worker', m) = Senders(worker, m)
          /\ Chance(row[m], worker', m) = Chance(row[m], worker, m)
      <4>1. worker[w].notice # m /\ worker'[w].notice # m
        BY <1>3, <2>2
      <4>2. \A v \in Worker : v # w => worker'[v] = worker[v]
        BY <1>3
      <4> HIDE DEF n
      <4> QED
        BY <4>1, <4>2, OthersAgree
    <3> QED
      BY <2>1, <2>2, <3>1
  <2>3. CASE m = n
    <3>1. IsFiniteSet(Senders(worker', n))
      <4>1. ~Open(worker'[w], n) /\ IsFiniteSet(Senders(worker, n))
        BY <1>2, <1>3, <2>1, <2>3
      <4>2. \A v \in Worker : v # w => worker'[v] = worker[v]
        BY <1>3
      <4> HIDE DEF n
      <4>3. CASE Open(worker[w], n)
        BY <4>1, <4>2, <4>3, OneSenderLess
      <4>4. CASE ~Open(worker[w], n)
        BY <4>1, <4>2, <4>4, SendersSame
      <4> QED
        BY <4>3, <4>4
    <3> DEFINE size == Cardinality(Senders(worker, n))
               chance == Chance(row[n], worker, n)
               size2 == Cardinality(Senders(worker', n))
               chance2 == Chance(row'[n], worker', n)
    <3>2. /\ accepted[n] \in Nat /\ faults[n] \in Nat /\ faults'[n] \in Nat
          /\ size \in Nat /\ size2 \in Nat /\ chance \in {0, 1} /\ chance2 \in {0, 1}
      BY <1>1, <1>2, <2>1, <2>3, <3>1, FS_CardinalityType, ChanceType
    <3>3. accepted[n] + size + chance <= 1 + faults[n]
      BY <2>1, <2>3
    <3>4. size2 + chance2 + faults[n] <= size + chance + faults'[n] /\ accepted'[n] = accepted[n]
      BY <1>2
    <3> HIDE DEF n, size, chance, size2, chance2
    <3>5. accepted'[n] + size2 + chance2 <= 1 + faults'[n]
      BY <3>2, <3>3, <3>4
    <3> QED
      BY <2>3, <3>1, <3>5 DEF size2, chance2
  <2> QED
    BY <2>2, <2>3
<1> QED
  BY <1>4, <1>5, <1>6, <1>7 DEF OutboxInv

(* What a worker that lets go takes with it. *)
LEMMA SenderGone ==
  ASSUME NEW hands, NEW after, NEW w \in Worker, NEW n,
         \A v \in Worker : v # w => after[v] = hands[v],
         ~Open(after[w], n), IsFiniteSet(Senders(hands, n))
  PROVE  /\ Cardinality(Senders(hands, n)) \in Nat /\ Cardinality(Senders(after, n)) \in Nat
         /\ Cardinality(Senders(after, n)) =
              IF Open(hands[w], n) THEN Cardinality(Senders(hands, n)) - 1
              ELSE Cardinality(Senders(hands, n))
<1>1. CASE Open(hands[w], n)
  <2>1. /\ IsFiniteSet(Senders(after, n))
        /\ Cardinality(Senders(after, n)) = Cardinality(Senders(hands, n)) - 1
    BY <1>1, OneSenderLess
  <2> QED
    BY <1>1, <2>1, FS_CardinalityType
<1>2. CASE ~Open(hands[w], n)
  <2>1. Senders(after, n) = Senders(hands, n)
    BY <1>2, SendersSame
  <2> QED
    BY <1>2, <2>1, FS_CardinalityType
<1> QED
  BY <1>1, <1>2

LEMMA AbandonStep ==
  ASSUME OutboxInv, NEW w \in Worker, Abandon(w)
  PROVE  OutboxInv'
<1> DEFINE n == worker[w].notice
<1>1. /\ worker[w].stage \in Busy /\ n \in Notice /\ Fault(n)
      /\ worker' = [worker EXCEPT ![w] = AtStage("recover")]
      /\ UNCHANGED <<row, productEmail, changes, accepted>>
  BY DEF Abandon, OutboxInv, LocksInv, Busy
<1>2. /\ worker \in [Worker -> Hand] /\ row \in [Notice -> OutboxRow]
      /\ faults' \in [Notice -> Nat] /\ faults'[n] = faults[n] + 1 /\ faults[n] \in Nat
      /\ \A m \in Notice : m # n => faults'[m] = faults[m]
  BY <1>1, FaultsGrow DEF OutboxInv, OutboxTypes
<1>3. AtStage("recover") \in Hand /\ ~Open(AtStage("recover"), n)
  BY <1>1, IdleHand
<1>4. /\ worker' \in [Worker -> Hand] /\ worker'[w] = AtStage("recover")
      /\ \A v \in Worker : v # w => worker'[v] = worker[v]
  BY <1>1, <1>2, <1>3
<1>5. OutboxTypes'
  BY <1>1, <1>2, <1>4 DEF OutboxInv, OutboxTypes
<1>6. \A m \in Notice : row'[m].lockedBy # NoWorker \/ row'[m].aged => row'[m].status = "processing"
  BY <1>1 DEF OutboxInv, LocksInv
<1>7. /\ Cardinality(Senders(worker, n)) \in Nat /\ Cardinality(Senders(worker', n)) \in Nat
      /\ Cardinality(Senders(worker', n)) <= Cardinality(Senders(worker, n))
  <2>1. IsFiniteSet(Senders(worker, n))
    BY <1>1 DEF OutboxInv, ChancesInv
  <2>2. ~Open(worker'[w], n)
    BY <1>3, <1>4
  <2>3. \A v \in Worker : v # w => worker'[v] = worker[v]
    BY <1>4
  <2> HIDE DEF n
  <2>4. /\ Cardinality(Senders(worker, n)) \in Nat /\ Cardinality(Senders(worker', n)) \in Nat
        /\ Cardinality(Senders(worker', n)) =
             IF Open(worker[w], n) THEN Cardinality(Senders(worker, n)) - 1
             ELSE Cardinality(Senders(worker, n))
    BY <2>1, <2>2, <2>3, SenderGone
  <2> QED
    BY <2>4
<1>8. Chance(row[n], worker, n) \in {0, 1} /\ Chance(row'[n], worker', n) \in {0, 1}
  BY ChanceType
<1>9. Cardinality(Senders(worker', n)) + Chance(row'[n], worker', n) + faults[n]
        <= Cardinality(Senders(worker, n)) + Chance(row[n], worker, n) + faults'[n]
  BY <1>2, <1>7, <1>8
<1> QED
  BY <1>1, <1>2, <1>4, <1>5, <1>6, <1>9, HandsOff

LEMMA RecordStep ==
  ASSUME OutboxInv, NEW w \in Worker, Record(w)
  PROVE  OutboxInv'
<1> DEFINE n == worker[w].notice
           r == row'[n]
           stage == AfterNotice(n)
<1>1. /\ worker[w].stage = "record" /\ worker[w].stage \in Busy /\ n \in Notice
      /\ worker' = [worker EXCEPT ![w] = AtStage(stage)] /\ stage \in {"recover", "support"}
      /\ UNCHANGED <<productEmail, changes, accepted, faults>>
  BY DEF Record, OutboxInv, LocksInv, Busy, AfterNotice
<1>2. /\ worker \in [Worker -> Hand] /\ row \in [Notice -> OutboxRow]
      /\ faults \in [Notice -> Nat] /\ worker[w] \in Hand /\ row[n] \in OutboxRow
  BY <1>1 DEF OutboxInv, OutboxTypes
<1>3. /\ r \in OutboxRow /\ row' \in [Notice -> OutboxRow]
      /\ \A m \in Notice : m # n => row'[m] = row[m]
      /\ \/ r = row[n] /\ row[n].lockedBy # w
         \/ /\ row[n].status = "processing" /\ r.lockedBy = NoWorker /\ ~r.aged
            /\ IF worker[w].delivered THEN r.status = "sent"
               ELSE r.status \in {"failed", "pending"}
  <2>1. row' = [row EXCEPT ![n] = IF Owns(w, n)
                  THEN Settled(row[n], worker[w].delivered, worker[w].attempts) ELSE row[n]]
    BY DEF Record
  <2>2. CASE Owns(w, n)
    <3> DEFINE s == Settled(row[n], worker[w].delivered, worker[w].attempts)
    <3>1. /\ s \in OutboxRow /\ s.lockedBy = NoWorker /\ ~s.aged
          /\ IF worker[w].delivered THEN s.status = "sent"
             ELSE s.status \in {"failed", "pending"}
      BY <1>2, UnlockedRow DEF Settled
    <3>2. row[n].status = "processing"
      BY <1>1, <2>2, OutboxAssumption DEF Owns, OutboxInv, LocksInv
    <3> HIDE DEF s, n
    <3> QED
      BY <1>1, <1>2, <2>1, <2>2, <3>1, <3>2 DEF s
  <2>3. CASE ~Owns(w, n)
    BY <1>1, <1>2, <2>1, <2>3 DEF Owns
  <2> QED
    BY <2>2, <2>3
<1>4. /\ AtStage(stage) \in Hand /\ AtStage(stage).notice = NoNotice
      /\ \A m \in Notice : ~Open(AtStage(stage), m) /\ NoNotice # m
  BY <1>1, IdleHand
<1>5. /\ worker' \in [Worker -> Hand] /\ worker'[w] = AtStage(stage)
      /\ \A v \in Worker : v # w => worker'[v] = worker[v]
  BY <1>1, <1>2, <1>4
<1>6. OutboxTypes'
  BY <1>1, <1>3, <1>5 DEF OutboxInv, OutboxTypes
<1>7. \A m \in Notice : row'[m].lockedBy # NoWorker \/ row'[m].aged => row'[m].status = "processing"
  BY <1>3 DEF OutboxInv, LocksInv
<1>8. worker[w].delivered => accepted[n] > 0
  BY <1>1 DEF OutboxInv, SentInv
<1>9. \A m \in Notice : row'[m].status = "sent" => row[m].status = "sent" \/ accepted[m] > 0
  BY <1>3, <1>8
<1>10. \A m \in Product : changes[m] = 0 => m # n
  BY DEF OutboxInv, ConsentInv
<1>11. \A m \in Product : m \in Notice
  BY DEF Notice
<1>12. Cardinality(Senders(worker', n)) + Chance(r, worker', n) + faults[n]
        <= Cardinality(Senders(worker, n)) + Chance(row[n], worker, n) + faults'[n]
  <2>1. /\ Cardinality(Senders(worker, n)) \in Nat /\ Cardinality(Senders(worker', n)) \in Nat
        /\ Cardinality(Senders(worker', n)) =
             IF worker[w].delivered THEN Cardinality(Senders(worker, n))
             ELSE Cardinality(Senders(worker, n)) - 1
    <3>1. IsFiniteSet(Senders(worker, n))
      BY <1>1 DEF OutboxInv, ChancesInv
    <3>2. ~Open(worker'[w], n) /\ (Open(worker[w], n) <=> ~worker[w].delivered)
      BY <1>1, <1>4, <1>5 DEF Open
    <3>3. \A v \in Worker : v # w => worker'[v] = worker[v]
      BY <1>5
    <3> HIDE DEF n, stage
    <3>4. /\ Cardinality(Senders(worker, n)) \in Nat
          /\ Cardinality(Senders(worker', n)) \in Nat
          /\ Cardinality(Senders(worker', n)) =
               IF Open(worker[w], n) THEN Cardinality(Senders(worker, n)) - 1
               ELSE Cardinality(Senders(worker, n))
      BY <3>1, <3>2, <3>3, SenderGone
    <3> QED
      BY <3>2, <3>4
  <2>2. Chance(row[n], worker, n) \in {0, 1} /\ Chance(r, worker', n) \in {0, 1}
    BY ChanceType
  <2>3. \/ Chance(r, worker', n) <= Chance(row[n], worker, n)
        \/ ~worker[w].delivered
    <3>1. CASE r = row[n] /\ row[n].lockedBy # w
      <4>1. Held(r, worker', n) <=> Held(row[n], worker, n)
        BY <1>1, <1>4, <1>5, <3>1 DEF Held
      <4>2. Loose(r, worker', n) <=> Loose(row[n], worker, n)
        BY <3>1, <4>1 DEF Loose
      <4> QED
        BY <4>2, ChanceType DEF Chance
    <3>2. CASE r.status = "sent"
      BY <3>2, <2>2 DEF Loose, Chance
    <3> QED
      BY <1>3, <3>1, <3>2
  <2>4. faults' = faults /\ faults[n] \in Nat
    BY <1>1, <1>2
  <2> DEFINE size == Cardinality(Senders(worker, n))
             chance == Chance(row[n], worker, n)
             size2 == Cardinality(Senders(worker', n))
             chance2 == Chance(r, worker', n)
             told == worker[w].delivered
  <2>5. /\ size \in Nat /\ size2 \in Nat /\ chance \in {0, 1} /\ chance2 \in {0, 1}
        /\ size2 = (IF told THEN size ELSE size - 1)
        /\ chance2 <= chance \/ ~told
    BY <2>1, <2>2, <2>3
  <2> HIDE DEF size, size2, chance, chance2, told, n
  <2>6. size2 + chance2 + faults[n] <= size + chance + faults[n]
    BY <2>4, <2>5
  <2> QED
    BY <2>4, <2>6 DEF size, size2, chance, chance2
<1> HIDE DEF r, stage
<1>13. \A m \in Product : changes'[m] = 0 =>
         changes[m] = 0 /\ productEmail'[m] = productEmail[m] /\ row'[m] = row[m]
  BY <1>1, <1>3, <1>10, <1>11
<1> QED
  BY <1>1, <1>3, <1>5, <1>6, <1>7, <1>9, <1>12, <1>13, HandsOff DEF r

-----------------------------------------------------------------------------
LEMMA OutboxStep == OutboxInv /\ [Next]_vars => OutboxInv'
<1> SUFFICES ASSUME OutboxInv, [Next]_vars PROVE OutboxInv'
  OBVIOUS
<1>1. ASSUME NEW n \in Notice, Enqueue(n) \/ FallDue(n) \/ AgeLock(n) \/ AgeLockOfSlowWorker(n)
      PROVE  OutboxInv'
  BY <1>1, EnqueueStep, FallDueStep, AgeStep
<1>2. ASSUME NEW n \in Product, NEW choice \in BOOLEAN, SaveProductEmail(n, choice)
      PROVE  OutboxInv'
  BY <1>2, SaveStep
<1>3. ASSUME NEW w \in Worker, WorkerStep(w) \/ Abandon(w)
      PROVE  OutboxInv'
  <2>1. CASE RecoverStaleLocks(w) \/ SuppressProductNotifications(w)
    BY <2>1, SweepStep
  <2>2. CASE ClaimNotification(w)
    <3>1. worker[w].stage \notin Busy /\ Transactional \cup Product \in SUBSET Notice
      BY <2>2 DEF ClaimNotification, Busy, Notice
    <3>2. CASE ClaimFrom(w, Transactional \cup Product)
      BY <3>1, <3>2, ClaimStep
    <3>3. CASE Skip(w, Transactional \cup Product, "support")
      BY <3>1, <3>3, SkipStep
    <3> QED
      BY <2>2, <3>2, <3>3 DEF ClaimNotification
  <2>3. CASE ClaimSupportNotification(w)
    <3>1. worker[w].stage \notin Busy /\ Support \in SUBSET Notice
      BY <2>3 DEF ClaimSupportNotification, Busy, Notice
    <3>2. CASE ClaimFrom(w, Support)
      BY <3>1, <3>2, ClaimStep
    <3>3. CASE Skip(w, Support, "recover")
      BY <3>1, <3>3, SkipStep
    <3> QED
      BY <2>3, <3>2, <3>3 DEF ClaimSupportNotification
  <2>4. CASE Send(w) \/ Record(w) \/ Abandon(w)
    BY <2>4, SendStep, RecordStep, AbandonStep
  <2> QED
    BY <1>3, <2>1, <2>2, <2>3, <2>4 DEF WorkerStep
<1>4. CASE UNCHANGED vars
  BY <1>4 DEF vars, OutboxInv, OutboxTypes, LocksInv, ConsentInv, SentInv, ChancesInv
<1> QED
  BY <1>1, <1>2, <1>3, <1>4 DEF Next

LEMMA OutboxAlways == Spec => []OutboxInv
BY OutboxStarts, OutboxStep, PTL DEF Spec

(* Product mail to a member who never opted in is not handed to a provider, *)
(* however many workers race with the preference.                           *)
THEOREM ConsentIsRespected == Spec => []ConsentRespected
<1>1. OutboxInv => ConsentRespected
  BY DEF OutboxInv, ConsentInv, ConsentRespected
<1> QED
  BY <1>1, OutboxAlways, PTL

(* A notice is sent only if the provider took it, and the provider took it  *)
(* once more at most than the faults that the notice met: each lease that   *)
(* is claimed, sent, recorded, abandoned or lost keeps that account.        *)
THEOREM DeliveriesAreExplained == Spec => []DeliveriesExplained
<1>1. ASSUME OutboxInv, NEW n \in Notice PROVE accepted[n] <= 1 + faults[n]
  <2>1. /\ IsFiniteSet(Senders(worker, n))
        /\ accepted[n] + Cardinality(Senders(worker, n)) + Chance(row[n], worker, n)
             <= 1 + faults[n]
    BY <1>1 DEF OutboxInv, ChancesInv
  <2>2. /\ Cardinality(Senders(worker, n)) \in Nat /\ Chance(row[n], worker, n) \in {0, 1}
        /\ accepted[n] \in Nat /\ faults[n] \in Nat
    BY <1>1, <2>1, FS_CardinalityType, ChanceType DEF OutboxInv, OutboxTypes
  <2> QED
    BY <2>1, <2>2
<1>2. OutboxInv => DeliveriesExplained
  BY <1>1 DEF DeliveriesExplained, OutboxInv, SentInv
<1> QED
  BY <1>2, OutboxAlways, PTL

(* A row that was sent, given up or suppressed is never claimed, recovered  *)
(* or settled again: a late worker does not own it any more.                *)
THEOREM OutcomesAreFinal == Spec => OutcomeIsFinal
<1>1. ASSUME OutboxInv, [Next]_vars, NEW n \in Notice, row[n].status \in Final
      PROVE  row'[n].status = row[n].status
  <2>0. /\ row \in [Notice -> OutboxRow] /\ row[n].status \in {"sent", "failed", "suppressed"}
        /\ row[n].lockedBy = NoWorker
    BY <1>1 DEF OutboxInv, OutboxTypes, LocksInv, Final
  <2>1. ASSUME NEW m \in Notice, Enqueue(m) \/ FallDue(m) \/ AgeLock(m) \/ AgeLockOfSlowWorker(m)
        PROVE  row'[n] = row[n]
    <3>1. m # n
      BY <2>0, <2>1 DEF Enqueue, FallDue, AgeLock, AgeLockOfSlowWorker
    <3> QED
      BY <2>0, <2>1, <3>1 DEF Enqueue, FallDue, AgeLock, AgeLockOfSlowWorker
  <2>2. ASSUME NEW m \in Product, NEW choice \in BOOLEAN, SaveProductEmail(m, choice)
        PROVE  row'[n] = row[n]
    BY <2>2 DEF SaveProductEmail
  <2>3. ASSUME NEW w \in Worker, WorkerStep(w) \/ Abandon(w)
        PROVE  row'[n] = row[n]
    <3>1. CASE RecoverStaleLocks(w)
      BY <2>0, <3>1 DEF RecoverStaleLocks, Stale
    <3>2. CASE SuppressProductNotifications(w)
      BY <2>0, <3>2 DEF SuppressProductNotifications, Unwanted
    <3>3. ASSUME NEW N \in SUBSET Notice, ClaimFrom(w, N) PROVE row'[n] = row[n]
      BY <2>0, <3>3 DEF ClaimFrom, Deliverable
    <3>4. ASSUME NEW N \in SUBSET Notice, NEW stage, Skip(w, N, stage) PROVE row'[n] = row[n]
      BY <3>4 DEF Skip
    <3>5. CASE ClaimNotification(w) \/ ClaimSupportNotification(w)
      <4>1. Transactional \cup Product \in SUBSET Notice /\ Support \in SUBSET Notice
        BY DEF Notice
      <4> QED
        BY <3>3, <3>4, <3>5, <4>1 DEF ClaimNotification, ClaimSupportNotification
    <3>6. CASE Send(w) \/ Abandon(w)
      BY <3>6 DEF Send, Abandon
    <3>7. CASE Record(w)
      <4>1. ~Owns(w, n)
        BY <2>0, OutboxAssumption DEF Owns
      <4> QED
        BY <2>0, <3>7, <4>1 DEF Record
    <3> QED
      BY <2>3, <3>1, <3>2, <3>5, <3>6, <3>7 DEF WorkerStep
  <2>4. CASE UNCHANGED vars
    BY <2>4 DEF vars
  <2> QED
    BY <1>1, <2>1, <2>2, <2>3, <2>4 DEF Next
<1>2. OutboxInv /\ [Next]_vars =>
        [\A n \in Notice : row[n].status \in Final => row'[n].status = row[n].status]_vars
  BY <1>1
<1> QED
  BY <1>2, OutboxAlways, PTL DEF Spec, OutcomeIsFinal
=============================================================================
