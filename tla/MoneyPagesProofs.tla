-------------------------- MODULE MoneyPagesProofs --------------------------
(* Proofs about MoneyPages, for any number of quotes, keys, requests,      *)
(* claims and redemptions.  The scenes share no row, so the invariants of  *)
(* the sandbox transfers, of the send page and of the claims are proved    *)
(* apart.                                                                  *)
EXTENDS MoneyPages, SumLemmas

-----------------------------------------------------------------------------
(* Transfers: the inductive invariant. *)

QuoteRow == [status : {"none", "active", "lapsed", "consumed"}, amount : Nat]
TransferRow == [quote : Quote \cup {NoQuote}, amount : Nat, fee : Int, created : Nat,
                kind : {"none", "direct"}]
RequestRow == [pc : {"idle", "lockQuote", "gate", "settle"}, key : Key \cup {NoKey},
               quote : Quote \cup {NoQuote}, began : Nat, review : BOOLEAN]
TransferTypes ==
  /\ balance \in Int /\ posted \in [{"wallet", "settlement", "fees"} -> Int]
  /\ quote \in [Quote -> QuoteRow] /\ transfer \in [Key -> TransferRow]
  /\ request \in [Request -> RequestRow] /\ now \in Nat

Direct == Done({"direct"})

(* Rows that were not written are empty, and so are requests that ended;   *)
(* there are only finitely many transfers.                                 *)
RowsInv ==
  /\ \A k \in Key : transfer[k].kind = "none" => transfer[k] = NoTransfer
  /\ \A r \in Request : IF request[r].pc = "idle" THEN request[r] = Idle
                        ELSE request[r].key \in Key /\ request[r].quote \in Quote
  /\ IsFiniteSet(Direct)

(* The row lock of a quote and the advisory lock are held by one request;  *)
(* the quote that is held was not consumed.                                *)
LocksInv ==
  /\ \A r, o \in Request, q \in Quote : HoldsQuote(r, q) /\ HoldsQuote(o, q) => r = o
  /\ \A r, o \in Request : HoldsAdvisory(r) /\ HoldsAdvisory(o) => r = o
  /\ \A r \in Request, q \in Quote : HoldsQuote(r, q) => quote[q].status \in {"active", "lapsed"}

(* A transfer consumed its quote, and a consumed quote has one transfer.   *)
QuotesInv ==
  /\ \A k \in Direct : /\ transfer[k].quote \in Quote
                       /\ quote[transfer[k].quote].status = "consumed"
                       /\ transfer[k].amount = quote[transfer[k].quote].amount
  /\ \A k, l \in Direct : transfer[k].quote = transfer[l].quote => k = l
  /\ \A q \in Quote : quote[q].status = "consumed" => \E k \in Direct : transfer[k].quote = q

(* What the ledger posted is what the transfers say. *)
LedgerInv ==
  /\ balance >= 0 /\ balance = Opening + posted["wallet"]
  /\ posted["settlement"] = AmountsOf(transfer, Direct)
  /\ posted["fees"] = FeesOf(transfer, Direct)
  /\ posted["wallet"] + posted["settlement"] + posted["fees"] = 0

(* A request that passed the gate without a review is still below the      *)
(* thresholds, since nobody else settles while it holds the advisory lock; *)
(* with enforcement nobody passes it with one.                             *)
Since(table, start) ==
  {k \in Key : table[k].kind # "none" /\ table[k].created >= start}
BelowLimits(table, began, amount) ==
  /\ Cardinality(Since(table, began - Hour)) + 1 < MaxCount
  /\ AmountsOf(table, Since(table, began - Day)) + amount < MaxAmount
PassedGate(row, table, quotes, on) ==
  row.pc = "settle" =>
    /\ on => ~ row.review
    /\ ~ row.review => BelowLimits(table, row.began, quotes[row.quote].amount)
GateInv == \A r \in Request : PassedGate(request[r], transfer, quote, enforced)

(* The thresholds of a set of transfers, in every window. *)
Safe(table, keys) ==
  \A start \in 0..MaxTime :
    /\ Cardinality({k \in keys : table[k].created \in start..(start + Hour)}) < MaxCount
    /\ AmountsOf(table, {k \in keys : table[k].created \in start..(start + Day)}) < MaxAmount
Counted == Direct \ (IF enforced THEN {} ELSE reviewed)
SafeInv == Safe(transfer, Counted)

TransfersInv ==
  TransferTypes /\ RowsInv /\ LocksInv /\ QuotesInv /\ LedgerInv /\ GateInv /\ SafeInv

-----------------------------------------------------------------------------
(* The send page: the inductive invariant. *)

PageRow == [typed : Typed, shown : Quote \cup {NoQuote}, named : BOOLEAN,
            call : [kind : {"none", "quote", "transfer"}, amount : Nat,
                    request : Request \cup {"none"}, key : Key \cup {NoKey}],
            answer : {"none", "done", "refused", "lost"},
            confirmed : [key : Key \cup {NoKey}, quote : Quote \cup {NoQuote}],
            used : SUBSET Key, allowed : BOOLEAN]

(* Every request of the page has a key of its own, which it alone uses;    *)
(* the one that is awaited is the one that was confirmed last.             *)
PageInv ==
  /\ sending \in PageRow
  /\ \A r \in Request : request[r].pc # "idle" =>
       /\ request[r].key \in sending.used
       /\ transfer[request[r].key] = NoTransfer
  /\ \A r, o \in Request : request[r].pc # "idle" /\ request[o].pc # "idle"
                             /\ request[r].key = request[o].key => r = o
  /\ sending.call.request # "none" =>
       LET r == sending.call.request
       IN /\ request[r].pc # "idle" /\ sending.answer = "none"
          /\ request[r].key = sending.call.key /\ request[r].quote = sending.confirmed.quote
          /\ sending.confirmed.key = sending.call.key
  /\ sending.answer \in {"done", "refused"} => sending.confirmed.key \in sending.used
  /\ sending.answer = "refused" =>
       \A r \in Request : request[r].pc # "idle" => request[r].key # sending.confirmed.key
  /\ AnswersAreTrue

SendInv == IF scene = "send" THEN PageInv ELSE sending.answer = "none"

-----------------------------------------------------------------------------
(* Claims: the inductive invariant. *)

ClaimRow == [status : {"none", "active", "redeemed", "expired", "locked"},
             transfer : PaidTransfer \cup {NoPaidTransfer}, fails : Nat,
             key : RedeemKey \cup {NoRedeemKey}]
CreationRow == [pc : {"idle", "lock", "expire", "checkRedeemed", "checkActive", "insert"},
                transfer : PaidTransfer \cup {NoPaidTransfer},
                now : SUBSET Claim, expired : SUBSET Claim]
ClaimTypes ==
  /\ claim \in [Claim -> ClaimRow] /\ creation \in [Creation -> CreationRow]
  /\ lapsed \subseteq Claim /\ answered \in [Claim -> SUBSET RedeemKey]

(* A transfer is held by one creation, which expires only active claims of *)
(* that transfer.                                                          *)
CreationInv ==
  /\ \A r \in Creation : creation[r].pc = "idle" => creation[r] = NotCreating
  /\ \A r, q \in Creation, t \in PaidTransfer :
       HoldsTransfer(r, t) /\ HoldsTransfer(q, t) => r = q
  /\ \A r \in Creation :
       /\ creation[r].pc # "idle" => creation[r].transfer \in PaidTransfer
       /\ creation[r].pc = "lock" => creation[r].expired = {}
       /\ creation[r].expired \subseteq With("active", creation[r].transfer)

ClaimsInv ==
  /\ ClaimTypes /\ CreationInv /\ SingleUse
  /\ \A c \in Claim : claim[c].status # "none" => claim[c].transfer \in PaidTransfer
  /\ \A c \in Claim : \A k \in answered[c] : claim[c].status = "redeemed" /\ claim[c].key = k

-----------------------------------------------------------------------------
(* The thresholds: of fewer transfers, and of one more. *)

LEMMA SafePart ==
  ASSUME NEW keys, IsFiniteSet(keys), NEW part \in SUBSET keys, NEW table, NEW new,
         \A k \in part : new[k] = table[k],
         \A k \in keys : table[k].amount \in Nat,
         Safe(table, keys)
  PROVE  Safe(new, part)
<1> SUFFICES ASSUME NEW start \in 0..MaxTime
             PROVE  /\ Cardinality({k \in part : new[k].created \in start..(start + Hour)}) < MaxCount
                    /\ AmountsOf(new, {k \in part : new[k].created \in start..(start + Day)}) < MaxAmount
  BY DEF Safe
<1> DEFINE In(t, K, w) == {k \in K : t[k].created \in start..(start + w)}
<1>1. \A w : In(new, part, w) = In(table, part, w) /\ In(table, part, w) \in SUBSET In(table, keys, w)
  OBVIOUS
<1>2. \A w : IsFiniteSet(In(table, keys, w))  BY FS_Subset
<1>3. Cardinality(In(table, keys, Hour)) < MaxCount /\ AmountsOf(table, In(table, keys, Day)) < MaxAmount
  BY DEF Safe
<1>4. /\ \A w : IsFiniteSet(In(table, part, w)) /\ \A k \in In(table, part, w) : new[k] = table[k]
      /\ \A k \in In(table, keys, Day) : table[k].amount \in Nat
  BY FS_Subset
<1> HIDE DEF In
<1>5. Cardinality(In(table, part, Hour)) <= Cardinality(In(table, keys, Hour))
      /\ Cardinality(In(table, part, Hour)) \in Nat /\ Cardinality(In(table, keys, Hour)) \in Nat
  BY <1>1, <1>2, <1>4, FS_Subset, FS_CardinalityType
<1>6. AmountsOf(new, In(table, part, Day)) = AmountsOf(table, In(table, part, Day))
  BY <1>4, AmountsSame
<1>7. /\ AmountsOf(table, In(table, part, Day)) <= AmountsOf(table, In(table, keys, Day))
      /\ AmountsOf(table, In(table, part, Day)) \in Nat /\ AmountsOf(table, In(table, keys, Day)) \in Nat
  BY <1>1, <1>2, <1>4, AmountsOfPart
<1>8. /\ Cardinality(In(new, part, Hour)) < MaxCount
      /\ AmountsOf(new, In(new, part, Day)) < MaxAmount
  BY <1>1, <1>3, <1>5, <1>6, <1>7, TransfersAssumption
<1> QED  BY <1>8 DEF In

LEMMA SafeMore ==
  ASSUME NEW keys \in SUBSET Key, NEW k \in Key, k \notin keys, NEW table, NEW new,
         \A j \in keys : new[j] = table[j],
         \A j \in keys : table[j].kind # "none" /\ table[j].created \in Nat,
         \A j \in Key : table[j].amount \in Nat,
         IsFiniteSet({j \in Key : table[j].kind # "none"}),
         new[k].created \in Nat, new[k].amount \in Nat,
         BelowLimits(table, new[k].created, new[k].amount),
         Safe(table, keys)
  PROVE  Safe(new, keys \cup {k})
<1> SUFFICES ASSUME NEW start \in 0..MaxTime
             PROVE  /\ Cardinality({j \in keys \cup {k} : new[j].created \in start..(start + Hour)}) < MaxCount
                    /\ AmountsOf(new, {j \in keys \cup {k} : new[j].created \in start..(start + Day)}) < MaxAmount
  BY DEF Safe
<1> DEFINE In(t, K, w) == {j \in K : t[j].created \in start..(start + w)}
           made == {j \in Key : table[j].kind # "none"}
           began == new[k].created
<1>1. /\ \A w : IsFiniteSet(In(table, keys, w))
      /\ \A w : IsFiniteSet(Since(table, began - w))
  BY FS_Subset DEF Since
<1>2. Cardinality(In(table, keys, Hour)) < MaxCount /\ AmountsOf(table, In(table, keys, Day)) < MaxAmount
  BY DEF Safe
<1>3. /\ \A w : \A j \in In(table, keys, w) : new[j] = table[j]
      /\ \A w : k \notin In(table, keys, w)
      /\ \A j \in In(table, keys, Day) : table[j].amount \in Nat
      /\ \A j \in Since(table, began - Day) : table[j].amount \in Nat
  BY DEF Since
<1>4. ASSUME NEW w \in Nat
      PROVE  \/ In(new, keys \cup {k}, w) = In(table, keys, w)
             \/ /\ In(new, keys \cup {k}, w) = In(table, keys, w) \cup {k}
                /\ In(table, keys, w) \subseteq Since(table, began - w)
  <2>1. CASE began \notin start..(start + w)  BY <2>1
  <2>2. CASE began \in start..(start + w)
    <3>1. In(new, keys \cup {k}, w) = In(table, keys, w) \cup {k}  BY <2>2
    <3>2. start >= began - w /\ start \in Nat  BY <2>2
    <3>3. \A j \in In(table, keys, w) : table[j].created >= began - w
      BY <3>2
    <3> QED  BY <3>1, <3>3 DEF Since
  <2> QED  BY <2>1, <2>2
<1>5. Hour \in Nat /\ Day \in Nat /\ MaxCount \in Nat /\ MaxAmount \in Nat
  BY TransfersAssumption
<1> HIDE DEF In
<1> DEFINE H == In(table, keys, Hour)
           D == In(table, keys, Day)
           Late(w) == /\ In(new, keys \cup {k}, w) = In(table, keys, w) \cup {k}
                      /\ In(table, keys, w) \subseteq Since(table, began - w)
<1>a. In(new, keys \cup {k}, Hour) = H \/ Late(Hour)  BY <1>4, <1>5
<1>b. In(new, keys \cup {k}, Day) = D \/ Late(Day)  BY <1>4, <1>5
<1>6. Cardinality(In(new, keys \cup {k}, Hour)) < MaxCount
  <2>1. CASE In(new, keys \cup {k}, Hour) = H  BY <1>2, <2>1
  <2>2. CASE Late(Hour)
    <3>1. Cardinality(H \cup {k}) = Cardinality(H) + 1
      BY <1>1, <1>3, FS_AddElement
    <3>2. /\ Cardinality(H) <= Cardinality(Since(table, began - Hour))
          /\ Cardinality(H) \in Nat
          /\ Cardinality(Since(table, began - Hour)) \in Nat
      BY <1>1, <2>2, FS_Subset, FS_CardinalityType
    <3>3. Cardinality(Since(table, began - Hour)) + 1 < MaxCount  BY DEF BelowLimits
    <3>4. In(new, keys \cup {k}, Hour) = H \cup {k}  BY <2>2
    <3>5. Cardinality(In(new, keys \cup {k}, Hour)) = Cardinality(H) + 1  BY <3>1, <3>4
    <3> HIDE DEF H, Late, began
    <3> QED  BY <1>5, <3>2, <3>3, <3>5
  <2> QED  BY <1>a, <2>1, <2>2
<1>7. AmountsOf(new, In(new, keys \cup {k}, Day)) < MaxAmount
  <2>1. CASE In(new, keys \cup {k}, Day) = D
    <3>1. AmountsOf(new, D) = AmountsOf(table, D)
      BY <1>1, <1>3, AmountsSame
    <3> QED  BY <1>2, <2>1, <3>1
  <2>2. CASE Late(Day)
    <3>1. AmountsOf(new, D \cup {k})
            = AmountsOf(table, D) + new[k].amount
      <4>1. \A j \in D : table[j].amount \in Int  BY <1>3
      <4>2. IsFiniteSet(D) /\ k \notin D /\ \A j \in D : new[j] = table[j]  BY <1>1, <1>3
      <4>3. new[k].amount \in Int  OBVIOUS
      <4> HIDE DEF D
      <4> QED  BY <4>1, <4>2, <4>3, AmountsGrow
    <3>2. /\ AmountsOf(table, D) <= AmountsOf(table, Since(table, began - Day))
          /\ AmountsOf(table, D) \in Nat
          /\ AmountsOf(table, Since(table, began - Day)) \in Nat
      BY <1>1, <1>3, <2>2, AmountsOfPart
    <3>3. AmountsOf(table, Since(table, began - Day)) + new[k].amount < MaxAmount
      BY DEF BelowLimits
    <3>4. In(new, keys \cup {k}, Day) = D \cup {k}  BY <2>2
    <3>5. AmountsOf(new, In(new, keys \cup {k}, Day)) = AmountsOf(table, D) + new[k].amount  BY <3>1, <3>4
    <3> HIDE DEF D, Late, began
    <3> QED  BY <1>5, <3>2, <3>3, <3>5
  <2> QED  BY <1>b, <2>1, <2>2
<1> QED  BY <1>6, <1>7 DEF In

-----------------------------------------------------------------------------
(* Transfers: what only a request, the clock or a quote changes. *)

TableUnchanged == UNCHANGED <<balance, posted, transfer, enforced>>

(* The transfers on record stay within the thresholds when none is added   *)
(* and more of them are reviewed.                                          *)
LEMMA SafeStays ==
  ASSUME TransferTypes, RowsInv, SafeInv, UNCHANGED <<transfer, enforced>>,
         reviewed \subseteq reviewed'
  PROVE  SafeInv'
<1>1. Counted' \in SUBSET Counted /\ IsFiniteSet(Counted)
  <2>1. Direct' = Direct  BY DEF Direct, Done
  <2>2. IsFiniteSet(Direct)  BY DEF RowsInv
  <2>3. Counted \subseteq Direct  BY DEF Counted
  <2>4. IsFiniteSet(Counted)  BY <2>2, <2>3, FS_Subset
  <2> QED  BY <2>1, <2>4 DEF Counted
<1>2. \A k \in Counted : transfer[k].amount \in Nat
  BY DEF TransferTypes, TransferRow, Counted, Direct, Done
<1>3. Safe(transfer, Counted)  BY DEF SafeInv
<1>4. Safe(transfer, Counted')  BY <1>1, <1>2, <1>3, SafePart
<1> QED  BY <1>4 DEF SafeInv

LEMMA LedgerStays ==
  ASSUME LedgerInv, TableUnchanged
  PROVE  LedgerInv'
<1>1. Direct' = Direct  BY DEF TableUnchanged, Direct, Done
<1> QED  BY <1>1 DEF TableUnchanged, LedgerInv

(* A request that moves on: to the lock of its quote, through the gate, or *)
(* to its end.                                                             *)
Moves(r, row) ==
  /\ row \in RequestRow
  /\ IF row.pc = "idle" THEN row = Idle ELSE row.key \in Key /\ row.quote \in Quote
  /\ row.pc \in {"gate", "settle"} =>
       /\ quote[row.quote].status \in {"active", "lapsed"}
       /\ \A o \in Request : HoldsQuote(o, row.quote) => o = r
  /\ row.pc = "settle" => \A o \in Request : HoldsAdvisory(o) => o = r
  /\ PassedGate(row, transfer, quote, enforced)

LEMMA RequestMoves ==
  ASSUME TransfersInv, NEW r \in Request, NEW row, Moves(r, row),
         request' = [request EXCEPT ![r] = row],
         TableUnchanged, UNCHANGED <<quote, now>>, reviewed \subseteq reviewed'
  PROVE  TransfersInv'
<1>1. \A o \in Request : request'[o] = IF o = r THEN row ELSE request[o]
  BY DEF TransfersInv, TransferTypes
<1>2. TransferTypes'  BY DEF TransfersInv, TransferTypes, Moves, TableUnchanged
<1>3. Direct' = Direct  BY DEF TableUnchanged, Direct, Done
<1>4. RowsInv'
  BY <1>1, <1>3 DEF TransfersInv, RowsInv, Moves, TableUnchanged
<1>5. LocksInv'
  <2>1. ASSUME NEW a \in Request, NEW b \in Request, NEW q \in Quote,
               HoldsQuote(a, q)', HoldsQuote(b, q)'
        PROVE  a = b
    BY <1>1, <2>1 DEF TransfersInv, LocksInv, Moves, HoldsQuote
  <2>2. ASSUME NEW a \in Request, NEW b \in Request, HoldsAdvisory(a)', HoldsAdvisory(b)'
        PROVE  a = b
    BY <1>1, <2>2 DEF TransfersInv, LocksInv, Moves, HoldsAdvisory
  <2>3. ASSUME NEW a \in Request, NEW q \in Quote, HoldsQuote(a, q)'
        PROVE  quote'[q].status \in {"active", "lapsed"}
    BY <1>1, <2>3 DEF TransfersInv, LocksInv, Moves, HoldsQuote
  <2> QED  BY <2>1, <2>2, <2>3 DEF LocksInv
<1>6. QuotesInv'  BY <1>3 DEF TransfersInv, QuotesInv, TableUnchanged
<1>7. LedgerInv'  BY LedgerStays DEF TransfersInv
<1>8. GateInv'
  BY <1>1 DEF TransfersInv, GateInv, Moves, TableUnchanged
<1>9. SafeInv'  BY SafeStays DEF TransfersInv, TableUnchanged
<1> QED  BY <1>2, <1>4, <1>5, <1>6, <1>7, <1>8, <1>9 DEF TransfersInv

(* A quote that is made or lapses. *)
LEMMA QuoteMoves ==
  ASSUME TransfersInv, NEW q \in Quote, NEW row \in QuoteRow,
         quote' = [quote EXCEPT ![q] = row],
         \/ quote[q].status = "none" /\ row.status = "active"
         \/ /\ quote[q].status = "active" /\ row.status = "lapsed"
            /\ row.amount = quote[q].amount,
         TableUnchanged, UNCHANGED <<request, reviewed, now>>
  PROVE  TransfersInv'
<1>1. \A p \in Quote : quote'[p] = IF p = q THEN row ELSE quote[p]
  BY DEF TransfersInv, TransferTypes
<1>2. TransferTypes'  BY DEF TransfersInv, TransferTypes, TableUnchanged
<1>3. Direct' = Direct  BY DEF TableUnchanged, Direct, Done
<1>4. RowsInv'
  BY <1>3 DEF TransfersInv, RowsInv, TableUnchanged
<1>5. LocksInv'
  BY <1>1 DEF TransfersInv, LocksInv, HoldsQuote, HoldsAdvisory
<1>6. QuotesInv'
  <2>1. \A p \in Quote : quote'[p].status = "consumed" <=> quote[p].status = "consumed"
    BY <1>1
  <2>2. \A k \in Direct : quote'[transfer[k].quote] = quote[transfer[k].quote]
    BY <1>1 DEF TransfersInv, QuotesInv
  <2> QED  BY <1>3, <2>1, <2>2 DEF TransfersInv, QuotesInv, TableUnchanged
<1>7. LedgerInv'  BY LedgerStays DEF TransfersInv
<1>8. GateInv'
  <2>1. ASSUME NEW r \in Request, request[r].pc = "settle"
        PROVE  quote'[request[r].quote].amount = quote[request[r].quote].amount
    <3>1. HoldsQuote(r, request[r].quote) /\ request[r].quote \in Quote
      BY <2>1 DEF TransfersInv, RowsInv, HoldsQuote
    <3>2. quote[request[r].quote].status \in {"active", "lapsed"}
      BY <3>1 DEF TransfersInv, LocksInv
    <3> QED  BY <1>1, <3>1, <3>2
  <2> QED  BY <2>1 DEF TransfersInv, GateInv, PassedGate, TableUnchanged
<1>9. SafeInv'  BY SafeStays DEF TransfersInv, TableUnchanged
<1> QED  BY <1>2, <1>4, <1>5, <1>6, <1>7, <1>8, <1>9 DEF TransfersInv

(* The clock and the screening. *)
LEMMA ClockMoves ==
  ASSUME TransfersInv, TableUnchanged, UNCHANGED <<quote, request, reviewed>>, now' \in Nat
  PROVE  TransfersInv'
<1>1. Direct' = Direct  BY DEF TableUnchanged, Direct, Done
<1>2. TransferTypes'  BY DEF TransfersInv, TransferTypes, TableUnchanged
<1>3. RowsInv' /\ LocksInv' /\ QuotesInv' /\ GateInv'
  BY <1>1 DEF TransfersInv, RowsInv, LocksInv, QuotesInv, GateInv, HoldsQuote,
              HoldsAdvisory, TableUnchanged
<1>4. LedgerInv'  BY LedgerStays DEF TransfersInv
<1>5. SafeInv'  BY SafeStays DEF TransfersInv, TableUnchanged
<1> QED  BY <1>2, <1>3, <1>4, <1>5 DEF TransfersInv

-----------------------------------------------------------------------------
(* The steps of a request before it settles. *)

LEMMA BeginStep ==
  ASSUME TransfersInv, NEW r \in Request, NEW k \in Key, NEW q \in Quote, Begin(r, k, q)
  PROVE  TransfersInv'
<1> DEFINE row == [pc |-> "lockQuote", key |-> k, quote |-> q, began |-> now, review |-> FALSE]
<1>1. Moves(r, row)
  BY DEF Moves, RequestRow, PassedGate, TransfersInv, TransferTypes
<1>2. request' = [request EXCEPT ![r] = row] /\ TableUnchanged /\ UNCHANGED <<quote, now, reviewed>>
  BY DEF Begin, TableUnchanged
<1> HIDE DEF row
<1> QED  BY <1>1, <1>2, RequestMoves

LEMMA EndsMoves ==
  ASSUME TransfersInv, NEW r \in Request
  PROVE  Moves(r, Idle)
BY DEF Moves, Idle, RequestRow, PassedGate

LEMMA LockQuoteStep ==
  ASSUME TransfersInv, NEW r \in Request, LockQuote(r)
  PROVE  TransfersInv'
<1> DEFINE row == [request[r] EXCEPT !.pc = "gate"]
           q == request[r].quote
<1>1. TableUnchanged /\ UNCHANGED <<quote, now, reviewed>>  BY DEF LockQuote, TableUnchanged
<1>2. CASE request' = [request EXCEPT ![r].pc = "gate"] /\ quote[q].status = "active"
  <2>1. request[r] \in RequestRow /\ request' = [request EXCEPT ![r] = row]
    BY <1>2 DEF TransfersInv, TransferTypes
  <2>2. request[r].pc = "lockQuote" /\ \A o \in Request : ~ HoldsQuote(o, q)
    BY DEF LockQuote
  <2>3. request[r].key \in Key /\ q \in Quote  BY <2>2 DEF TransfersInv, RowsInv
  <2>4. /\ row \in RequestRow /\ row.pc = "gate" /\ row.quote = q /\ row.key = request[r].key
    BY <2>1 DEF RequestRow
  <2> HIDE DEF row
  <2>5. Moves(r, row)  BY <1>2, <2>2, <2>3, <2>4 DEF Moves, PassedGate
  <2> QED  BY <1>1, <2>1, <2>5, RequestMoves
<1>3. CASE End(r)  BY <1>1, <1>3, EndsMoves, RequestMoves DEF End
<1> QED  BY <1>2, <1>3 DEF LockQuote

(* Below the thresholds, or reviewed. *)
LEMMA GateStep ==
  ASSUME TransfersInv, NEW r \in Request, Gate(r)
  PROVE  TransfersInv'
<1> DEFINE row == [request[r] EXCEPT !.pc = "settle", !.review = Reviewable(r)]
           q == request[r].quote
<1>1. /\ TableUnchanged /\ UNCHANGED <<quote, now>> /\ reviewed \subseteq reviewed'
      /\ request[r].pc = "gate" /\ \A o \in Request : ~ HoldsAdvisory(o)
      /\ request[r] \in RequestRow
  BY DEF Gate, TableUnchanged, TransfersInv, TransferTypes
<1>2. CASE End(r)  BY <1>1, <1>2, EndsMoves, RequestMoves DEF End
<1>3. CASE /\ ~ (enforced /\ (Reviewable(r) \/ ~ screened))
           /\ request' = [request EXCEPT ![r].pc = "settle", ![r].review = Reviewable(r)]
  <2>1. request' = [request EXCEPT ![r] = row]  BY <1>3 DEF TransfersInv, TransferTypes
  <2>2. Reviewable(r) \in BOOLEAN  BY DEF Reviewable
  <2>3. /\ row \in RequestRow /\ row.pc = "settle" /\ row.quote = q
        /\ row.key = request[r].key /\ row.began = request[r].began
        /\ row.review = Reviewable(r)
    BY <1>1, <2>2 DEF RequestRow
  <2>4. /\ request[r].key \in Key /\ q \in Quote /\ HoldsQuote(r, q)
    BY <1>1 DEF TransfersInv, RowsInv, HoldsQuote
  <2>5. /\ quote[q].status \in {"active", "lapsed"} /\ quote[q].amount \in Nat
        /\ \A o \in Request : HoldsQuote(o, q) => o = r
    BY <2>4 DEF TransfersInv, LocksInv, TransferTypes, QuoteRow
  <2>6. /\ Recent(r, Hour) = Since(transfer, request[r].began - Hour)
        /\ Total(Recent(r, Day)) = AmountsOf(transfer, Since(transfer, request[r].began - Day))
    BY DEF Recent, Since, Total, AmountsOf
  <2>7. ~ Reviewable(r) => BelowLimits(transfer, request[r].began, quote[q].amount)
    <3> DEFINE count == Cardinality(Since(transfer, request[r].began - Hour))
               total == AmountsOf(transfer, Since(transfer, request[r].began - Day))
    <3>1. count \in Nat /\ total \in Nat
      <4>1. /\ Since(transfer, request[r].began - Hour) \in SUBSET Direct
            /\ Since(transfer, request[r].began - Day) \in SUBSET Direct
        BY DEF Since, Direct, Done, TransfersInv, TransferTypes, TransferRow
      <4>2. IsFiniteSet(Direct) /\ \A k \in Direct : transfer[k].amount \in Nat
        BY DEF TransfersInv, RowsInv, TransferTypes, TransferRow, Direct, Done
      <4> QED  BY <4>1, <4>2, FS_Subset, FS_CardinalityType, AmountsOfPart
    <3>2. ~ Reviewable(r) => ~ (count + 1 >= MaxCount) /\ ~ (total + quote[q].amount >= MaxAmount)
      BY <2>6 DEF Reviewable
    <3> HIDE DEF count, total
    <3>3. ~ Reviewable(r) => count + 1 < MaxCount /\ total + quote[q].amount < MaxAmount
      BY <2>5, <3>1, <3>2, TransfersAssumption
    <3> QED  BY <3>3 DEF BelowLimits, count, total
  <2> HIDE DEF row, q
  <2>8. PassedGate(row, transfer, quote, enforced)
    BY <1>3, <2>3, <2>7 DEF PassedGate
  <2>9. Moves(r, row)  BY <1>1, <2>3, <2>4, <2>5, <2>8 DEF Moves
  <2> QED  BY <1>1, <2>1, <2>9, RequestMoves
<1> QED  BY <1>2, <1>3 DEF Gate

LEMMA RollbackStep ==
  ASSUME TransfersInv, NEW r \in Request, Rollback(r)
  PROVE  TransfersInv'
BY EndsMoves, RequestMoves DEF Rollback, End, TableUnchanged

LEMMA CreateQuoteStep ==
  ASSUME TransfersInv, NEW q \in Quote, NEW amount \in Nat, CreateQuote(q, amount)
  PROVE  TransfersInv'
<1> DEFINE row == [status |-> "active", amount |-> amount]
<1>1. row \in QuoteRow /\ row.status = "active"  BY DEF QuoteRow
<1>2. /\ quote[q].status = "none" /\ quote' = [quote EXCEPT ![q] = row]
      /\ TableUnchanged /\ UNCHANGED <<request, reviewed, now>>
  BY DEF CreateQuote, TableUnchanged
<1> HIDE DEF row
<1> QED  BY <1>1, <1>2, QuoteMoves

LEMMA LapseStep ==
  ASSUME TransfersInv, NEW q \in Quote, Lapse(q)
  PROVE  TransfersInv'
<1> DEFINE row == [quote[q] EXCEPT !.status = "lapsed"]
<1>1. quote[q] \in QuoteRow /\ quote' = [quote EXCEPT ![q] = row]
  BY DEF Lapse, TransfersInv, TransferTypes
<1>2. row \in QuoteRow /\ row.status = "lapsed" /\ row.amount = quote[q].amount
  BY <1>1 DEF QuoteRow
<1>3. quote[q].status = "active" /\ TableUnchanged /\ UNCHANGED <<request, reviewed, now>>
  BY DEF Lapse, TableUnchanged
<1> HIDE DEF row
<1> QED  BY <1>1, <1>2, <1>3, QuoteMoves

-----------------------------------------------------------------------------
(* A transfer is made.                                                     *)

LEMMA SettleStep ==
  ASSUME TransfersInv, NEW r \in Request, Settle(r)
  PROVE  TransfersInv'
<1> DEFINE k == request[r].key
           q == request[r].quote
           amount == quote[q].amount
           fee == Fee(amount)
           row == [quote |-> q, amount |-> amount, fee |-> fee,
                   created |-> request[r].began, kind |-> "direct"]
<1>1. /\ request[r] \in RequestRow /\ request[r].pc = "settle"
      /\ k \in Key /\ q \in Quote /\ HoldsQuote(r, q) /\ HoldsAdvisory(r)
  BY DEF Settle, TransfersInv, TransferTypes, RowsInv, HoldsQuote, HoldsAdvisory
<1>2. /\ amount \in Nat /\ fee \in Int /\ request[r].began \in Nat
      /\ quote[q].status \in {"active", "lapsed"} /\ request[r].review \in BOOLEAN
  <2>1. amount \in Nat /\ quote[q].status \in {"active", "lapsed"}
    BY <1>1 DEF TransfersInv, LocksInv, TransferTypes, QuoteRow
  <2>2. FeeDivisor \in Nat \ {0}  BY TransfersAssumption
  <2> HIDE DEF amount
  <2>3. Fee(amount) \in Int  BY <2>1, <2>2 DEF Fee
  <2> QED  BY <1>1, <2>1, <2>3 DEF RequestRow
<1>3. /\ balance >= amount + fee /\ balance' = balance - amount - fee
      /\ transfer[k] = NoTransfer /\ transfer' = [transfer EXCEPT ![k] = row]
      /\ quote' = [quote EXCEPT ![q].status = "consumed"]
      /\ posted' = [posted EXCEPT !["wallet"] = @ - amount - fee,
                                  !["settlement"] = @ + amount, !["fees"] = @ + fee]
      /\ reviewed' = IF request[r].review THEN reviewed \cup {k} ELSE reviewed
      /\ request' = [request EXCEPT ![r] = Idle] /\ UNCHANGED <<enforced, now>>
  BY DEF Settle, Afford, KeyFree, Consume, Post, End
<1>4. /\ row \in TransferRow /\ row.amount = amount /\ row.fee = fee /\ row.quote = q
      /\ row.kind = "direct" /\ row.created = request[r].began
  BY <1>1, <1>2 DEF TransferRow
<1>5. /\ \A j \in Key : transfer'[j] = IF j = k THEN row ELSE transfer[j]
      /\ \A p \in Quote : quote'[p] = IF p = q THEN [quote[q] EXCEPT !.status = "consumed"]
                                      ELSE quote[p]
      /\ \A o \in Request : request'[o] = IF o = r THEN Idle ELSE request[o]
      /\ quote[q] \in QuoteRow
  <2> HIDE DEF row, k, q
  <2> QED  BY <1>1, <1>3 DEF TransfersInv, TransferTypes
<1> HIDE DEF row, k, amount, fee
<1>6. quote'[q].status = "consumed" /\ quote'[q].amount = amount /\ quote'[q] \in QuoteRow
  BY <1>1, <1>5 DEF QuoteRow, amount
<1> HIDE DEF q
<1>7. Direct' = Direct \cup {k} /\ k \notin Direct /\ IsFiniteSet(Direct)
  <2>1. transfer[k].kind # "direct"  BY <1>3 DEF NoTransfer
  <2>2. \A j \in Key : transfer'[j].kind = "direct" <=> j = k \/ transfer[j].kind = "direct"
    BY <1>4, <1>5
  <2> QED  BY <1>1, <2>1, <2>2 DEF Direct, Done, TransfersInv, RowsInv
<1>8. TransferTypes'
  <2>1. balance' \in Int /\ posted' \in [{"wallet", "settlement", "fees"} -> Int]
    BY <1>2, <1>3 DEF TransfersInv, TransferTypes
  <2>2. transfer' \in [Key -> TransferRow]  BY <1>3, <1>4 DEF TransfersInv, TransferTypes
  <2>3. quote' \in [Quote -> QuoteRow]
    BY <1>1, <1>3, <1>5, <1>6 DEF TransfersInv, TransferTypes
  <2>4. Idle \in RequestRow  BY DEF Idle, RequestRow
  <2> QED  BY <1>3, <2>1, <2>2, <2>3, <2>4 DEF TransfersInv, TransferTypes
<1>9. RowsInv'
  <2>1. IsFiniteSet(Direct')  BY <1>7, FS_AddElement
  <2>2. \A j \in Key : transfer'[j].kind = "none" => transfer'[j] = NoTransfer
    BY <1>4, <1>5 DEF TransfersInv, RowsInv
  <2>3. Idle.pc = "idle"  BY DEF Idle
  <2> QED  BY <1>5, <2>1, <2>2, <2>3 DEF TransfersInv, RowsInv
<1>10. LocksInv'
  <2>1. Idle.pc = "idle"  BY DEF Idle
  <2>2. \A o \in Request, p \in Quote :
          HoldsQuote(o, p)' => o # r /\ p # q /\ HoldsQuote(o, p)
    BY <1>1, <1>5, <2>1 DEF HoldsQuote, TransfersInv, LocksInv
  <2>3. \A o \in Request : ~ HoldsAdvisory(o)'
    BY <1>1, <1>5, <2>1 DEF HoldsAdvisory, TransfersInv, LocksInv
  <2> QED  BY <1>5, <2>2, <2>3 DEF TransfersInv, LocksInv
<1>11. QuotesInv'
  <2>1. \A j \in Direct : transfer[j].quote # q
    BY <1>2 DEF TransfersInv, QuotesInv
  <2>2. \A j \in Direct : /\ j \in Key /\ transfer'[j] = transfer[j]
                          /\ transfer[j].quote \in Quote
                          /\ quote'[transfer[j].quote] = quote[transfer[j].quote]
    BY <1>5, <1>7, <2>1 DEF TransfersInv, QuotesInv, Direct, Done
  <2>3. transfer'[k] = row  BY <1>1, <1>5
  <2>4. ASSUME NEW j \in Direct'
        PROVE  /\ transfer'[j].quote \in Quote
               /\ quote'[transfer'[j].quote].status = "consumed"
               /\ transfer'[j].amount = quote'[transfer'[j].quote].amount
    BY <1>1, <1>4, <1>6, <1>7, <2>2, <2>3 DEF TransfersInv, QuotesInv
  <2>5. ASSUME NEW j \in Direct', NEW l \in Direct', transfer'[j].quote = transfer'[l].quote
        PROVE  j = l
    BY <1>4, <1>7, <2>1, <2>2, <2>3, <2>5 DEF TransfersInv, QuotesInv
  <2>6. ASSUME NEW p \in Quote, quote'[p].status = "consumed"
        PROVE  \E j \in Direct' : transfer'[j].quote = p
    <3>1. CASE p = q  BY <1>4, <1>7, <2>3, <3>1
    <3>2. CASE p # q
      <4>1. PICK j \in Direct : transfer[j].quote = p
        BY <1>5, <2>6, <3>2 DEF TransfersInv, QuotesInv
      <4> QED  BY <1>7, <2>2, <4>1
    <3> QED  BY <3>1, <3>2
  <2> QED  BY <2>4, <2>5, <2>6 DEF QuotesInv
<1>12. LedgerInv'
  <2>1. /\ \A j \in Direct : transfer'[j] = transfer[j]
        /\ \A j \in Direct : transfer[j].amount \in Int /\ transfer[j].fee \in Int
    BY <1>5, <1>7 DEF Direct, Done, TransfersInv, TransferTypes, TransferRow
  <2>2. /\ transfer'[k].amount = amount /\ transfer'[k].fee = fee
        /\ transfer'[k].amount \in Int /\ transfer'[k].fee \in Int
    BY <1>1, <1>2, <1>4, <1>5
  <2>3. /\ AmountsOf(transfer', Direct') = AmountsOf(transfer, Direct) + amount
        /\ AmountsOf(transfer, Direct) \in Int
    <3>1. /\ AmountsOf(transfer', Direct \cup {k}) = AmountsOf(transfer, Direct) + transfer'[k].amount
          /\ AmountsOf(transfer, Direct) \in Int
      BY <1>7, <2>1, <2>2, AmountsGrow
    <3> QED  BY <1>7, <2>2, <3>1
  <2>4. /\ FeesOf(transfer', Direct') = FeesOf(transfer, Direct) + fee
        /\ FeesOf(transfer, Direct) \in Int
    <3>1. /\ FeesOf(transfer', Direct \cup {k}) = FeesOf(transfer, Direct) + transfer'[k].fee
          /\ FeesOf(transfer, Direct) \in Int
      BY <1>7, <2>1, <2>2, FeesGrow
    <3> QED  BY <1>7, <2>2, <3>1
  <2>5. /\ posted["wallet"] \in Int /\ posted["settlement"] \in Int /\ posted["fees"] \in Int
        /\ balance \in Int /\ Opening \in Int
    BY TransfersAssumption DEF TransfersInv, TransferTypes
  <2>6. /\ posted'["wallet"] = posted["wallet"] - amount - fee
        /\ posted'["settlement"] = posted["settlement"] + amount
        /\ posted'["fees"] = posted["fees"] + fee
    BY <1>3 DEF TransfersInv, TransferTypes
  <2>7. /\ balance >= 0 /\ balance = Opening + posted["wallet"]
        /\ posted["settlement"] = AmountsOf(transfer, Direct)
        /\ posted["fees"] = FeesOf(transfer, Direct)
        /\ posted["wallet"] + posted["settlement"] + posted["fees"] = 0
    BY DEF TransfersInv, LedgerInv
  <2>8. balance' >= 0 /\ balance' = Opening + posted'["wallet"]
    BY <1>2, <1>3, <2>5, <2>6, <2>7
  <2>9. /\ posted'["settlement"] = AmountsOf(transfer', Direct')
        /\ posted'["fees"] = FeesOf(transfer', Direct')
    BY <2>3, <2>4, <2>6, <2>7
  <2>10. posted'["wallet"] + posted'["settlement"] + posted'["fees"] = 0
    BY <1>2, <2>5, <2>6, <2>7
  <2> QED  BY <2>8, <2>9, <2>10 DEF LedgerInv
<1>13. GateInv'
  <2>1. Idle.pc = "idle"  BY DEF Idle
  <2>2. \A o \in Request : request'[o].pc # "settle"
    BY <1>1, <1>5, <2>1 DEF HoldsAdvisory, TransfersInv, LocksInv
  <2> QED  BY <2>2 DEF GateInv, PassedGate
<1>14. SafeInv'
  <2>1. /\ Counted \in SUBSET Direct /\ Counted \in SUBSET Key /\ k \notin Counted
        /\ IsFiniteSet(Counted)
        /\ \A j \in Counted : transfer'[j] = transfer[j]
        /\ \A j \in Counted : transfer[j].kind # "none" /\ transfer[j].created \in Nat
        /\ \A j \in Key : transfer[j].amount \in Nat
    <3>1. Counted \in SUBSET Direct /\ Direct \in SUBSET Key  BY DEF Counted, Direct, Done
    <3>2. IsFiniteSet(Counted)  BY <1>7, <3>1, FS_Subset
    <3> QED
      BY <1>5, <1>7, <3>1, <3>2 DEF Direct, Done, TransfersInv, TransferTypes, TransferRow
  <2>2. Safe(transfer, Counted)  BY DEF TransfersInv, SafeInv
  <2>3. CASE request[r].review
    <3>1. ~ enforced  BY <1>1, <2>3 DEF TransfersInv, GateInv, PassedGate
    <3>2. Counted' \in SUBSET Counted  BY <1>3, <1>7, <2>3, <3>1 DEF Counted
    <3>3. /\ \A j \in Counted' : transfer'[j] = transfer[j]
          /\ \A j \in Counted : transfer[j].amount \in Nat
      BY <2>1, <3>2
    <3>4. Safe(transfer', Counted')  BY <2>1, <2>2, <3>2, <3>3, SafePart
    <3> QED  BY <3>4 DEF SafeInv
  <2>4. CASE ~ request[r].review
    <3>1. Counted' \in SUBSET (Counted \cup {k})  BY <1>3, <1>7, <2>4 DEF Counted
    <3>2. BelowLimits(transfer, transfer'[k].created, transfer'[k].amount)
      BY <1>1, <1>4, <1>5, <2>4 DEF TransfersInv, GateInv, PassedGate, amount, q
    <3>3. transfer'[k].created \in Nat /\ transfer'[k].amount \in Nat
      BY <1>1, <1>2, <1>4, <1>5
    <3>4. IsFiniteSet({j \in Key : transfer[j].kind # "none"})
      <4>1. {j \in Key : transfer[j].kind # "none"} = Direct
        BY DEF Direct, Done, TransfersInv, TransferTypes, TransferRow
      <4> QED  BY <1>7, <4>1
    <3>5. Safe(transfer', Counted \cup {k})
      BY <1>1, <2>1, <2>2, <3>2, <3>3, <3>4, SafeMore
    <3>6. /\ IsFiniteSet(Counted \cup {k})
          /\ \A j \in Counted \cup {k} : transfer'[j].amount \in Nat
      BY <2>1, <3>3, FS_AddElement
    <3>7. Safe(transfer', Counted')  BY <3>1, <3>5, <3>6, SafePart
    <3> QED  BY <3>7 DEF SafeInv
  <2> QED  BY <1>2, <2>3, <2>4
<1> QED
  BY <1>8, <1>9, <1>10, <1>11, <1>12, <1>13, <1>14 DEF TransfersInv

-----------------------------------------------------------------------------
(* The send page. *)

(* What the page does by itself leaves the requests and the transfers.     *)
LEMMA PageAlone ==
  ASSUME PageInv, UNCHANGED <<request, transfer>>, sending' \in PageRow,
         sending'.used = sending.used, sending'.confirmed = sending.confirmed,
         sending'.answer \in {sending.answer, "none"},
         sending'.call = sending.call \/ sending'.call.request = "none"
  PROVE  PageInv'
BY DEF PageInv, AnswersAreTrue

(* What the service does to a request of the page. *)
Serves(r) ==
  /\ request[r].pc # "idle"
  /\ \A o \in Request : o # r => request'[o] = request[o]
  /\ \/ request'[r] = Idle
     \/ /\ request'[r].pc # "idle" /\ UNCHANGED transfer
        /\ request'[r].key = request[r].key /\ request'[r].quote = request[r].quote
  /\ \/ UNCHANGED transfer
     \/ /\ \A j \in Key : j # request[r].key => transfer'[j] = transfer[j]
        /\ transfer'[request[r].key].kind = "direct"
        /\ transfer'[request[r].key].quote = request[r].quote

LEMMA ServeShape ==
  ASSUME TransfersInv, NEW r \in Request, Serve(r)
  PROVE  Serves(r)
<1>1. request[r] \in RequestRow /\ request \in [Request -> RequestRow]
      /\ transfer \in [Key -> TransferRow]
  BY DEF TransfersInv, TransferTypes
<1>2. CASE LockQuote(r)
  BY <1>1, <1>2 DEF LockQuote, End, Serves, Idle, RequestRow
<1>3. CASE Gate(r)
  <2> DEFINE row == [request[r] EXCEPT !.pc = "settle", !.review = Reviewable(r)]
  <2>1. UNCHANGED transfer /\ request[r].pc = "gate"  BY <1>3 DEF Gate
  <2>2. CASE End(r)  BY <1>1, <2>1, <2>2 DEF End, Serves
  <2>3. CASE request' = [request EXCEPT ![r].pc = "settle", ![r].review = Reviewable(r)]
    <3>1. request' = [request EXCEPT ![r] = row]  BY <1>1, <2>3
    <3>2. row.pc = "settle" /\ row.key = request[r].key /\ row.quote = request[r].quote
      BY <1>1 DEF RequestRow
    <3> HIDE DEF row
    <3> QED  BY <1>1, <2>1, <3>1, <3>2 DEF Serves
  <2> QED  BY <1>3, <2>2, <2>3 DEF Gate
<1>4. CASE Rollback(r)
  <2>1. request[r].pc # "idle"  BY <1>4 DEF Rollback, TransfersInv, RowsInv
  <2> QED  BY <1>1, <1>4, <2>1 DEF Rollback, End, Serves
<1>5. CASE Settle(r)
  <2> DEFINE k == request[r].key
             row == [quote |-> request[r].quote, amount |-> quote[request[r].quote].amount,
                     fee |-> Fee(quote[request[r].quote].amount),
                     created |-> request[r].began, kind |-> "direct"]
  <2>1. /\ request[r].pc = "settle" /\ request' = [request EXCEPT ![r] = Idle]
        /\ transfer' = [transfer EXCEPT ![k] = row]
    BY <1>5 DEF Settle, End
  <2>2. k \in Key  BY <2>1 DEF TransfersInv, RowsInv
  <2>3. row.kind = "direct" /\ row.quote = request[r].quote  OBVIOUS
  <2> HIDE DEF row
  <2>4. transfer'[k] = row /\ \A j \in Key : j # k => transfer'[j] = transfer[j]
    BY <1>1, <2>1, <2>2
  <2>5. request'[r] = Idle /\ \A o \in Request : o # r => request'[o] = request[o]
    BY <1>1, <2>1
  <2> QED  BY <2>1, <2>3, <2>4, <2>5 DEF Serves
<1> QED  BY <1>2, <1>3, <1>4, <1>5 DEF Serve

(* Requests other than the one that is served have other keys, so what     *)
(* becomes of it does not touch them.                                      *)
LEMMA OthersKept ==
  ASSUME TransfersInv, PageInv, NEW r \in Request, Serves(r)
  PROVE  /\ \A o \in Request : request'[o].pc # "idle" =>
              /\ request[o].pc # "idle" /\ request'[o].key = request[o].key
              /\ request'[o].quote = request[o].quote
              /\ request'[o].key \in sending.used
              /\ transfer'[request'[o].key] = NoTransfer
         /\ \A o, p \in Request : request'[o].pc # "idle" /\ request'[p].pc # "idle"
                                    /\ request'[o].key = request'[p].key => o = p
         /\ request[r].key \in Key /\ transfer[request[r].key] = NoTransfer
<1>1. \A o \in Request : request[o].pc # "idle" =>
        request[o].key \in Key /\ transfer[request[o].key] = NoTransfer
  BY DEF TransfersInv, RowsInv, PageInv
<1>2. ASSUME NEW o \in Request, request'[o].pc # "idle"
      PROVE  /\ request[o].pc # "idle" /\ request'[o].key = request[o].key
             /\ request'[o].quote = request[o].quote
             /\ request'[o].key \in sending.used
             /\ transfer'[request'[o].key] = NoTransfer
  <2>1. CASE o = r  BY <1>1, <1>2, <2>1 DEF Serves, Idle, PageInv
  <2>2. CASE o # r
    <3>1. request[o].key # request[r].key  BY <1>2, <2>2 DEF Serves, PageInv
    <3> QED  BY <1>1, <1>2, <2>2, <3>1 DEF Serves, PageInv
  <2> QED  BY <2>1, <2>2
<1> QED  BY <1>1, <1>2 DEF PageInv, Serves

LEMMA ServedStep ==
  ASSUME TransfersInv, PageInv, NEW r \in Request, Served(r)
  PROVE  PageInv'
<1>1. Serves(r)  BY ServeShape DEF Served
<1>2. /\ \A o \in Request : request'[o].pc # "idle" =>
           /\ request[o].pc # "idle" /\ request'[o].key = request[o].key
           /\ request'[o].quote = request[o].quote
           /\ request'[o].key \in sending.used
           /\ transfer'[request'[o].key] = NoTransfer
      /\ \A o, p \in Request : request'[o].pc # "idle" /\ request'[p].pc # "idle"
                                 /\ request'[o].key = request'[p].key => o = p
      /\ request[r].key \in Key /\ transfer[request[r].key] = NoTransfer
  BY <1>1, OthersKept
<1>3. CASE sending.call.request = r /\ request'[r] = Idle
  <2> DEFINE k == sending.call.key
  <2>1. sending' = [sending EXCEPT !.call = NoCall, !.answer = Answered(k)]
    BY <1>3 DEF Served
  <2>2. r # "none"  BY SendAssumption
  <2>3. /\ request[r].key = k /\ sending.confirmed.key = k
        /\ request[r].quote = sending.confirmed.quote /\ k \in sending.used
    BY <1>1, <1>3, <2>2 DEF PageInv, Serves
  <2>4. Answered(k) \in {"done", "refused"}  BY DEF Answered
  <2>5. /\ sending' \in PageRow /\ sending'.used = sending.used
        /\ sending'.confirmed = sending.confirmed /\ sending'.answer = Answered(k)
        /\ sending'.call.request = "none"
    BY <2>1, <2>4 DEF PageInv, PageRow, NoCall
  <2>6. \A o \in Request : request'[o].pc # "idle" => request'[o].key # k
    <3>1. Idle.pc = "idle"  BY DEF Idle
    <3>2. ASSUME NEW o \in Request, request'[o].pc # "idle"  PROVE request'[o].key # k
      BY <1>1, <1>2, <1>3, <2>3, <3>1, <3>2 DEF PageInv, Serves
    <3> QED  BY <3>2
  <2>7. Answered(k) = "done" => /\ transfer'[k].kind = "direct"
                                /\ transfer'[k].quote = sending.confirmed.quote
    BY <1>1, <1>2, <2>3 DEF Answered, Serves
  <2>8. Answered(k) = "refused" => transfer'[k] = NoTransfer  BY DEF Answered
  <2> HIDE DEF k
  <2>9. AnswersAreTrue'  BY <2>3, <2>5, <2>7, <2>8 DEF AnswersAreTrue
  <2> QED  BY <1>2, <2>3, <2>5, <2>6, <2>9 DEF PageInv
<1>4. CASE sending' = sending /\ ~ (sending.call.request = r /\ request'[r] = Idle)
  <2>1. sending.call.request # "none" =>
          LET o == sending.call.request
          IN /\ request'[o].pc # "idle" /\ sending.answer = "none"
             /\ request'[o].key = sending.call.key /\ request'[o].quote = sending.confirmed.quote
             /\ sending.confirmed.key = sending.call.key
    <3>1. CASE sending.call.request = r  BY <1>1, <1>4, <3>1 DEF PageInv, Serves
    <3>2. CASE sending.call.request # r  BY <1>1, <3>2 DEF PageInv, Serves, PageRow
    <3> QED  BY <3>1, <3>2
  <2>2. sending.answer \in {"done", "refused"} => request[r].key # sending.confirmed.key
    <3>1. NoTransfer.kind # "direct"  BY DEF NoTransfer
    <3>2. request[r].pc # "idle"  BY <1>1 DEF Serves
    <3> QED  BY <1>2, <3>1, <3>2 DEF PageInv, AnswersAreTrue
  <2>3. sending.answer \in {"done", "refused"} =>
          transfer'[sending.confirmed.key] = transfer[sending.confirmed.key]
    <3>1. sending.answer \in {"done", "refused"} => sending.confirmed.key \in Key
      BY DEF PageInv, PageRow
    <3> QED  BY <1>1, <2>2, <3>1 DEF Serves
  <2>4. AnswersAreTrue'  BY <1>4, <2>3 DEF PageInv, AnswersAreTrue
  <2>5. sending.answer = "refused" =>
          \A o \in Request : request'[o].pc # "idle" => request'[o].key # sending.confirmed.key
    BY <1>2 DEF PageInv
  <2> QED  BY <1>2, <1>4, <2>1, <2>4, <2>5 DEF PageInv
<1> QED  BY <1>3, <1>4 DEF Served

LEMMA UnansweredStep ==
  ASSUME TransfersInv, PageInv, NEW r \in Request, TransferUnanswered(r)
  PROVE  PageInv'
<1>1. sending' = [sending EXCEPT !.call = NoCall, !.answer = "lost"]
  BY DEF TransferUnanswered
<1>2. /\ sending' \in PageRow /\ sending'.used = sending.used
      /\ sending'.answer = "lost" /\ sending'.call.request = "none"
  BY <1>1 DEF PageInv, PageRow, NoCall
<1>3. CASE Untouched
  BY <1>2, <1>3 DEF Untouched, transferVars, PageInv, AnswersAreTrue
<1>4. CASE Settle(r)
  <2>1. Serves(r)  BY <1>4, ServeShape DEF Serve
  <2> QED  BY <1>2, <2>1, OthersKept DEF PageInv, AnswersAreTrue
<1> QED  BY <1>3, <1>4 DEF TransferUnanswered

LEMMA ConfirmStep ==
  ASSUME TransfersInv, PageInv, NEW r \in Request, NEW k \in Key, ConfirmTransfer(r, k)
  PROVE  PageInv'
<1> DEFINE row == [pc |-> "lockQuote", key |-> k, quote |-> sending.shown, began |-> now,
                   review |-> FALSE]
<1>1. /\ request[r] = Idle /\ transfer[k] = NoTransfer /\ UNCHANGED transfer
      /\ request' = [request EXCEPT ![r] = row] /\ k \notin sending.used
  BY DEF ConfirmTransfer, Begin
<1>2. row.pc # "idle" /\ row.key = k /\ row.quote = sending.shown  OBVIOUS
<1> HIDE DEF row
<1>3. \A o \in Request : request'[o] = IF o = r THEN row ELSE request[o]
  BY <1>1 DEF TransfersInv, TransferTypes
<1>4. sending' = [sending EXCEPT !.used = @ \cup {k}, !.answer = "none",
        !.call = [kind |-> "transfer", amount |-> 0, request |-> r, key |-> k],
        !.confirmed = [key |-> k, quote |-> sending.shown]]
  BY DEF ConfirmTransfer
<1>5. /\ sending' \in PageRow /\ sending'.used = sending.used \cup {k}
      /\ sending'.answer = "none" /\ sending'.call.request = r /\ sending'.call.key = k
      /\ sending'.confirmed.key = k /\ sending'.confirmed.quote = sending.shown
  BY <1>4 DEF PageInv, PageRow
<1>6. \A o \in Request : request'[o].pc # "idle" =>
        request'[o].key \in sending'.used /\ transfer'[request'[o].key] = NoTransfer
  BY <1>1, <1>2, <1>3, <1>5 DEF PageInv
<1>7. \A o, p \in Request : request'[o].pc # "idle" /\ request'[p].pc # "idle"
                              /\ request'[o].key = request'[p].key => o = p
  BY <1>1, <1>2, <1>3 DEF PageInv
<1> QED  BY <1>2, <1>3, <1>5, <1>6, <1>7 DEF PageInv, AnswersAreTrue

LEMMA PageAloneStep ==
  ASSUME PageInv, UNCHANGED <<request, transfer>>,
         \/ \E a \in Typed : TypeAmount(a)
         \/ NameRecipient \/ AskQuote \/ QuoteFails
         \/ \E q \in Quote : QuoteAnswers(q)
         \/ UNCHANGED sending
  PROVE  PageInv'
<1>1. sending \in PageRow /\ NoCall \in [kind : {"none", "quote", "transfer"}, amount : Nat,
                                         request : Request \cup {"none"}, key : Key \cup {NoKey}]
  BY DEF PageInv, NoCall
<1>2. ASSUME NEW a \in Typed, TypeAmount(a)  PROVE PageInv'
  <2>1. sending' = [sending EXCEPT !.typed = a, !.shown = NoQuote]  BY <1>2 DEF TypeAmount
  <2> QED  BY <1>1, <2>1, PageAlone DEF PageRow
<1>3. CASE NameRecipient
  <2>1. sending' = [sending EXCEPT !.named = TRUE]  BY <1>3 DEF NameRecipient
  <2> QED  BY <1>1, <2>1, PageAlone DEF PageRow
<1>4. CASE AskQuote
  <2> DEFINE call == [NoCall EXCEPT !.kind = "quote", !.amount = sending.typed]
  <2>1. sending' = [sending EXCEPT !.answer = "none", !.call = call]  BY <1>4 DEF AskQuote
  <2>2. call \in [kind : {"none", "quote", "transfer"}, amount : Nat,
                  request : Request \cup {"none"}, key : Key \cup {NoKey}]
        /\ call.request = "none"
    BY <1>1, SendAssumption DEF NoCall, PageRow
  <2> HIDE DEF call
  <2> QED  BY <1>1, <2>1, <2>2, PageAlone DEF PageRow
<1>5. CASE QuoteFails
  <2>1. sending' = [sending EXCEPT !.call = NoCall]  BY <1>5 DEF QuoteFails
  <2>2. NoCall.request = "none"  BY DEF NoCall
  <2> QED  BY <1>1, <2>1, <2>2, PageAlone DEF PageRow
<1>6. ASSUME NEW q \in Quote, QuoteAnswers(q)  PROVE PageInv'
  <2>1. sending' = [sending EXCEPT !.shown = q, !.call = NoCall]  BY <1>6 DEF QuoteAnswers
  <2>2. NoCall.request = "none"  BY DEF NoCall
  <2> QED  BY <1>1, <1>6, <2>1, <2>2, PageAlone DEF PageRow
<1>7. CASE UNCHANGED sending  BY <1>1, <1>7, PageAlone
<1> QED  BY <1>2, <1>3, <1>4, <1>5, <1>6, <1>7

-----------------------------------------------------------------------------
(* Transfers and the send page, together. *)

LEMMA MoneyInit == InitMoney => TransfersInv /\ SendInv
<1> SUFFICES ASSUME InitMoney  PROVE TransfersInv /\ SendInv
  OBVIOUS
<1> USE TransfersAssumption
<1>1. InitTransfers  BY DEF InitMoney
<1>2. /\ NoTransfer \in TransferRow /\ Idle \in RequestRow /\ NoOffer \in QuoteRow
      /\ NoTransfer.kind = "none" /\ Idle.pc = "idle" /\ NoOffer.status = "none"
  BY DEF NoTransfer, TransferRow, Idle, RequestRow, NoOffer, QuoteRow
<1>3. Direct = {}  BY <1>1, <1>2 DEF InitTransfers, Direct, Done
<1>4. TransferTypes  BY <1>1, <1>2 DEF InitTransfers, TransferTypes
<1>5. RowsInv  BY <1>1, <1>2, <1>3, FS_EmptySet DEF InitTransfers, RowsInv
<1>6. LocksInv  BY <1>1, <1>2 DEF InitTransfers, LocksInv, HoldsQuote, HoldsAdvisory
<1>7. QuotesInv  BY <1>1, <1>2, <1>3 DEF InitTransfers, QuotesInv
<1>8. AmountsOf(transfer, {}) = 0 /\ FeesOf(transfer, {}) = 0
  BY FS_EmptySet, AmountsAsSum, FeesAsSum, SumEmpty
<1>9. LedgerInv  BY <1>1, <1>3, <1>8 DEF InitTransfers, LedgerInv
<1>10. GateInv  BY <1>1, <1>2 DEF InitTransfers, GateInv, PassedGate
<1>11. SafeInv
  <2>1. Counted = {}  BY <1>3 DEF Counted
  <2>2. Cardinality({}) = 0  BY FS_EmptySet
  <2>3. \A start : /\ {k \in {} : transfer[k].created \in start..(start + Hour)} = {}
                   /\ {k \in {} : transfer[k].created \in start..(start + Day)} = {}
    OBVIOUS
  <2> QED  BY <1>8, <2>1, <2>2, <2>3 DEF SafeInv, Safe
<1>12. SendInv
  <2>1. CASE scene = "send"
    <3>1. PICK a \in Typed, allowed \in BOOLEAN :
            sending = [NoPage EXCEPT !.typed = a, !.allowed = allowed]
      BY <2>1 DEF InitMoney, InitSend
    <3>2. /\ sending \in PageRow /\ sending.answer = "none" /\ sending.call.request = "none"
      BY <3>1 DEF NoPage, NoCall, PageRow
    <3> QED  BY <1>1, <1>2, <2>1, <3>2 DEF SendInv, PageInv, AnswersAreTrue, InitTransfers
  <2>2. CASE scene # "send"  BY <2>2 DEF InitMoney, SendInv, NoPage
  <2> QED  BY <2>1, <2>2
<1> QED
  BY <1>4, <1>5, <1>6, <1>7, <1>9, <1>10, <1>11, <1>12 DEF TransfersInv

LEMMA ServeStep ==
  ASSUME TransfersInv, NEW r \in Request, Serve(r)
  PROVE  TransfersInv'
BY LockQuoteStep, GateStep, SettleStep, RollbackStep DEF Serve

LEMMA ClientsStep == TransfersInv /\ NextTransfers => TransfersInv'
<1> SUFFICES ASSUME TransfersInv, NextTransfers  PROVE TransfersInv'
  OBVIOUS
<1>1. ASSUME Tick \/ Screen  PROVE TransfersInv'
  <2>1. now' \in Nat  BY <1>1 DEF Tick, Screen, TransfersInv, TransferTypes
  <2> QED  BY <1>1, <2>1, ClockMoves DEF Tick, Screen, TableUnchanged
<1>2. ASSUME NEW q \in Quote, NEW a \in Amounts, CreateQuote(q, a)  PROVE TransfersInv'
  BY <1>2, CreateQuoteStep, TransfersAssumption
<1>3. ASSUME NEW r \in Request, LockQuote(r) \/ Gate(r) \/ Settle(r) \/ Rollback(r)
      PROVE  TransfersInv'
  BY <1>3, ServeStep DEF Serve
<1> QED  BY <1>1, <1>2, <1>3, LapseStep, BeginStep DEF NextTransfers

LEMMA SendStep == TransfersInv /\ PageInv /\ NextSend => TransfersInv' /\ PageInv'
<1> SUFFICES ASSUME TransfersInv, PageInv, NextSend  PROVE TransfersInv' /\ PageInv'
  OBVIOUS
<1>1. ASSUME UNCHANGED transferVars  PROVE TransfersInv' /\ UNCHANGED <<request, transfer>>
  BY <1>1, ClockMoves DEF transferVars, TableUnchanged, TransfersInv, TransferTypes
<1>2. ASSUME NEW q \in Quote, CreateQuote(q, sending.call.amount)
      PROVE  TransfersInv' /\ UNCHANGED <<request, transfer>>
  <2>1. sending.call.amount \in Nat  BY DEF PageInv, PageRow
  <2> QED  BY <1>2, <2>1, CreateQuoteStep DEF CreateQuote
<1>3. CASE (\E a \in Typed : TypeAmount(a)) \/ NameRecipient \/ AskQuote \/ QuoteFails
  BY <1>1, <1>2, <1>3, PageAloneStep
     DEF TypeAmount, NameRecipient, AskQuote, QuoteFails, Untouched
<1>4. ASSUME NEW q \in Quote, QuoteAnswers(q)  PROVE TransfersInv' /\ PageInv'
  BY <1>2, <1>4, PageAloneStep DEF QuoteAnswers
<1>5. ASSUME NEW q \in Quote, Lapse(q), UNCHANGED sending  PROVE TransfersInv' /\ PageInv'
  BY <1>5, LapseStep, PageAloneStep DEF Lapse
<1>6. CASE Screen /\ UNCHANGED sending
  BY <1>6, ClockMoves, PageAloneStep DEF Screen, TableUnchanged, TransfersInv, TransferTypes
<1>7. ASSUME NEW r \in Request, Served(r)  PROVE TransfersInv' /\ PageInv'
  BY <1>7, ServeStep, ServedStep DEF Served
<1>8. ASSUME NEW r \in Request, TransferUnanswered(r)  PROVE TransfersInv' /\ PageInv'
  BY <1>1, <1>8, SettleStep, UnansweredStep DEF TransferUnanswered, Untouched
<1>9. ASSUME NEW r \in Request, NEW k \in Key, ConfirmTransfer(r, k)
      PROVE  TransfersInv' /\ PageInv'
  <2>1. sending.shown \in Quote
    BY <1>9 DEF ConfirmTransfer, MayConfirm, PageInv, PageRow
  <2> QED  BY <1>9, <2>1, BeginStep, ConfirmStep DEF ConfirmTransfer
<1> QED
  BY <1>3, <1>4, <1>5, <1>6, <1>7, <1>8, <1>9 DEF NextSend

LEMMA MoneyNext ==
  TransfersInv /\ SendInv /\ [NextMoney]_moneyVars => TransfersInv' /\ SendInv'
<1> SUFFICES ASSUME TransfersInv, SendInv, [NextMoney]_moneyVars
             PROVE  TransfersInv' /\ SendInv'
  OBVIOUS
<1>1. CASE UNCHANGED sendVars /\ UNCHANGED scene
  <2>1. TransfersInv'
    BY <1>1, ClockMoves DEF sendVars, transferVars, TableUnchanged, TransfersInv, TransferTypes
  <2>2. PageInv => PageInv'
    BY <1>1, PageAloneStep DEF sendVars, transferVars
  <2> QED  BY <1>1, <2>1, <2>2 DEF SendInv, sendVars
<1>2. CASE scene = "clients" /\ NextTransfers /\ UNCHANGED <<scene, sending>>
  BY <1>2, ClientsStep DEF SendInv
<1>3. CASE scene = "send" /\ NextSend /\ UNCHANGED scene
  BY <1>3, SendStep DEF SendInv
<1> QED  BY <1>1, <1>2, <1>3 DEF NextMoney, moneyVars

-----------------------------------------------------------------------------
(* The theorems. *)

LEMMA LedgerExplains == TransfersInv => WalletExplained
<1> SUFFICES ASSUME TransfersInv  PROVE WalletExplained
  OBVIOUS
<1>1. Done({"direct", "family"}) = Direct
  BY DEF TransfersInv, TransferTypes, TransferRow, Direct, Done
<1> QED
  BY <1>1 DEF TransfersInv, LedgerInv, WalletExplained, Total, AmountsOf, FeesOf

LEMMA QuotesCount == TransfersInv => QuoteUsedOnce
<1> SUFFICES ASSUME TransfersInv, NEW q \in Quote
             PROVE  LET users == {k \in Done({"direct"}) : transfer[k].quote = q}
                    IN /\ Cardinality(users) = IF quote[q].status = "consumed" THEN 1 ELSE 0
                       /\ \A k \in users : transfer[k].amount = quote[q].amount
  BY DEF QuoteUsedOnce
<1> DEFINE users == {k \in Direct : transfer[k].quote = q}
<1>1. CASE quote[q].status = "consumed"
  <2>1. PICK k \in Direct : transfer[k].quote = q
    BY <1>1 DEF TransfersInv, QuotesInv
  <2>2. users = {k}  BY <2>1 DEF TransfersInv, QuotesInv
  <2>3. Cardinality(users) = 1  BY <2>2, FS_Singleton
  <2> QED  BY <1>1, <2>3 DEF TransfersInv, QuotesInv, Direct
<1>2. CASE quote[q].status # "consumed"
  <2>1. users = {}  BY <1>2 DEF TransfersInv, QuotesInv
  <2>2. Cardinality(users) = 0  BY <2>1, FS_EmptySet
  <2> QED  BY <1>2, <2>1, <2>2 DEF Direct
<1> QED  BY <1>1, <1>2

LEMMA LimitsHold == TransfersInv => VelocityHeld
BY DEF TransfersInv, SafeInv, Safe, Counted, Direct, VelocityHeld, WithinLimits, Within,
       Total, AmountsOf

LEMMA MoneyInvariant == SpecMoney => [](TransfersInv /\ SendInv)
BY MoneyInit, MoneyNext, PTL DEF SpecMoney

(* The wallet, the ledger and the transfers on record agree, and the wallet *)
(* never goes below zero, however requests race, conflict and roll back.    *)
THEOREM WalletIsExplained == SpecMoney => []WalletExplained
BY MoneyInvariant, LedgerExplains, PTL

(* A quote is consumed by one transfer, which has its amount. *)
THEOREM QuotesUsedOnce == SpecMoney => []QuoteUsedOnce
BY MoneyInvariant, QuotesCount, PTL

(* Parallel requests do not get past the velocity thresholds: in no window *)
(* of an hour or a day do the transfers that nobody reviewed reach them.   *)
THEOREM VelocityIsHeld == SpecMoney => []VelocityHeld
BY MoneyInvariant, LimitsHold, PTL

(* What the send page says of a confirmation is what became of it. *)
THEOREM SendAnswersAreTrue == SpecMoney => []AnswersAreTrue
<1>1. SendInv => AnswersAreTrue  BY DEF SendInv, PageInv, AnswersAreTrue
<1> QED  BY <1>1, MoneyInvariant, PTL

-----------------------------------------------------------------------------
(* Claims: the steps. *)

LEMMA ClaimsInit == InitMoney => ClaimsInv
BY DEF InitMoney, InitClaims, ClaimsInv, ClaimTypes, CreationInv, SingleUse, NoClaim,
       NotCreating, ClaimRow, CreationRow, With, HoldsTransfer

(* A creation that moves on without writing a claim. *)
CreationMoves(r, row) ==
  /\ row \in CreationRow
  /\ IF row.pc = "idle" THEN row = NotCreating ELSE row.transfer \in PaidTransfer
  /\ row.pc \in {"idle", "lock"} => row.expired = {}
  /\ row.pc \notin {"idle", "lock"} =>
       \A q \in Creation : HoldsTransfer(q, row.transfer) => q = r
  /\ row.expired \subseteq With("active", row.transfer)

LEMMA CreationOnly ==
  ASSUME ClaimsInv, NEW r \in Creation, NEW row, CreationMoves(r, row),
         creation' = [creation EXCEPT ![r] = row], UNCHANGED <<claim, lapsed, answered>>
  PROVE  ClaimsInv'
<1>1. \A q \in Creation : creation'[q] = IF q = r THEN row ELSE creation[q]
  BY DEF ClaimsInv, ClaimTypes
<1>2. ClaimTypes'  BY DEF ClaimsInv, ClaimTypes, CreationMoves
<1>3. CreationInv'
  <2>1. \A q \in Creation : creation'[q].pc = "idle" => creation'[q] = NotCreating
    BY <1>1 DEF CreationMoves, ClaimsInv, CreationInv
  <2>2. \A p, q \in Creation, t \in PaidTransfer :
          HoldsTransfer(p, t)' /\ HoldsTransfer(q, t)' => p = q
    BY <1>1 DEF CreationMoves, ClaimsInv, CreationInv, HoldsTransfer
  <2>3. ASSUME NEW q \in Creation
        PROVE  /\ creation'[q].pc # "idle" => creation'[q].transfer \in PaidTransfer
               /\ creation'[q].pc = "lock" => creation'[q].expired = {}
               /\ creation'[q].expired \subseteq With("active", creation[q].transfer)'
    BY <1>1 DEF CreationMoves, ClaimsInv, CreationInv, With
  <2> QED  BY <2>1, <2>2, <2>3 DEF CreationInv
<1> QED  BY <1>2, <1>3 DEF ClaimsInv, SingleUse

LEMMA CreationStep ==
  ASSUME ClaimsInv, NEW r \in Creation,
         \/ \E t \in PaidTransfer : CreateBegin(r, t)
         \/ CreateLock(r) \/ CreateExpire(r) \/ CreateCheckRedeemed(r)
         \/ CreateCheckActive(r) \/ CreateAborts(r)
  PROVE  ClaimsInv' /\ UNCHANGED claim
<1>1. creation[r] \in CreationRow /\ creation \in [Creation -> CreationRow]
  BY DEF ClaimsInv, ClaimTypes
<1>2. CreationMoves(r, NotCreating)
  BY DEF CreationMoves, NotCreating, CreationRow
<1>3. CASE Ends(r) /\ UNCHANGED <<claim, lapsed, answered>>
  BY <1>2, <1>3, CreationOnly DEF Ends
<1>4. ASSUME NEW t \in PaidTransfer, CreateBegin(r, t)  PROVE ClaimsInv'
  <2> DEFINE row == [pc |-> "lock", transfer |-> t, now |-> lapsed, expired |-> {}]
  <2>1. CreationMoves(r, row)
    BY DEF CreationMoves, CreationRow, ClaimsInv, ClaimTypes
  <2>2. creation' = [creation EXCEPT ![r] = row] /\ UNCHANGED <<claim, lapsed, answered>>
    BY <1>4 DEF CreateBegin
  <2> HIDE DEF row
  <2> QED  BY <2>1, <2>2, CreationOnly
<1>5. ASSUME NEW pc \in {"expire", "checkActive", "insert"},
             creation[r].pc # "idle", Proceed(r, pc), UNCHANGED <<claim, lapsed, answered>>,
             \A q \in Creation : HoldsTransfer(q, creation[r].transfer) => q = r
      PROVE  ClaimsInv'
  <2> DEFINE row == [creation[r] EXCEPT !.pc = pc]
  <2>1. creation' = [creation EXCEPT ![r] = row]  BY <1>1, <1>5 DEF Proceed
  <2>2. /\ row \in CreationRow /\ row.pc = pc /\ row.transfer = creation[r].transfer
        /\ row.expired = creation[r].expired
    BY <1>1, <1>5 DEF CreationRow
  <2>3. creation[r].transfer \in PaidTransfer
        /\ creation[r].expired \subseteq With("active", creation[r].transfer)
    BY <1>5 DEF ClaimsInv, CreationInv
  <2> HIDE DEF row
  <2>4. CreationMoves(r, row)  BY <1>5, <2>2, <2>3 DEF CreationMoves
  <2> QED  BY <1>5, <2>1, <2>4, CreationOnly
<1>6. ASSUME creation[r].pc \notin {"idle", "lock"}
      PROVE  \A q \in Creation : HoldsTransfer(q, creation[r].transfer) => q = r
  BY <1>6 DEF HoldsTransfer, ClaimsInv, CreationInv
<1>7. CASE CreateExpire(r)
  <2> DEFINE gone == With("active", creation[r].transfer) \cap creation[r].now
             row == [creation[r] EXCEPT !.pc = "checkRedeemed", !.expired = gone]
  <2>1. /\ creation' = [creation EXCEPT ![r] = row] /\ UNCHANGED <<claim, lapsed, answered>>
        /\ creation[r].pc = "expire"
    BY <1>1, <1>7 DEF CreateExpire
  <2>2. gone \subseteq Claim /\ gone \subseteq With("active", creation[r].transfer)
    BY DEF With
  <2> HIDE DEF gone
  <2>3. /\ row \in CreationRow /\ row.pc = "checkRedeemed"
        /\ row.transfer = creation[r].transfer /\ row.expired = gone
    BY <1>1, <2>2 DEF CreationRow
  <2>4. creation[r].transfer \in PaidTransfer  BY <2>1 DEF ClaimsInv, CreationInv
  <2> HIDE DEF row
  <2>5. CreationMoves(r, row)  BY <1>6, <2>1, <2>2, <2>3, <2>4 DEF CreationMoves
  <2> QED  BY <2>1, <2>5, CreationOnly
<1>8. CASE CreateLock(r)
  BY <1>5, <1>8 DEF CreateLock
<1>9. CASE CreateCheckRedeemed(r) \/ CreateCheckActive(r)
  <2>1. creation[r].pc \notin {"idle", "lock"}
    BY <1>9 DEF CreateCheckRedeemed, CreateCheckActive
  <2> QED  BY <1>3, <1>5, <1>6, <1>9, <2>1 DEF CreateCheckRedeemed, CreateCheckActive
<1>10. CASE CreateAborts(r)  BY <1>3, <1>10 DEF CreateAborts
<1> QED
  BY <1>4, <1>7, <1>8, <1>9, <1>10
     DEF CreateBegin, CreateLock, CreateExpire, CreateCheckRedeemed, CreateCheckActive,
         CreateAborts

(* Expired claims of the transfer make room for one more. *)
LEMMA InsertStep ==
  ASSUME ClaimsInv, NEW r \in Creation, NEW c \in Claim, CreateInsert(r, c)
  PROVE  /\ ClaimsInv'
         /\ \A d \in Claim : claim[d].status \notin {"none", "active"} => claim'[d] = claim[d]
<1> DEFINE t == creation[r].transfer
           old == creation[r].expired
           row == [NoClaim EXCEPT !.status = "active", !.transfer = t]
<1>1. /\ creation[r].pc = "insert" /\ claim[c] = NoClaim /\ With("active", t) \subseteq old
      /\ claim' = [d \in Claim |-> IF d = c THEN row
                     ELSE IF d \in old THEN [claim[d] EXCEPT !.status = "expired"] ELSE claim[d]]
      /\ creation' = [creation EXCEPT ![r] = NotCreating] /\ UNCHANGED <<lapsed, answered>>
  BY DEF CreateInsert, Ends
<1>2. t \in PaidTransfer /\ old = With("active", t) /\ old \subseteq Claim
  BY <1>1 DEF ClaimsInv, CreationInv, With
<1>3. /\ row \in ClaimRow /\ row.status = "active" /\ row.transfer = t
      /\ NoClaim.status = "none"
  BY <1>2 DEF NoClaim, ClaimRow
<1>4. \A q \in Creation : creation'[q] = IF q = r THEN NotCreating ELSE creation[q]
  BY DEF ClaimsInv, ClaimTypes, CreateInsert, Ends
<1> HIDE DEF row
<1>5. ASSUME NEW d \in Claim
      PROVE  /\ d = c => claim'[d] = row /\ d \notin old /\ claim[d].status = "none"
             /\ d # c /\ d \in old => /\ claim'[d] \in ClaimRow /\ claim'[d].status = "expired"
                                      /\ claim'[d].transfer = t /\ claim'[d].key = claim[d].key
                                      /\ claim[d].status = "active" /\ claim[d].transfer = t
             /\ d # c /\ d \notin old => claim'[d] = claim[d]
  <2>1. claim[d] \in ClaimRow  BY DEF ClaimsInv, ClaimTypes
  <2>2. d \in old => claim[d].status = "active" /\ claim[d].transfer = t
    BY <1>2 DEF With
  <2>3. d = c => claim'[d] = row /\ d \notin old /\ claim[d].status = "none"
    BY <1>1, <1>3, <2>2
  <2>4. d # c /\ d \notin old => claim'[d] = claim[d]  BY <1>1
  <2>5. d # c /\ d \in old => claim'[d] = [claim[d] EXCEPT !.status = "expired"]  BY <1>1
  <2> HIDE DEF old, t
  <2>6. d # c /\ d \in old => /\ claim'[d] \in ClaimRow /\ claim'[d].status = "expired"
                              /\ claim'[d].transfer = claim[d].transfer
                              /\ claim'[d].key = claim[d].key
    BY <2>1, <2>5 DEF ClaimRow
  <2> QED  BY <2>2, <2>3, <2>4, <2>6
<1> HIDE DEF old, t
<1>6. ClaimTypes'
  <2>1. claim' \in [Claim -> ClaimRow]
    <3>1. \A d \in Claim : claim'[d] \in ClaimRow
      BY <1>3, <1>5 DEF ClaimsInv, ClaimTypes
    <3> QED  BY <1>1, <3>1
  <2>2. NotCreating \in CreationRow  BY DEF NotCreating, CreationRow
  <2> QED  BY <1>1, <2>1, <2>2 DEF ClaimsInv, ClaimTypes
<1>7. CreationInv'
  <2>1. /\ NotCreating.pc = "idle" /\ NotCreating.expired = {}  BY DEF NotCreating
  <2>2. ASSUME NEW q \in Creation, q # r, creation[q].expired # {}
        PROVE  creation[q].transfer # t /\ c \notin creation[q].expired
    <3>1. creation[q].pc \notin {"idle", "lock"}
      BY <2>1, <2>2 DEF ClaimsInv, CreationInv
    <3>2. HoldsTransfer(q, creation[q].transfer) /\ HoldsTransfer(r, t)
      BY <1>1, <3>1 DEF HoldsTransfer, t
    <3>3. creation[q].transfer # t
      BY <1>2, <2>2, <3>2 DEF ClaimsInv, CreationInv
    <3> QED  BY <1>5, <3>3 DEF ClaimsInv, CreationInv, With
  <2>3. ASSUME NEW q \in Creation
        PROVE  creation'[q].expired \subseteq With("active", creation[q].transfer)'
    <3>1. CASE q = r  BY <1>4, <2>1, <3>1
    <3>2. CASE q # r
      <4> SUFFICES ASSUME NEW d \in creation[q].expired
                   PROVE  d \in Claim /\ claim'[d].status = "active"
                          /\ claim'[d].transfer = creation[q].transfer
        BY <1>4, <3>2 DEF With
      <4>1. d \in Claim /\ claim[d].status = "active" /\ claim[d].transfer = creation[q].transfer
        BY DEF ClaimsInv, CreationInv, With
      <4>2. d # c /\ d \notin old  BY <1>5, <2>2, <3>2, <4>1
      <4> QED  BY <1>5, <4>1, <4>2
    <3> QED  BY <3>1, <3>2
  <2> QED
    BY <1>4, <2>1, <2>3 DEF ClaimsInv, CreationInv, HoldsTransfer
<1>8. SingleUse'
  <2>1. \A d \in Claim : claim'[d].status = "redeemed" <=> claim[d].status = "redeemed"
    BY <1>3, <1>5
  <2>2. \A d \in Claim : claim[d].status = "redeemed" => claim'[d] = claim[d]
    BY <1>5
  <2>3. \A d \in Claim : claim'[d].status = "active" /\ d # c =>
          claim'[d] = claim[d] /\ claim[d].transfer # t
    BY <1>2, <1>5 DEF With
  <2>4. \A d \in Claim : answered[d] # {} => claim[d].status = "redeemed"
    BY DEF ClaimsInv
  <2>5. ASSUME NEW d \in Claim, NEW e \in Claim, claim'[d].transfer = claim'[e].transfer,
               claim'[d].status = claim'[e].status, claim'[d].status \in {"active", "redeemed"}
        PROVE  d = e
    <3>1. claim[d] = claim'[d] /\ claim[e] = claim'[e] => d = e
      BY <2>5 DEF ClaimsInv, SingleUse
    <3>2. CASE claim'[d].status = "redeemed"
      <4>1. claim[d].status = "redeemed" /\ claim[e].status = "redeemed"
        BY <2>1, <2>5, <3>2
      <4> QED  BY <2>2, <3>1, <4>1
    <3>3. CASE claim'[d].status = "active"
      <4>1. claim'[c].transfer = t  BY <1>3, <1>5
      <4>2. d # c => claim'[d] = claim[d] /\ claim'[d].transfer # t  BY <2>3, <3>3
      <4>3. e # c => claim'[e] = claim[e] /\ claim'[e].transfer # t  BY <2>3, <2>5, <3>3
      <4> QED  BY <2>5, <3>1, <4>1, <4>2, <4>3
    <3> QED  BY <2>5, <3>2, <3>3
  <2>6. ASSUME NEW d \in Claim, NEW e \in Claim, claim'[d].transfer = claim'[e].transfer,
               NEW k \in answered[d], NEW l \in answered[e]
        PROVE  d = e /\ k = l /\ claim'[d].key = k
    BY <2>2, <2>4, <2>6 DEF ClaimsInv, SingleUse
  <2> QED  BY <1>1, <2>5, <2>6 DEF SingleUse
<1>9. /\ \A d \in Claim : claim'[d].status # "none" => claim'[d].transfer \in PaidTransfer
      /\ \A d \in Claim : \A k \in answered'[d] :
           claim'[d].status = "redeemed" /\ claim'[d].key = k
  BY <1>1, <1>2, <1>3, <1>5 DEF ClaimsInv
<1>10. \A d \in Claim : claim[d].status \notin {"none", "active"} => claim'[d] = claim[d]
  BY <1>5
<1> QED  BY <1>6, <1>7, <1>8, <1>9, <1>10 DEF ClaimsInv

(* What the holder of the link does to an active claim that no creation    *)
(* is expiring.                                                            *)
LEMMA ClaimMoves ==
  ASSUME ClaimsInv, NEW c \in Claim, NEW row \in ClaimRow,
         Unlocked(c), claim[c].status = "active", row.transfer = claim[c].transfer,
         row.status # "none",
         row.status = "redeemed" => With("redeemed", claim[c].transfer) = {},
         claim' = [claim EXCEPT ![c] = row], UNCHANGED <<creation, lapsed>>,
         \/ UNCHANGED answered
         \/ \E k \in RedeemKey : /\ answered' = [answered EXCEPT ![c] = @ \cup {k}]
                                 /\ row.status = "redeemed" /\ row.key = k
  PROVE  /\ ClaimsInv'
         /\ \A d \in Claim : claim[d].status \notin {"none", "active"} => claim'[d] = claim[d]
<1>1. \A d \in Claim : claim'[d] = IF d = c THEN row ELSE claim[d]
  BY DEF ClaimsInv, ClaimTypes
<1>2. ClaimTypes'  BY DEF ClaimsInv, ClaimTypes
<1>3. CreationInv'
  <2>1. ASSUME NEW q \in Creation, NEW d \in creation[q].expired
        PROVE  d \in With("active", creation[q].transfer)'
    BY <1>1 DEF Unlocked, With, ClaimsInv, CreationInv
  <2>2. \A q \in Creation : creation'[q].expired \subseteq With("active", creation[q].transfer)'
    BY <2>1
  <2> QED  BY <2>2 DEF ClaimsInv, CreationInv, HoldsTransfer
<1>4. /\ answered[c] = {} /\ \A d \in Claim : d # c => answered'[d] = answered[d]
      /\ \A k \in answered'[c] : row.status = "redeemed" /\ row.key = k
  BY DEF ClaimsInv, ClaimTypes
<1>5. SingleUse'
  <2>1. \A d \in Claim : claim[d].status = "redeemed" /\ claim[d].transfer = claim[c].transfer
          => row.status # "redeemed"
    BY DEF With
  <2>2. ASSUME NEW d \in Claim, NEW e \in Claim, claim'[d].transfer = claim'[e].transfer,
               claim'[d].status = claim'[e].status, claim'[d].status \in {"active", "redeemed"}
        PROVE  d = e
    BY <1>1, <2>1, <2>2 DEF ClaimsInv, SingleUse
  <2>3. ASSUME NEW d \in Claim, NEW e \in Claim, claim'[d].transfer = claim'[e].transfer,
               NEW k \in answered'[d], NEW l \in answered'[e]
        PROVE  d = e /\ k = l /\ claim'[d].key = k
    <3>1. \A f \in Claim : \A m \in answered'[f] :
            claim'[f].status = "redeemed" /\ claim'[f].key = m
      BY <1>1, <1>4 DEF ClaimsInv
    <3>2. d = e  BY <2>2, <2>3, <3>1
    <3> QED  BY <2>3, <3>1, <3>2
  <2> QED  BY <2>2, <2>3 DEF SingleUse
<1>6. /\ \A d \in Claim : claim'[d].status # "none" => claim'[d].transfer \in PaidTransfer
      /\ \A d \in Claim : \A k \in answered'[d] :
           claim'[d].status = "redeemed" /\ claim'[d].key = k
  BY <1>1, <1>4 DEF ClaimsInv
<1>7. \A d \in Claim : claim[d].status \notin {"none", "active"} => claim'[d] = claim[d]
  BY <1>1
<1> QED  BY <1>2, <1>3, <1>5, <1>6, <1>7 DEF ClaimsInv

LEMMA RedeemSteps ==
  ASSUME ClaimsInv, RedeemRequest
  PROVE  /\ ClaimsInv'
         /\ \A d \in Claim : claim[d].status \notin {"none", "active"} => claim'[d] = claim[d]
<1>1. PICK c \in Claim : \/ RedeemExpired(c) \/ RedeemWrongSecret(c)
                         \/ \E k \in RedeemKey : RedeemReplay(c, k) \/ Redeem(c, k)
  BY DEF RedeemRequest
<1>2. claim[c] \in ClaimRow /\ claim \in [Claim -> ClaimRow]
      /\ answered \in [Claim -> SUBSET RedeemKey]
  BY DEF ClaimsInv, ClaimTypes
<1>3. CASE RedeemExpired(c)
  <2> DEFINE row == [claim[c] EXCEPT !.status = "expired"]
  <2>1. claim' = [claim EXCEPT ![c] = row]  BY <1>2, <1>3 DEF RedeemExpired
  <2>2. row \in ClaimRow /\ row.status = "expired" /\ row.transfer = claim[c].transfer
    BY <1>2 DEF ClaimRow
  <2> HIDE DEF row
  <2> QED  BY <1>3, <2>1, <2>2, ClaimMoves DEF RedeemExpired
<1>4. CASE RedeemWrongSecret(c)
  <2> DEFINE row == NextClaimFailureState(claim[c])
  <2>1. claim' = [claim EXCEPT ![c] = row]  BY <1>2, <1>4 DEF RedeemWrongSecret
  <2>2. row \in ClaimRow /\ row.status \in {"locked", "active"}
        /\ row.transfer = claim[c].transfer
    <3> DEFINE fails == claim[c].fails + 1
               status == IF fails >= MaxAttempts THEN "locked" ELSE "active"
    <3>1. row = [claim[c] EXCEPT !.fails = fails, !.status = status]
      BY DEF NextClaimFailureState
    <3>2. fails \in Nat /\ status \in {"locked", "active"}  BY <1>2 DEF ClaimRow
    <3> HIDE DEF fails, status, row
    <3> QED  BY <1>2, <3>1, <3>2 DEF ClaimRow
  <2> HIDE DEF row
  <2> QED  BY <1>4, <2>1, <2>2, ClaimMoves DEF RedeemWrongSecret
<1>5. ASSUME NEW k \in RedeemKey, RedeemReplay(c, k)
      PROVE  ClaimsInv' /\ UNCHANGED claim
  <2>1. /\ claim[c].status = "redeemed" /\ claim[c].key = k
        /\ answered' = [answered EXCEPT ![c] = @ \cup {k}] /\ UNCHANGED <<claim, lapsed, creation>>
    BY <1>5 DEF RedeemReplay, Succeeds
  <2>2. \A d \in Claim : answered'[d] = IF d = c THEN answered[c] \cup {k} ELSE answered[d]
    BY <1>2, <2>1
  <2>3. ClaimTypes'  BY <1>2, <2>1 DEF ClaimsInv, ClaimTypes
  <2>4. CreationInv'  BY <2>1 DEF ClaimsInv, CreationInv, HoldsTransfer, With
  <2>5. \A d \in Claim : \A l \in answered'[d] : claim[d].status = "redeemed" /\ claim[d].key = l
    BY <2>1, <2>2 DEF ClaimsInv
  <2>6. SingleUse'  BY <2>1, <2>5 DEF ClaimsInv, SingleUse
  <2> QED  BY <2>1, <2>3, <2>4, <2>5, <2>6 DEF ClaimsInv
<1>6. ASSUME NEW k \in RedeemKey, Redeem(c, k)
      PROVE  /\ ClaimsInv'
             /\ \A d \in Claim : claim[d].status \notin {"none", "active"} => claim'[d] = claim[d]
  <2> DEFINE row == [claim[c] EXCEPT !.status = "redeemed", !.key = k]
  <2>1. claim' = [claim EXCEPT ![c] = row]  BY <1>2, <1>6 DEF Redeem
  <2>2. row \in ClaimRow /\ row.status = "redeemed" /\ row.key = k
        /\ row.transfer = claim[c].transfer
    BY <1>2 DEF ClaimRow
  <2> HIDE DEF row
  <2> QED  BY <1>6, <2>1, <2>2, ClaimMoves DEF Redeem, Succeeds
<1> QED  BY <1>1, <1>3, <1>4, <1>5, <1>6

LEMMA ClaimsNext ==
  ClaimsInv /\ [NextMoney]_moneyVars =>
    /\ ClaimsInv'
    /\ \A d \in Claim : claim[d].status \notin {"none", "active"} => claim'[d] = claim[d]
<1> SUFFICES ASSUME ClaimsInv, [NextMoney]_moneyVars
             PROVE  /\ ClaimsInv'
                    /\ \A d \in Claim : claim[d].status \notin {"none", "active"} => claim'[d] = claim[d]
  OBVIOUS
<1>1. CASE UNCHANGED claimVars
  BY <1>1 DEF claimVars, ClaimsInv, ClaimTypes, CreationInv, SingleUse, HoldsTransfer, With
<1>2. ASSUME NEW c \in Claim, ClaimLapses(c)  PROVE ClaimsInv' /\ UNCHANGED claim
  BY <1>2 DEF ClaimLapses, ClaimsInv, ClaimTypes, CreationInv, SingleUse, HoldsTransfer, With
<1>3. CASE Create
  BY <1>3, CreationStep, InsertStep DEF Create
<1>4. CASE RedeemRequest  BY <1>4, RedeemSteps
<1> QED  BY <1>1, <1>2, <1>3, <1>4 DEF NextMoney, NextClaims, moneyVars

(* One live claim and one redemption for a transfer, and one key that is   *)
(* ever answered with success, however creations and redemptions race.     *)
THEOREM ClaimsAreSingleUse == SpecMoney => []SingleUse
<1>1. ClaimsInv => SingleUse  BY DEF ClaimsInv
<1> QED  BY <1>1, ClaimsInit, ClaimsNext, PTL DEF SpecMoney

(* A redemption, an expiry or a lock is never undone. *)
THEOREM ClaimOutcomesAreFinal == SpecMoney => OutcomeIsFinal
<1> DEFINE Kept == \A c \in Claim : claim[c].status \in {"redeemed", "expired", "locked"} =>
                     claim'[c] = claim[c]
<1>1. ClaimsInv /\ [NextMoney]_moneyVars => [Kept]_claimVars  BY ClaimsNext
<1> QED  BY <1>1, ClaimsInit, ClaimsNext, PTL DEF SpecMoney, OutcomeIsFinal
=============================================================================
