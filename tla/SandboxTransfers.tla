-------------------------- MODULE SandboxTransfers --------------------------
(***************************************************************************)
(* Transfers from the sandbox wallet of one account: quotes, createTransfer *)
(* and the compliance gate in it.  A request is one transaction at READ    *)
(* COMMITTED whose statements interleave with those of other requests:     *)
(* the look-up of the idempotency key, the locked read of the quote, the   *)
(* gate under the account's advisory lock.  From the debit on the wallet's *)
(* row is locked, which orders whatever follows, so the debit, the records *)
(* and the commit are one step.                                            *)
(***************************************************************************)
EXTENDS Integers, FiniteSets, FiniteSetsExt

CONSTANTS
  Quote,        \* bound: the quotes of the account
  Key,          \* idempotency keys of its transfers
  Request,      \* concurrent requests
  NoQuote, NoKey,
  Amounts,      \* amounts a quote may be asked for, in units
  FeeDivisor,   \* 100: the fee is one hundredth of the amount
  Opening,      \* balance of a new wallet
  MaxCount,     \* velocity_count rule: the transfer that is reviewed
  MaxAmount,    \* velocity_amount rule: the total that is reviewed
  Hour, Day,    \* the windows of the two rules
  MaxTime       \* bound: instants

ASSUME TransfersAssumption ==
  /\ NoQuote \notin Quote /\ NoKey \notin Key
  /\ Amounts \subseteq Nat \ {0} /\ FeeDivisor \in Nat \ {0}
  /\ Opening \in Nat /\ MaxCount \in Nat \ {0} /\ MaxAmount \in Nat \ {0}
  /\ Hour \in Nat /\ Day \in Nat /\ MaxTime \in Nat

VARIABLES
  balance,    \* platform.wallet.available_balance
  posted,     \* totals of the account's ledger and of the system's two
  quote,      \* platform.quote
  transfer,   \* platform.transfer, by idempotency key
  reviewed,   \* commands whose review or block is on record
  screened,   \* the latest screening is clear and no signal forbids transfers
  request,    \* the requests under way
  enforced,   \* COMPLIANCE_ENFORCEMENT_ENABLED
  now

transferVars == <<balance, posted, quote, transfer, reviewed, screened,
                  request, enforced, now>>

NoTransfer == [quote |-> NoQuote, amount |-> 0, fee |-> 0, created |-> 0,
               kind |-> "none"]
NoOffer == [status |-> "none", amount |-> 0]
Idle == [pc |-> "idle", key |-> NoKey, quote |-> NoQuote, began |-> 0,
         review |-> FALSE]

(* Fees are rounded to the nearest unit, halves up. *)
Fee(amount) == (amount + FeeDivisor \div 2) \div FeeDivisor

InitTransfers ==
  /\ balance = Opening
  /\ posted = [a \in {"wallet", "settlement", "fees"} |-> 0]
  /\ quote = [q \in Quote |-> NoOffer]
  /\ transfer = [k \in Key |-> NoTransfer]
  /\ reviewed = {}
  /\ screened \in BOOLEAN
  /\ request = [r \in Request |-> Idle]
  /\ enforced \in BOOLEAN
  /\ now = 0

Tick ==
  /\ now < MaxTime /\ now' = now + 1
  /\ UNCHANGED <<balance, posted, quote, transfer, reviewed, screened,
                 request, enforced>>

(* ExecuteScreening records a result, or a signal is raised or resolved. *)
Screen ==
  /\ screened' = ~ screened
  /\ UNCHANGED <<balance, posted, quote, transfer, reviewed, request,
                 enforced, now>>

-----------------------------------------------------------------------------
(* Quotes.  An amount that rounds to no unit at all breaks a constraint.   *)

CreateQuote(q, amount) ==
  /\ quote[q].status = "none"
  /\ quote' = [quote EXCEPT ![q] = [status |-> "active", amount |-> amount]]
  /\ UNCHANGED <<balance, posted, transfer, reviewed, screened, request,
                 enforced, now>>

(* expires_at passes: the row stays active, and createTransfer refuses it. *)
Lapse(q) ==
  /\ quote[q].status = "active"
  /\ quote' = [quote EXCEPT ![q].status = "lapsed"]
  /\ UNCHANGED <<balance, posted, transfer, reviewed, screened, request,
                 enforced, now>>

-----------------------------------------------------------------------------
(* createTransfer *)

End(r) == request' = [request EXCEPT ![r] = Idle]

HoldsQuote(r, q) == request[r].quote = q /\ request[r].pc \in {"gate", "settle"}

(* A key that is already used answers with its transfer and changes        *)
(* nothing.                                                                *)
Begin(r, k, q) ==
  /\ request[r] = Idle
  /\ transfer[k] = NoTransfer
  /\ request' = [request EXCEPT ![r] =
       [pc |-> "lockQuote", key |-> k, quote |-> q, began |-> now,
        review |-> FALSE]]
  /\ UNCHANGED <<balance, posted, quote, transfer, reviewed, screened,
                 enforced, now>>

(* select ... for update: the row is read when its lock is free. *)
LockQuote(r) ==
  LET q == request[r].quote
  IN /\ request[r].pc = "lockQuote"
     /\ ~ \E o \in Request : HoldsQuote(o, q)
     /\ IF quote[q].status = "active"
          THEN request' = [request EXCEPT ![r].pc = "gate"]
          ELSE End(r)
     /\ UNCHANGED <<balance, posted, quote, transfer, reviewed, screened,
                    enforced, now>>

(* Transfers of the account in the window that ends when r began; rows a   *)
(* younger transaction has committed meanwhile are in it too.              *)
Recent(r, window) ==
  {k \in Key : transfer[k].kind # "none"
                 /\ transfer[k].created >= request[r].began - window}
Total(keys) == MapThenSumSet(LAMBDA k : transfer[k].amount, keys)

(* A rule whose action is review or block matches the candidate. *)
Reviewable(r) ==
  \/ Cardinality(Recent(r, Hour)) + 1 >= MaxCount
  \/ Total(Recent(r, Day)) + quote[request[r].quote].amount >= MaxAmount

FaultyHoldsAdvisory(r) == FALSE
HoldsAdvisory(r) == request[r].pc = "settle"

(* assessTransferCompliance.  A refusal commits its record and leaves the  *)
(* quote as it was; otherwise the record is part of the transaction.       *)
Gate(r) ==
  /\ request[r].pc = "gate"
  /\ ~ \E o \in Request : HoldsAdvisory(o)
  /\ IF enforced /\ (Reviewable(r) \/ ~ screened)
       THEN /\ reviewed' = reviewed \cup {request[r].key}
            /\ End(r)
       ELSE /\ request' = [request EXCEPT ![r].pc = "settle",
                                          ![r].review = Reviewable(r)]
            /\ UNCHANGED reviewed
  /\ UNCHANGED <<balance, posted, quote, transfer, screened, enforced, now>>

(* The unique index on the account's keys refuses one that was used since. *)
FaultyKeyFree(k) == TRUE
KeyFree(k) == transfer[k] = NoTransfer

FaultyConsume(q) == UNCHANGED quote
Consume(q) == quote' = [quote EXCEPT ![q].status = "consumed"]

Afford(debit) == balance >= debit

(* The ledger transaction of one transfer. *)
Post(amount, fee) ==
  posted' = [posted EXCEPT !["wallet"] = @ - amount - fee,
                           !["settlement"] = @ + amount, !["fees"] = @ + fee]

(* The debit, the transfer, its quote, its postings and the commit.  A     *)
(* posting of nothing breaks a constraint, so a transfer without a fee     *)
(* fails.                                                                  *)
Settle(r) ==
  LET k == request[r].key
      q == request[r].quote
      amount == quote[q].amount
      fee == Fee(amount)
  IN /\ request[r].pc = "settle"
     /\ Afford(amount + fee)
     /\ balance' = balance - amount - fee
     /\ KeyFree(k)
     /\ transfer' = [transfer EXCEPT ![k] =
          [quote |-> q, amount |-> amount, fee |-> fee,
           created |-> request[r].began, kind |-> "direct"]]
     /\ Consume(q)
     /\ fee # 0 /\ Post(amount, fee)
     /\ reviewed' = IF request[r].review THEN reviewed \cup {k} ELSE reviewed
     /\ End(r)
     /\ UNCHANGED <<screened, enforced, now>>

(* Not enough balance, a conflict, a failed statement, a client that goes  *)
(* away, a restart: everything is rolled back and every lock released.     *)
Rollback(r) ==
  /\ request[r] # Idle
  /\ End(r)
  /\ UNCHANGED <<balance, posted, quote, transfer, reviewed, screened,
                 enforced, now>>

NextTransfers ==
  \/ Tick \/ Screen
  \/ \E q \in Quote : Lapse(q) \/ \E a \in Amounts : CreateQuote(q, a)
  \/ \E r \in Request :
       \/ LockQuote(r) \/ Gate(r) \/ Settle(r) \/ Rollback(r)
       \/ \E k \in Key, q \in Quote : Begin(r, k, q)

SpecTransfers == InitTransfers /\ [][NextTransfers]_transferVars

-----------------------------------------------------------------------------
(* Properties *)

Done(kinds) == {k \in Key : transfer[k].kind \in kinds}

(* The wallet never goes below zero, it is its opening balance and what    *)
(* the ledger posted to it, and the ledger's accounts are the amounts and  *)
(* the fees of the transfers on record: no retry or conflict debits twice, *)
(* and nothing is debited that no transfer explains.                       *)
WalletExplained ==
  LET done == Done({"direct", "family"})
      fees == MapThenSumSet(LAMBDA k : transfer[k].fee, done)
  IN /\ balance >= 0
     /\ balance = Opening + posted["wallet"]
     /\ posted["settlement"] = Total(done) /\ posted["fees"] = fees
     /\ posted["wallet"] + posted["settlement"] + posted["fees"] = 0

(* A quote is consumed by exactly one transfer, which has its amount,      *)
(* however many requests and keys compete for it.                          *)
QuoteUsedOnce ==
  \A q \in Quote :
    LET users == {k \in Done({"direct"}) : transfer[k].quote = q}
    IN /\ Cardinality(users) = IF quote[q].status = "consumed" THEN 1 ELSE 0
       /\ \A k \in users : transfer[k].amount = quote[q].amount

Within(keys, start, window) ==
  {k \in keys : transfer[k].created \in start..(start + window)}

WithinLimits(keys) ==
  \A start \in 0..MaxTime :
    /\ Cardinality(Within(keys, start, Hour)) < MaxCount
    /\ Total(Within(keys, start, Day)) < MaxAmount

(* docs/IN_HOUSE_KYC_AML.md:40-42: "Monitoring snapshots are serialized    *)
(* per account with a transaction-scoped advisory lock so parallel         *)
(* transfer requests cannot bypass velocity thresholds".  In every window, *)
(* however old the snapshot a waiting request began with, the transfers of *)
(* createTransfer stay below the thresholds, except in audit mode those    *)
(* that are on record for review.                                          *)
VelocityHeld ==
  WithinLimits(Done({"direct"}) \ (IF enforced THEN {} ELSE reviewed))
=============================================================================
