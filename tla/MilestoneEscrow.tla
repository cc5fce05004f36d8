--------------------------- MODULE MilestoneEscrow ---------------------------
(***************************************************************************)
(* The Soroban milestone escrow contract: one instance that keeps the      *)
(* tokens of all its escrows in one balance per token.  An invocation is   *)
(* one step; one that returns an error is rolled back and changes nothing, *)
(* so every early return is the negation of a guard.  The expiry and       *)
(* restoration of ledger entries only delay a call and are left out.       *)
(***************************************************************************)
EXTENDS Integers, Sequences, Functions

CONSTANTS
  Escrow,          \* escrow ids
  Account,         \* addresses that can sign
  Token,           \* token contracts
  Milestones,      \* the lists of amounts a caller may pass
  MaxMilestones,   \* MAX_MILESTONES
  MaxInt,          \* the largest i128
  Supply,          \* bound: tokens of each kind that each account starts with
  MaxTime          \* bound: ledger timestamps

Contract == "contract"
Address == Account \cup {Contract}

ASSUME EscrowAssumption ==
  /\ Contract \notin Account
  /\ Milestones \subseteq Seq(Int)
  /\ MaxMilestones \in Nat /\ MaxInt \in Nat /\ Supply \in Nat /\ MaxTime \in Nat

VARIABLES
  escrow,      \* DataKey::Escrow
  milestone,   \* DataKey::Milestone, the entries of an escrow in order
  balance,     \* what each address holds of each token
  now          \* env.ledger().timestamp()

vars == <<escrow, milestone, balance, now>>

NotFound == [status |-> "none", funder |-> Contract, beneficiary |-> Contract,
             arbiter |-> Contract, token |-> "none", total |-> 0,
             released |-> 0, next |-> 0, count |-> 0, refundAfter |-> 0]

Init ==
  /\ escrow = [e \in Escrow |-> NotFound]
  /\ milestone = [e \in Escrow |-> <<>>]
  /\ balance = [a \in Address |->
                 [t \in Token |-> IF a = Contract THEN 0 ELSE Supply]]
  /\ now = 0

(* TokenClient::transfer: fails unless the sender holds the amount. *)
Transfer(t, from, to, amount) ==
  /\ balance[from][t] >= amount
  /\ balance' = IF from = to THEN balance ELSE
       [balance EXCEPT ![from][t] = @ - amount, ![to][t] = @ + amount]

Tick == now < MaxTime /\ now' = now + 1 /\ UNCHANGED <<escrow, milestone, balance>>

(* Transfers of the token that the contract takes no part in sending. *)
ExternalTransfer(t, from, to) ==
  /\ from # to
  /\ Transfer(t, from, to, 1)
  /\ UNCHANGED <<escrow, milestone, now>>

-----------------------------------------------------------------------------
(* The entries create writes, and the transfer that funds them. *)
Opened(e, f, b, a, t, amounts, refundAfter) ==
  LET total == SumFunction(amounts)
  IN /\ milestone' = [milestone EXCEPT ![e] =
          [i \in DOMAIN amounts |-> [amount |-> amounts[i], released |-> FALSE]]]
     /\ escrow' = [escrow EXCEPT ![e] =
          [status |-> "Open", funder |-> f, beneficiary |-> b, arbiter |-> a,
           token |-> t, total |-> total, released |-> 0, next |-> 0,
           count |-> Len(amounts), refundAfter |-> refundAfter]]
     /\ Transfer(t, f, Contract, total)

Positive(amounts) == \A i \in DOMAIN amounts : amounts[i] > 0

FaultyCreateOverwrites(e, f, b, a, t, amounts, refundAfter) ==
  /\ f # b /\ f # a /\ b # a
  /\ refundAfter > now
  /\ Len(amounts) \in 1..MaxMilestones
  /\ Positive(amounts) /\ SumFunction(amounts) <= MaxInt
  /\ Opened(e, f, b, a, t, amounts, refundAfter)
  /\ UNCHANGED now

(* create, signed by the funder.  Amounts are positive, so a total within  *)
(* i128 means that no checked_add of the loop failed.                      *)
Create(e, f, b, a, t, amounts, refundAfter) ==
  /\ f # b /\ f # a /\ b # a
  /\ refundAfter > now
  /\ Len(amounts) \in 1..MaxMilestones
  /\ escrow[e].status = "none"
  /\ Positive(amounts) /\ SumFunction(amounts) <= MaxInt
  /\ Opened(e, f, b, a, t, amounts, refundAfter)
  /\ UNCHANGED now

FaultyReleaseWithoutProgress(e, signer) ==
  LET row == escrow[e]
      i == row.next + 1
      amount == milestone[e][i].amount
  IN /\ signer = row.arbiter /\ row.status = "Open" /\ row.next < row.count
     /\ milestone' = [milestone EXCEPT ![e][i].released = TRUE]
     /\ escrow' = [escrow EXCEPT ![e] = [row EXCEPT !.next = @ + 1,
          !.status = IF i = row.count THEN "Complete" ELSE @]]
     /\ Transfer(row.token, Contract, row.beneficiary, amount)
     /\ UNCHANGED now

(* release, signed by the arbiter; it may come after refund_after. *)
Release(e, signer) ==
  LET row == escrow[e]
      i == row.next + 1
      amount == milestone[e][i].amount
  IN /\ signer = row.arbiter
     /\ row.status = "Open"
     /\ row.next < row.count
     /\ row.released + amount <= MaxInt
     /\ milestone' = [milestone EXCEPT ![e][i].released = TRUE]
     /\ escrow' = [escrow EXCEPT ![e] =
          [row EXCEPT !.released = @ + amount, !.next = @ + 1,
                      !.status = IF i = row.count THEN "Complete" ELSE @]]
     /\ Transfer(row.token, Contract, row.beneficiary, amount)
     /\ UNCHANGED now

(* refund, signed by the funder. *)
Refund(e, signer) ==
  LET row == escrow[e]
      remaining == row.total - row.released
  IN /\ signer = row.funder
     /\ row.status = "Open"
     /\ now >= row.refundAfter
     /\ remaining > 0
     /\ escrow' = [escrow EXCEPT ![e].status = "Refunded"]
     /\ Transfer(row.token, Contract, row.funder, remaining)
     /\ UNCHANGED <<milestone, now>>

Invoke ==
  \E e \in Escrow, signer \in Account :
    \/ Release(e, signer) \/ Refund(e, signer)
    \/ \E b, a \in Address, t \in Token, amounts \in Milestones,
          refundAfter \in 0..MaxTime :
         Create(e, signer, b, a, t, amounts, refundAfter)

Next ==
  \/ Invoke \/ Tick
  \/ \E t \in Token, from \in Account, to \in Address :
       ExternalTransfer(t, from, to)

Spec == Init /\ [][Next]_vars

-----------------------------------------------------------------------------
(* Properties *)

Owed(e) ==
  IF escrow[e].status = "Open" THEN escrow[e].total - escrow[e].released ELSE 0

(* docs/SMART_CONTRACT_AUDIT.md:9-15: the entry of an escrow is the account *)
(* of its milestones.  They are released in order, what was released is     *)
(* their sum and the rest is what it may still cost; it is complete exactly *)
(* when all of them are released, and an open one can always be refunded.   *)
BooksBalance ==
  \A e \in Escrow :
    LET row == escrow[e]
        amounts == [i \in DOMAIN milestone[e] |-> milestone[e][i].amount]
    IN row.status # "none" =>
         /\ row.count = Len(milestone[e])
         /\ row.total = SumFunction(amounts)
         /\ row.released = SumFunctionOnSet(amounts, 1..row.next)
         /\ \A i \in 1..row.count : milestone[e][i].released <=> i <= row.next
         /\ row.status = "Complete" <=> row.next = row.count
         /\ row.status = "Open" => row.total > row.released

(* The contract implements EscrowCustody. *)
Custody == INSTANCE EscrowCustody WITH
  kept <- [e \in Escrow |-> Owed(e)],
  token <- [e \in Escrow |-> escrow[e].token],
  vault <- balance[Contract]
KeepsCustody == Custody!Spec
=============================================================================
