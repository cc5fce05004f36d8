------------------------------ MODULE SendFlow ------------------------------
(***************************************************************************)
(* The send page of the customer application over SandboxTransfers: a      *)
(* quote is asked for and shown, and what is shown is confirmed, through a *)
(* gateway that gives up after ten seconds while the service goes on.      *)
(***************************************************************************)
EXTENDS SandboxTransfers

CONSTANT Typed   \* what the amount field may hold; 0: nothing that is positive

ASSUME SendAssumption == Typed \subseteq Nat /\ "none" \notin Request

VARIABLE sending   \* the state of the page and the call it awaits

sendVars == <<transferVars, sending>>

NoCall == [kind |-> "none", amount |-> 0, request |-> "none", key |-> NoKey]

(* shown: the quote on the page.  confirmed: the quote, the key and the    *)
(* last answer of a confirmation.                                          *)
NoPage == [typed |-> 0, shown |-> NoQuote, named |-> FALSE, call |-> NoCall,
           answer |-> "none", confirmed |-> [key |-> NoKey, quote |-> NoQuote],
           used |-> {}, allowed |-> FALSE]

InitSend ==
  \E a \in Typed, allowed \in BOOLEAN :
    sending = [NoPage EXCEPT !.typed = a, !.allowed = allowed]

Loading == sending.call # NoCall
Untouched == UNCHANGED transferVars

(* The field stays editable during a call, and drops the quote it shows.   *)
TypeAmount(a) ==
  /\ a # sending.typed
  /\ sending' = [sending EXCEPT !.typed = a, !.shown = NoQuote]
  /\ Untouched

NameRecipient ==
  /\ ~ sending.named
  /\ sending' = [sending EXCEPT !.named = TRUE]
  /\ Untouched

-----------------------------------------------------------------------------
(* createQuote *)

AskQuote ==
  /\ ~ Loading /\ sending.typed > 0
  /\ sending' = [sending EXCEPT !.answer = "none",
       !.call = [NoCall EXCEPT !.kind = "quote", !.amount = sending.typed]]
  /\ Untouched

(* The answer is shown whatever the field holds by now. *)
QuoteAnswers(q) ==
  /\ sending.call.kind = "quote"
  /\ CreateQuote(q, sending.call.amount)
  /\ sending' = [sending EXCEPT !.shown = q, !.call = NoCall]

(* Refused, or timed out with or without a quote made: the quote that was  *)
(* shown is still shown.                                                   *)
QuoteFails ==
  /\ sending.call.kind = "quote"
  /\ Untouched \/ \E q \in Quote : CreateQuote(q, sending.call.amount)
  /\ sending' = [sending EXCEPT !.call = NoCall]

-----------------------------------------------------------------------------
(* transfer *)

(* A result takes the place of the button until another quote is asked.    *)
MayConfirm ==
  /\ sending.shown # NoQuote /\ sending.named /\ sending.allowed
  /\ ~ Loading /\ sending.answer # "done"

(* Every confirmation has a key of its own. *)
ConfirmTransfer(r, k) ==
  /\ MayConfirm /\ k \notin sending.used
  /\ Begin(r, k, sending.shown)
  /\ sending' = [sending EXCEPT !.used = @ \cup {k}, !.answer = "none",
       !.call = [kind |-> "transfer", amount |-> 0, request |-> r, key |-> k],
       !.confirmed = [key |-> k, quote |-> sending.shown]]

Serve(r) == LockQuote(r) \/ Gate(r) \/ Settle(r) \/ Rollback(r)

FaultyAnswered(k) == "done"
Answered(k) == IF transfer'[k] = NoTransfer THEN "refused" ELSE "done"

(* The service works on a request; the last step answers the page, if that *)
(* still waits.                                                            *)
Served(r) ==
  /\ Serve(r)
  /\ sending' = IF sending.call.request = r /\ request'[r] = Idle
       THEN [sending EXCEPT !.call = NoCall, !.answer = Answered(sending.call.key)]
       ELSE sending

(* The gateway gives up, or the answer of a committed transfer is lost:    *)
(* the page reports an error and offers to confirm again.                  *)
TransferUnanswered(r) ==
  /\ sending.call.request = r /\ request[r] # Idle
  /\ Untouched \/ Settle(r)
  /\ sending' = [sending EXCEPT !.call = NoCall, !.answer = "lost"]

NextSend ==
  \/ \E a \in Typed : TypeAmount(a)
  \/ NameRecipient \/ AskQuote \/ QuoteFails
  \/ \E q \in Quote : QuoteAnswers(q) \/ (Lapse(q) /\ UNCHANGED sending)
  \/ \E r \in Request :
       \/ Served(r) \/ TransferUnanswered(r)
       \/ \E k \in Key : ConfirmTransfer(r, k)
  \/ Screen /\ UNCHANGED sending

SpecSend == InitSend /\ InitTransfers /\ [][NextSend]_sendVars

-----------------------------------------------------------------------------
(* Properties *)

(* send-flow.tsx:54-75, 204-232: what the page says of a confirmation is   *)
(* what became of it, whatever else was asked, typed or lost meanwhile: a  *)
(* transfer that is confirmed is on record under its key with the quote    *)
(* that was shown, and none is under the key of a refusal, ever after.     *)
AnswersAreTrue ==
  LET made == transfer[sending.confirmed.key]
  IN /\ sending.answer = "done" =>
          made.kind = "direct" /\ made.quote = sending.confirmed.quote
     /\ sending.answer = "refused" => made = NoTransfer
=============================================================================
