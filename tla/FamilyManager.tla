---------------------------- MODULE FamilyManager ----------------------------
(***************************************************************************)
(* The family page of the customer application over FamilyDistribution:    *)
(* plans are saved from the shares that are typed, and executed one at a   *)
(* time, each press with an idempotency key of its own.                    *)
(***************************************************************************)
EXTENDS FamilyDistribution

CONSTANT ShareSheets   \* what the share fields may hold, like Allocations

VARIABLE managing   \* the state of the page and the calls it awaits

managerVars == <<vars, managing>>

NoPress == [plan |-> "none", execution |-> "none", key |-> "none"]
Unpaid == [answer |-> "none", key |-> "none", amount |-> 0]

InitManager ==
  managing \in [sheet : {<<>>}, plans : {{}}, saving : {<<>>},
                typed : {[p \in Plan |-> 0]}, press : {NoPress},
                results : {[p \in Plan |-> Unpaid]}, used : {{}},
                allowed : BOOLEAN]

OnServer == UNCHANGED vars

TypeShares(s) ==
  /\ managing.sheet # s
  /\ managing' = [managing EXCEPT !.sheet = s]
  /\ OnServer

-----------------------------------------------------------------------------
(* createPlan *)

SharesAddUp(s) ==
  Len(s) >= 2 /\ SumFunction([i \in DOMAIN s |-> s[i].share]) = TotalBasisPoints

(* What the page sends is something a plan may be created with. *)
ASSUME ManagerAssumption ==
  "none" \notin Execution /\ \A s \in ShareSheets : SharesAddUp(s) => s \in Allocations

PressSave ==
  /\ SharesAddUp(managing.sheet) /\ managing.saving = <<>>
  /\ managing' = [managing EXCEPT !.saving = managing.sheet]
  /\ OnServer

(* The answer adds the plan and empties the sheet, whatever was typed      *)
(* meanwhile; without one the plan may be on record and is not shown.      *)
SaveAnswers(p) ==
  /\ managing.saving # <<>>
  /\ CreatePlan(p, managing.saving)
  /\ \/ managing' = [managing EXCEPT !.saving = <<>>, !.sheet = <<>>,
                                     !.plans = @ \cup {p}]
     \/ managing' = [managing EXCEPT !.saving = <<>>]

SaveFails ==
  /\ managing.saving # <<>>
  /\ managing' = [managing EXCEPT !.saving = <<>>]
  /\ OnServer

-----------------------------------------------------------------------------
(* executePlan *)

TypeExecutionAmount(p, a) ==
  /\ p \in managing.plans /\ managing.results[p].answer # "paid"
  /\ managing.typed[p] # a
  /\ managing' = [managing EXCEPT !.typed[p] = a]
  /\ OnServer

(* A plan that was paid shows its result in the place of the button, and   *)
(* one execution at a time is awaited.                                     *)
MayExecute(p) ==
  /\ managing.allowed /\ managing.typed[p] > 0 /\ managing.press = NoPress
  /\ p \in managing.plans /\ managing.results[p].answer # "paid"

PressExecute(p, x, e) ==
  /\ MayExecute(p) /\ e \notin managing.used
  /\ ExecuteBegin(x, e, p, managing.typed[p])
  /\ managing' = [managing EXCEPT !.used = @ \cup {e},
       !.press = [plan |-> p, execution |-> x, key |-> e],
       !.results[p] = Unpaid]

Awaits(x) == managing.press.execution = x

Result(answer, x) ==
  [managing EXCEPT !.press = NoPress,
     !.results[managing.press.plan] =
       [answer |-> answer, key |-> managing.press.key, amount |-> executing[x].amount]]

FaultyOutcomeOf(x) == "paid"
OutcomeOf(x) == IF executing[x].pc = "answered" THEN "paid" ELSE "refused"

(* The service works on an execution; its end answers the page, if that    *)
(* still waits.                                                            *)
ExecutionServed(x) ==
  \/ (ExecuteLockPlan(x) \/ Execute(x)) /\ UNCHANGED managing
  \/ /\ ExecuteEnd(x)
     /\ managing' = IF Awaits(x) THEN Result(OutcomeOf(x), x) ELSE managing

(* The gateway gives up or the answer is lost: an error, and the button.   *)
ExecutionUnanswered(x) ==
  /\ Awaits(x) /\ executing[x] # Waiting
  /\ managing' = Result("lost", x)
  /\ OnServer

NextManager ==
  \/ \E s \in ShareSheets : TypeShares(s)
  \/ PressSave \/ SaveFails
  \/ \E p \in Plan : SaveAnswers(p)
  \/ \E p \in Plan, a \in ExecAmounts : TypeExecutionAmount(p, a)
  \/ \E p \in Plan, x \in Execution, e \in ExecKey : PressExecute(p, x, e)
  \/ \E x \in Execution : ExecutionServed(x) \/ ExecutionUnanswered(x)

SpecManager == Init /\ InitManager /\ [][NextManager]_managerVars

-----------------------------------------------------------------------------
(* Properties *)

(* family-distribution-manager.tsx:82-97, 121: a distribution the page     *)
(* shows as paid is on record with that amount, for that plan, and one it  *)
(* says was refused never is, however the service goes on with others.     *)
ResultsAreTrue ==
  \A p \in Plan :
    LET shown == managing.results[p]
    IN /\ shown.answer = "paid" =>
            /\ execution[shown.key].plan = p
            /\ execution[shown.key].amount = shown.amount
       /\ shown.answer = "refused" => execution[shown.key] = NoExecution

(* docs/DELIVERY_PLAN.md:165: "Retrying a family transfer never duplicates *)
(* a leg."  Executing a plan again from the page is a retry: a plan that   *)
(* was paid has no button.                                                 *)
RetryPaysOnce ==
  \A d, e \in ExecKey :
    /\ execution[d] # NoExecution
    /\ execution[d].plan = execution[e].plan
    /\ execution[d].amount = execution[e].amount
    => d = e
=============================================================================
