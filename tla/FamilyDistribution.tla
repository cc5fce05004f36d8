------------------------- MODULE FamilyDistribution -------------------------
(***************************************************************************)
(* Family distributions: plans that share an amount among recipients, and  *)
(* their execution, which pays every recipient from the sandbox wallet in  *)
(* one transaction.  Composed with SandboxTransfers: both debit the same   *)
(* wallet and write the same transfers, whose keys may collide.            *)
(***************************************************************************)
EXTENDS SandboxTransfers, Sequences, Functions

CONSTANTS
  Plan,              \* bound: plan ids
  Recipient,         \* the account's recipients
  Allocations,       \* allocations a plan may be created with: sequences of
                     \* [recipient, share] in the order of their position
  ExecKey,           \* idempotency keys of executions
  Execution,         \* concurrent executions
  ExecAmounts,       \* amounts that may be distributed
  LegKey,            \* the key of a recipient's transfer in an execution
  TotalBasisPoints   \* 10000

(* A recipient is once in a plan (020_family_distribution.sql:25), and the *)
(* key of a leg is that of the execution with the recipient's id.          *)
ASSUME FamilyAssumption ==
  /\ Allocations \subseteq Seq([recipient : Recipient, share : Nat])
  /\ \A s \in Allocations : Len(s) >= 2 /\ IsInjective([i \in DOMAIN s |-> s[i].recipient])
  /\ LegKey \in [ExecKey -> [Recipient -> Key]]
  /\ \A e \in ExecKey : IsInjective(LegKey[e])
  /\ ExecAmounts \subseteq Nat \ {0} /\ TotalBasisPoints \in Nat \ {0}

VARIABLES
  plan,        \* platform.family_distribution_plan and its members
  execution,   \* platform.family_distribution_execution, by key
  executing    \* the executions under way

familyVars == <<plan, execution, executing>>
vars == <<transferVars, familyVars>>

NoExecution == [plan |-> "none", amount |-> 0, fee |-> 0]
Waiting == [pc |-> "idle", key |-> "none", plan |-> "none", amount |-> 0,
            began |-> 0]

Init ==
  /\ InitTransfers
  /\ plan = [p \in Plan |-> <<>>]
  /\ execution = [e \in ExecKey |-> NoExecution]
  /\ executing = [x \in Execution |-> Waiting]

(* createFamilyDistribution: the shares are positive and add up; what a    *)
(* repeated key is answered is decided by the insert that conflicts.       *)
CreatePlan(p, s) ==
  /\ plan[p] = <<>>
  /\ \A i \in DOMAIN s : s[i].share \in 1..TotalBasisPoints
  /\ SumFunction([i \in DOMAIN s |-> s[i].share]) = TotalBasisPoints
  /\ plan' = [plan EXCEPT ![p] = s]
  /\ UNCHANGED <<transferVars, execution, executing>>

-----------------------------------------------------------------------------
(* executeFamilyDistribution *)

(* A used key answers with its execution if the amount is the same, and    *)
(* conflicts otherwise.                                                    *)
ExecuteBegin(x, e, p, amount) ==
  /\ executing[x] = Waiting /\ plan[p] # <<>>
  /\ execution[e] # NoExecution => execution[e].amount = amount
  /\ executing' = [executing EXCEPT ![x] =
       [pc |-> IF execution[e] = NoExecution THEN "lockPlan" ELSE "answered",
        key |-> e, plan |-> p, amount |-> amount, began |-> now]]
  /\ UNCHANGED <<transferVars, plan, execution>>

(* select ... for update of the plan *)
ExecuteLockPlan(x) ==
  /\ executing[x].pc = "lockPlan"
  /\ ~ \E o \in Execution :
         executing[o].pc = "execute" /\ executing[o].plan = executing[x].plan
  /\ executing' = [executing EXCEPT ![x].pc = "execute"]
  /\ UNCHANGED <<transferVars, plan, execution>>

FaultyLegs(s, total) ==
  [i \in DOMAIN s |-> (total * s[i].share) \div TotalBasisPoints]

(* Every recipient gets its share rounded down, the last one the rest. *)
Legs(s, total) ==
  LET floor == [i \in DOMAIN s |-> (total * s[i].share) \div TotalBasisPoints]
  IN [floor EXCEPT ![Len(s)] =
        total - SumFunctionOnSet(floor, 1..(Len(s) - 1))]

Fees(leg) == SumFunction([i \in DOMAIN leg |-> Fee(leg[i])])

(* One debit for the whole, one transfer with its ledger transaction per   *)
(* recipient, and the commit.  There is no compliance gate on this path.   *)
Execute(x) ==
  LET job == executing[x]
      s == plan[job.plan]
      leg == Legs(s, job.amount)
      fee == Fees(leg)
      at == [i \in DOMAIN s |-> LegKey[job.key][s[i].recipient]]
      legOf == [k \in Range(at) |-> CHOOSE i \in DOMAIN s : at[i] = k]
  IN /\ job.pc = "execute"
     /\ \A i \in DOMAIN s : leg[i] > 0
     /\ Afford(job.amount + fee)
     /\ execution[job.key] = NoExecution
     /\ \A i \in DOMAIN s : KeyFree(at[i])
     /\ balance' = balance - job.amount - fee
     /\ Post(SumFunction(leg), SumFunction([i \in DOMAIN s |-> Fee(leg[i])]))
     /\ execution' = [execution EXCEPT ![job.key] =
          [plan |-> job.plan, amount |-> job.amount, fee |-> fee]]
     /\ transfer' = [k \in Key |-> IF k \in Range(at)
          THEN [quote |-> NoQuote, amount |-> leg[legOf[k]],
                fee |-> Fee(leg[legOf[k]]), created |-> job.began,
                kind |-> "family"]
          ELSE transfer[k]]
     /\ executing' = [executing EXCEPT ![x].pc = "answered"]
     /\ UNCHANGED <<quote, reviewed, screened, request, enforced, now, plan>>

(* The answer has been sent, or the transaction is rolled back. *)
ExecuteEnd(x) ==
  /\ executing[x] # Waiting
  /\ executing' = [executing EXCEPT ![x] = Waiting]
  /\ UNCHANGED <<transferVars, plan, execution>>

NextFamily ==
  \/ \E p \in Plan, s \in Allocations : CreatePlan(p, s)
  \/ \E x \in Execution :
       \/ ExecuteLockPlan(x) \/ Execute(x) \/ ExecuteEnd(x)
       \/ \E e \in ExecKey, p \in Plan, a \in ExecAmounts : ExecuteBegin(x, e, p, a)

Next ==
  \/ NextTransfers /\ UNCHANGED familyVars
  \/ NextFamily

Spec == Init /\ [][Next]_vars

-----------------------------------------------------------------------------
(* Properties *)

(* services/platform/README.md:101-108: an execution that is on record     *)
(* paid every recipient of its plan, its transfers add up to its amount    *)
(* and its fee, and none of them is short of its share by a unit or more;  *)
(* and its one debit leaves the wallet explained by the transfers.         *)
ExecutionWhole ==
  /\ WalletExplained
  /\ \A e \in ExecKey : execution[e] # NoExecution =>
       LET s == plan[execution[e].plan]
           leg(i) == transfer[LegKey[e][s[i].recipient]]
       IN /\ \A i \in DOMAIN s :
               /\ leg(i).kind = "family"
               /\ (leg(i).amount + 1) * TotalBasisPoints > execution[e].amount * s[i].share
          /\ SumFunction([i \in DOMAIN s |-> leg(i).amount]) = execution[e].amount
          /\ SumFunction([i \in DOMAIN s |-> leg(i).fee]) = execution[e].fee
=============================================================================
