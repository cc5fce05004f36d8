-------------------------- MODULE CustomerExperience --------------------------
(***************************************************************************)
(* What a customer has seen: the introduction and the notifications, as    *)
(* the store keeps them and as the layer over every page shows them.       *)
(***************************************************************************)
EXTENDS Naturals

CONSTANTS
  Notification,   \* the supported keys
  Visit,          \* the layer as it is mounted, once or in several tabs
  LastStep        \* the last step of the introduction: 2

ASSUME ExperienceAssumption == LastStep \in Nat

VARIABLES
  onboarded,   \* customer_auth.user_experience is complete at this version
  noticed,     \* customer_auth.user_notification_state: "none", "read", "dismissed"
  layer        \* what each visit shows and awaits

experienceVars == <<onboarded, noticed, layer>>

Unmounted == [mounted |-> FALSE, introducing |-> FALSE, step |-> 0, open |-> FALSE,
              states |-> [n \in Notification |-> "none"], reading |-> {},
              dismissing |-> {}, finishing |-> FALSE, degraded |-> FALSE]

InitExperience ==
  /\ onboarded = FALSE
  /\ noticed = [n \in Notification |-> "none"]
  /\ layer = [v \in Visit |-> Unmounted]

Stored == UNCHANGED <<onboarded, noticed>>
Shows(v, l) == layer' = [layer EXCEPT ![v] = l]

(* getCustomerExperienceOrDefault: a store that cannot be read passes for  *)
(* one that is complete and in which nothing was read.                     *)
Mount(v) ==
  /\ ~ layer[v].mounted
  /\ \/ Shows(v, [Unmounted EXCEPT !.mounted = TRUE, !.introducing = ~ onboarded,
                                   !.states = noticed])
     \/ Shows(v, [Unmounted EXCEPT !.mounted = TRUE, !.degraded = TRUE])
  /\ Stored

Unmount(v) ==
  /\ layer[v].mounted
  /\ Shows(v, Unmounted)
  /\ Stored

-----------------------------------------------------------------------------
(* The introduction *)

ChangeStep(v) ==
  /\ layer[v].introducing
  /\ \E step \in {layer[v].step - 1, layer[v].step + 1} \cap 0..LastStep :
       Shows(v, [layer[v] EXCEPT !.step = step])
  /\ Stored

Busy(v) == layer[v].finishing \/ layer[v].dismissing # {}

(* At the last step, or skipped at any. *)
FinishOnboarding(v) ==
  /\ layer[v].introducing /\ ~ Busy(v)
  /\ Shows(v, [layer[v] EXCEPT !.finishing = TRUE])
  /\ Stored

(* completeCustomerOnboarding, answered or with the answer lost. *)
OnboardingStored(v) ==
  /\ layer[v].finishing
  /\ onboarded' = TRUE /\ UNCHANGED noticed
  /\ \E answered \in BOOLEAN :
       Shows(v, [layer[v] EXCEPT !.finishing = FALSE, !.introducing = ~ answered])

-----------------------------------------------------------------------------
(* The notification center *)

Visible(v) == {n \in Notification : layer[v].states[n] # "dismissed"}
Unread(v) == {n \in Visible(v) : layer[v].states[n] = "none"}

OpenCenter(v) ==
  /\ layer[v].mounted /\ ~ layer[v].introducing /\ ~ layer[v].open
  /\ Shows(v, [layer[v] EXCEPT !.open = TRUE,
       !.reading = IF Unread(v) = {} THEN @ ELSE Unread(v)])
  /\ Stored

CloseCenter(v) ==
  /\ layer[v].open
  /\ Shows(v, [layer[v] EXCEPT !.open = FALSE])
  /\ Stored

(* updateCustomerNotifications without dismissing: what was dismissed      *)
(* stays so.                                                               *)
FaultyRead(keys) ==
  noticed' = [n \in Notification |-> IF n \in keys THEN "read" ELSE noticed[n]]
Read(keys) ==
  noticed' = [n \in Notification |->
    IF n \in keys /\ noticed[n] = "none" THEN "read" ELSE noticed[n]]

(* The answer is laid over what the page shows by now: keys dismissed      *)
(* since they were sent reappear on it.                                    *)
ReadStored(v) ==
  LET keys == layer[v].reading
  IN /\ keys # {}
     /\ Read(keys) /\ UNCHANGED onboarded
     /\ \/ Shows(v, [layer[v] EXCEPT !.reading = {},
             !.states = [n \in Notification |-> IF n \in keys THEN "read" ELSE @[n]]])
        \/ Shows(v, [layer[v] EXCEPT !.reading = {}])

Dismiss(v, n) ==
  /\ layer[v].open /\ n \in Visible(v) /\ ~ Busy(v)
  /\ Shows(v, [layer[v] EXCEPT !.dismissing = {n}])
  /\ Stored

DismissStored(v) ==
  LET keys == layer[v].dismissing
  IN /\ keys # {}
     /\ noticed' = [n \in Notification |-> IF n \in keys THEN "dismissed" ELSE noticed[n]]
     /\ UNCHANGED onboarded
     /\ \/ Shows(v, [layer[v] EXCEPT !.dismissing = {},
             !.states = [n \in Notification |-> IF n \in keys THEN "dismissed" ELSE @[n]]])
        \/ Shows(v, [layer[v] EXCEPT !.dismissing = {}])

(* A call that fails before anything is stored. *)
ExperienceFails(v) ==
  /\ Busy(v) \/ layer[v].reading # {}
  /\ \/ Shows(v, [layer[v] EXCEPT !.finishing = FALSE, !.dismissing = {}])
     \/ Shows(v, [layer[v] EXCEPT !.reading = {}])
  /\ Stored

NextExperience ==
  \E v \in Visit :
    \/ Mount(v) \/ Unmount(v)
    \/ ChangeStep(v) \/ FinishOnboarding(v) \/ OnboardingStored(v)
    \/ OpenCenter(v) \/ CloseCenter(v) \/ ReadStored(v)
    \/ DismissStored(v) \/ ExperienceFails(v)
    \/ \E n \in Notification : Dismiss(v, n)

-----------------------------------------------------------------------------
(* Properties *)

(* The layer hides nothing the customer has not settled for good: an       *)
(* introduction that is over and a notification that is gone are so in the *)
(* store, in every tab and whatever calls of other tabs were stored since, *)
(* unless the layer was shown without the store.                           *)
HiddenIsStored ==
  \A v \in Visit : layer[v].mounted =>
    /\ ~ layer[v].introducing /\ ~ layer[v].degraded => onboarded
    /\ \A n \in Notification \ Visible(v) : noticed[n] = "dismissed"
=============================================================================
