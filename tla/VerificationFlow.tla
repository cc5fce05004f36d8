--------------------------- MODULE VerificationFlow ---------------------------
(***************************************************************************)
(* The customer's verification page over the evidence sessions of KycCases: *)
(* five steps with a camera, and a submission of several requests through  *)
(* a gateway that gives up before the server does.  The page stays usable  *)
(* while it submits.                                                       *)
(***************************************************************************)
EXTENDS KycCases

ASSUME FlowAssumption == Role \subseteq {"document", "selfie"}

VARIABLES
  form,        \* the page: its step, which pictures it has, consent, and if the
               \* verification was received
  camera,      \* the mode of the camera, and the modes for which access was asked
  submission   \* the request the page waits for, and the pictures it has sent

flowVars == <<form, camera, submission, kycVars>>

NotSubmitting == [phase |-> "none", session |-> NoSession, put |-> {},
                  by |-> "nobody"]

InitFlow ==
  /\ InitKyc
  /\ form = [step |-> 0, pictures |-> {}, consent |-> FALSE, received |-> FALSE]
  /\ camera = [mode |-> "off", asked |-> {}]
  /\ submission = NotSubmitting

OnPage(f, c) == form' = f /\ camera' = c /\ UNCHANGED <<submission, kycVars>>
RoleAt(step) == IF step = 2 THEN "document" ELSE "selfie"
Capturing == form.step \in {2, 3}
At(step) == form.step = step /\ ~form.received

(* CONTINUE and BACK: hidden by a running camera, and CONTINUE needs the   *)
(* picture.  BACK is there while a submission is under way.                *)
Continue ==
  \E step \in 0..3 :
    /\ At(step)
    /\ Capturing => camera.mode = "off" /\ RoleAt(step) \in form.pictures
    /\ OnPage([form EXCEPT !.step = step + 1], camera)
StepBack ==
  \E step \in 1..4 :
    /\ At(step)
    /\ Capturing => camera.mode = "off"
    /\ OnPage([form EXCEPT !.step = step - 1], camera)

(* The step offers the camera and the upload until it has its picture, or  *)
(* until the camera runs in its mode.                                      *)
Offered(role) ==
  /\ Capturing /\ At(form.step) /\ RoleAt(form.step) = role
  /\ camera.mode # role /\ role \notin form.pictures

(* startCamera asks; the answer comes whenever the customer gives it, and  *)
(* starts the camera in the mode that was asked for, on any step.          *)
StartCamera(role) ==
  /\ Offered(role) /\ role \notin camera.asked
  /\ OnPage(form, [camera EXCEPT !.asked = @ \cup {role}])
Granted(role) ==
  /\ role \in camera.asked
  /\ OnPage(form, [mode |-> role, asked |-> camera.asked \ {role}])
Denied(role) ==
  /\ role \in camera.asked
  /\ OnPage(form, [camera EXCEPT !.asked = @ \ {role}])

WithPicture(role) == [form EXCEPT !.pictures = @ \cup {role}]
CaptureImage(role) ==
  /\ Capturing /\ At(form.step) /\ RoleAt(form.step) = role /\ camera.mode = role
  /\ OnPage(WithPicture(role), [camera EXCEPT !.mode = "off"])
AcceptFile(role) ==
  /\ Offered(role) /\ OnPage(WithPicture(role), camera)
Retake(role) ==
  /\ Capturing /\ At(form.step) /\ RoleAt(form.step) = role
  /\ camera.mode # role /\ role \in form.pictures
  /\ OnPage([form EXCEPT !.pictures = @ \ {role}], camera)
Consent == At(4) /\ OnPage([form EXCEPT !.consent = ~@], camera)
-----------------------------------------------------------------------------
MaySubmit == form.consent /\ submission.phase = "none"

(* submitVerification holds on to the pictures there are at the click; one *)
(* that is missing by then is an error at once.                            *)
SubmitVerification ==
  /\ At(4) /\ MaySubmit
  /\ form.pictures = Role
  /\ submission' = [NotSubmitting EXCEPT !.phase = "intents"]
  /\ UNCHANGED <<form, camera, kycVars>>

(* Any error ends the submission; another click begins with a new session. *)
Abandon == submission' = NotSubmitting /\ UNCHANGED <<form, camera>>

(* The session is created, and the answer arrives, or not within 15 s.     *)
IntentsAnswered(s) ==
  /\ submission.phase = "intents"
  /\ CreateEvidenceSession(s)
  /\ \/ /\ submission' = [submission EXCEPT !.phase = "uploading", !.session = s]
        /\ UNCHANGED <<form, camera>>
     \/ Abandon

PutEvidence(role) ==
  /\ submission.phase = "uploading" /\ role \notin submission.put
  /\ Upload(submission.session, role, "declared")
  /\ submission' = [submission EXCEPT !.put = @ \cup {role}]
  /\ UNCHANGED <<form, camera>>

(* No session is made; a picture does not arrive at the store. *)
IntentsFail == submission.phase = "intents" /\ Abandon /\ UNCHANGED kycVars
PutFails == submission.phase = "uploading" /\ Abandon /\ UNCHANGED kycVars

Uploaded == submission.put = Role

(* The reference of the case: the page gives up its pictures.              *)
Received ==
  /\ submission' = [submission EXCEPT !.phase = "none"]
  /\ form' = [form EXCEPT !.pictures = {}, !.received = TRUE]
  /\ UNCHANGED camera

(* A session that was finalized is answered from its case.                 *)
AskFinalize(f) ==
  LET s == submission.session IN
  /\ submission.phase = "uploading" /\ Uploaded
  /\ \/ /\ session[s].status = "finalized"
        /\ Received /\ UNCHANGED kycVars
     \/ /\ FinalizeRead(f, s)
        /\ submission' = [submission EXCEPT !.phase = "finalizing", !.by = f]
        /\ UNCHANGED <<form, camera>>
     \/ /\ ~Available(s) /\ session[s].status # "finalized"
        /\ Abandon /\ UNCHANGED kycVars

(* The steps of finalization f; the second one answers it.                 *)
Inspecting(f) == \E role \in Role : Inspect(f, role)
Finishing(f) == FinalizeReject(f) \/ FinalizeCommit(f) \/ FinalizeDies(f)

FaultyAnswer(f) == Received
Answer(f) ==
  IF session'[finalizer[f].session].status = "finalized"
       /\ session[finalizer[f].session].status # "finalized"
    THEN Received ELSE Abandon

AwaitedStep(f) ==
  /\ submission.phase = "finalizing" /\ submission.by = f
  /\ \/ /\ Inspecting(f)
        /\ IF finalizer'[f].pc = "idle" THEN Abandon
           ELSE UNCHANGED <<form, camera, submission>>
     \/ Finishing(f) /\ Answer(f)

(* customerEvidenceRequest gives up after 15 s; the server goes on.        *)
GatewayTimeout ==
  /\ submission.phase = "finalizing"
  /\ Abandon /\ UNCHANGED kycVars

(* What else happens to the sessions: the member's requests nobody waits   *)
(* for any longer, repeated finalizations, other uploads, the clock.       *)
Elsewhere ==
  /\ UNCHANGED <<form, camera, submission>>
  /\ \/ \E s \in Session :
          \/ Expire(s)
          \/ \E role \in Role, content \in {"declared", "other"} : Upload(s, role, content)
     \/ \E f \in Finalizer :
          /\ ~(submission.phase = "finalizing" /\ submission.by = f)
          /\ Inspecting(f) \/ Finishing(f) \/ \E s \in Session : FinalizeRead(f, s)

NextFlow ==
  \/ Continue \/ StepBack \/ Consent
  \/ \E role \in Role :
       \/ StartCamera(role) \/ Granted(role) \/ Denied(role)
       \/ CaptureImage(role) \/ AcceptFile(role) \/ Retake(role) \/ PutEvidence(role)
  \/ SubmitVerification \/ IntentsFail \/ PutFails \/ GatewayTimeout \/ Elsewhere
  \/ \E s \in Session : IntentsAnswered(s)
  \/ \E f \in Finalizer : AskFinalize(f) \/ AwaitedStep(f)
-----------------------------------------------------------------------------
(* When the page says that the verification was received, the session of   *)
(* its last click has a case, whatever was retaken, uploaded, repeated or   *)
(* timed out meanwhile (submitVerification, finalizeEvidenceSession).       *)
ReceivedIsFiled ==
  form.received =>
    LET s == submission.session IN
    session[s].status = "finalized" /\ case[session[s].case].open
=============================================================================
