------------------------------- MODULE KycCases -------------------------------
(***************************************************************************)
(* The KYC desk: evidence sessions, whose finalization opens a case, and   *)
(* the reviews that decide it.  A finalization inspects the stored objects *)
(* before it locks the session; a review writes the row it read before its *)
(* transaction began.  All sessions and cases are one member's.            *)
(***************************************************************************)
EXTENDS Naturals, Sequences, SequencesExt, FiniteSets

CONSTANTS
  Session,      \* evidence sessions
  Role,         \* evidence roles: an identity document and a selfie
  Case,         \* cases, in the order in which they are opened
  Finalizer,    \* POST .../evidence/finalize in progress
  Reviewer,     \* people at the desk, one request each at a time
  Admin,        \* the reviewers whose role is admin
  NoSession, NoCase,
  MaxUploads,   \* bound: uploads through presigned URLs
  MaxReviews    \* bound: reviews at the desk

ASSUME KycAssumption ==
  /\ NoSession \notin Session /\ NoCase \notin Case
  /\ Admin \subseteq Reviewer
  /\ MaxUploads \in Nat /\ MaxReviews \in Nat

Risk == {"unrated", "critical"}              \* the other levels decide nothing
Decision == {"approve", "reject"}
Action == Decision \cup {"note", "request_information", "risk_change", "assign"}

VARIABLES
  session,    \* compliance.kyc_evidence_session with its objects
  store,      \* the private bucket
  uploads,    \* uploads so far
  finalizer,  \* where each finalization is and what it has inspected
  case,       \* compliance.kyc_case with its events
  verified,   \* identity.member.verification_level is 'verified'
  reviews,    \* reviews begun so far
  desk        \* the review each reviewer has in hand: the row as it was read

evidence == <<session, store, uploads, finalizer>>
review == <<verified, reviews, desk>>
kycVars == <<session, store, uploads, finalizer, case, verified, reviews, desk>>

NotInspecting == [pc |-> "idle", session |-> NoSession,
                  seen |-> [role \in Role |-> "nothing"]]
NoReview == [action |-> "none", case |-> NoCase, status |-> "submitted",
             risk |-> "unrated"]
Submitted(s) ==
  [open |-> TRUE, session |-> s, status |-> "submitted", risk |-> "unrated",
   trail |-> <<[action |-> "submitted", from |-> "submitted",
                to |-> "submitted", admin |-> FALSE]>>]

InitKyc ==
  /\ session = [s \in Session |-> [status |-> "none", expired |-> FALSE,
       case |-> NoCase, object |-> [role \in Role |-> "pending"]]]
  /\ store = [s \in Session |-> [role \in Role |-> "nothing"]]
  /\ uploads = 0
  /\ finalizer = [f \in Finalizer |-> NotInspecting]
  /\ case = [c \in Case |-> [open |-> FALSE, session |-> NoSession,
       status |-> "submitted", risk |-> "unrated", trail |-> <<>>]]
  /\ verified = FALSE /\ reviews = 0
  /\ desk = [r \in Reviewer |-> NoReview]
-----------------------------------------------------------------------------
(* createEvidenceSession; fewer sessions than the limit of five are modelled. *)
CreateEvidenceSession(s) ==
  /\ session[s].status = "none"
  /\ session' = [session EXCEPT ![s].status = "pending"]
  /\ UNCHANGED <<store, uploads, finalizer, case, review>>

(* createEvidenceUpload: a URL for one object of the session, for a while. *)
Uploadable(s) == session[s].status # "none" /\ ~session[s].expired

(* External: the browser uploads the file it declared, or another, which a *)
(* store that is not asked to check a checksum accepts.                    *)
Upload(s, role, content) ==
  /\ Uploadable(s) /\ uploads < MaxUploads
  /\ store' = [store EXCEPT ![s][role] = content]
  /\ uploads' = uploads + 1
  /\ UNCHANGED <<session, finalizer, case, review>>

(* The session, and with it the shorter-lived upload URLs, runs out. *)
Expire(s) ==
  /\ session[s].status # "none" /\ ~session[s].expired
  /\ session' = [session EXCEPT ![s].expired = TRUE]
  /\ UNCHANGED <<store, uploads, finalizer, case, review>>

Available(s) == session[s].status = "pending" /\ ~session[s].expired

(* A session that was finalized is answered from its case and goes no further. *)
FinalizeRead(f, s) ==
  /\ finalizer[f].pc = "idle"
  /\ Available(s)
  /\ finalizer' = [finalizer EXCEPT ![f] = [NotInspecting EXCEPT !.pc = "inspect",
                                              !.session = s]]
  /\ UNCHANGED <<session, store, uploads, case, review>>

(* inspectEvidenceObject: the object as it is stored now. *)
InspectEvidenceObject(s, role) == store[s][role]

(* The inspection of a missing object fails and ends the request. *)
Inspect(f, role) ==
  LET content == InspectEvidenceObject(finalizer[f].session, role) IN
  /\ finalizer[f].pc = "inspect" /\ finalizer[f].seen[role] = "nothing"
  /\ finalizer' = [finalizer EXCEPT ![f] =
       IF content = "nothing" THEN NotInspecting
       ELSE [@ EXCEPT !.seen[role] = content]]
  /\ UNCHANGED <<session, store, uploads, case, review>>

Inspected(f) ==
  finalizer[f].pc = "inspect" /\ \A role \in Role : finalizer[f].seen[role] # "nothing"
Mismatched(f) == {role \in Role : finalizer[f].seen[role] = "other"}
Return(f) == finalizer' = [finalizer EXCEPT ![f] = NotInspecting]

FaultyRejected(row, role) == [row EXCEPT !.status = "rejected", !.object[role] = "rejected"]

(* The session is rejected only while it is pending; the object always is. *)
Rejected(row, role) ==
  [row EXCEPT !.status = IF @ = "pending" THEN "rejected" ELSE @,
              !.object[role] = "rejected"]
FinalizeReject(f) ==
  LET s == finalizer[f].session IN
  /\ Inspected(f)
  /\ \E role \in Mismatched(f) : session' = [session EXCEPT ![s] = Rejected(@, role)]
  /\ Return(f)
  /\ UNCHANGED <<store, uploads, case, review>>

(* The request dies; its transaction, if any, is rolled back. *)
FinalizeDies(f) ==
  /\ finalizer[f].pc = "inspect"
  /\ Return(f)
  /\ UNCHANGED <<session, store, uploads, case, review>>

(* nextval: the first case that is not open yet. *)
NextCase(c) == ~case[c].open /\ c = CHOOSE k \in Case : ~case[k].open

FaultyStillAvailable(s) == ~session[s].expired
StillAvailable(s) == Available(s)

(* The transaction of a finalization whose objects match: it looks at the   *)
(* session again under a lock, and opens the case.                          *)
FinalizeCommit(f) ==
  LET s == finalizer[f].session IN
  /\ Inspected(f) /\ Mismatched(f) = {}
  /\ \/ /\ StillAvailable(s)
        /\ \E c \in Case :
             /\ NextCase(c)
             /\ session' = [session EXCEPT ![s].status = "finalized", ![s].case = c,
                              ![s].object = [role \in Role |-> "verified"]]
             /\ case' = [case EXCEPT ![c] = Submitted(s)]
     \/ ~StillAvailable(s) /\ UNCHANGED <<session, case>>
  /\ Return(f)
  /\ UNCHANGED <<store, uploads, review>>

(* ingestKycCase: a case without evidence; its assessment only recommends. *)
IngestKycCase(c) ==
  /\ NextCase(c)
  /\ case' = [case EXCEPT ![c] = Submitted(NoSession)]
  /\ UNCHANGED <<evidence, review>>
-----------------------------------------------------------------------------
(* Critical-risk decisions require administrator approval. *)
MayDecide(r, c) == case[c].risk = "critical" => r \in Admin

(* reviewKycCase reads the case and checks the request against what it read. *)
(* risk is the level asked for, or else the level it read.                   *)
ReviewRead(r, c, action, risk) ==
  /\ desk[r].action = "none" /\ case[c].open
  /\ reviews < MaxReviews
  /\ reviews' = reviews + 1
  /\ action \in Decision => MayDecide(r, c)
  /\ desk' = [desk EXCEPT ![r] = [action |-> action, case |-> c,
       status |-> case[c].status, risk |-> risk]]
  /\ UNCHANGED <<evidence, case, verified>>

NewStatus(v) ==
  CASE v.action = "approve" -> "approved"
    [] v.action = "reject" -> "rejected"
    [] v.action = "request_information" -> "needs_information"
    [] v.action = "assign" /\ v.status = "submitted" -> "in_review"
    [] OTHER -> v.status

VerifiesMember(v) == v.action = "approve"

FaultyRecorded(v, admin) ==
  [action |-> v.action, from |-> v.status, to |-> v.status, admin |-> admin]
Recorded(v, admin) ==
  [action |-> v.action, from |-> v.status, to |-> NewStatus(v), admin |-> admin]

(* It writes status and risk back as it read them or as they were asked for. *)
Reviewed(row, v, admin) ==
  [row EXCEPT !.status = NewStatus(v), !.risk = v.risk,
              !.trail = Append(@, Recorded(v, admin))]
ReviewWrite(r) ==
  LET v == desk[r] IN
  /\ v.action # "none"
  /\ case' = [case EXCEPT ![v.case] = Reviewed(@, v, r \in Admin)]
  /\ verified' = (verified \/ VerifiesMember(v))
  /\ desk' = [desk EXCEPT ![r] = NoReview]
  /\ UNCHANGED <<evidence, reviews>>
-----------------------------------------------------------------------------
(* Repeated and concurrent finalizations open one case between them, and a  *)
(* session that is rejected has none (finalizeEvidenceSession).             *)
OneCasePerSession ==
  \A s \in Session :
    {c \in Case : case[c].open /\ case[c].session = s} =
      IF session[s].status = "finalized" THEN {session[s].case} ELSE {}

(* A finalized session keeps its case: a slower finalization that inspected *)
(* other objects, or the end of the session, does not take it back.         *)
FinalizedStands ==
  [][\A s \in Session : session[s].status = "finalized" =>
       /\ session'[s].status = "finalized"
       /\ session'[s].case = session[s].case]_kycVars

(* The append-only events explain a case and its member, although reviews   *)
(* overlap: they begin with the submission and end with the status the case *)
(* has, and a member is verified exactly when a reviewer has approved one   *)
(* of her cases; no machine assessment does (reviewKycCase, event).         *)
TrailExplains ==
  /\ \A c \in Case : case[c].open =>
       /\ case[c].trail[1].action = "submitted"
       /\ Last(case[c].trail).to = case[c].status
  /\ verified <=> \E c \in Case : \E i \in DOMAIN case[c].trail :
                    case[c].trail[i].action = "approve"

(* Critical-risk approvals and rejections require an administrator          *)
(* (docs/NOTIFICATIONS_AND_COMPLIANCE.md).                                  *)
CriticalDecidedByAdmin ==
  [][\A c \in Case :
       LET e == Last(case'[c].trail) IN
       case'[c].trail # case[c].trail /\ e.action \in Decision
         /\ case[c].risk = "critical" => e.admin]_kycVars
=============================================================================
