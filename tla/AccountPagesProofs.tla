-------------------------- MODULE AccountPagesProofs --------------------------
(* Proofs about AccountPages, for any number of notifications and visits,   *)
(* evidence sessions, roles, cases and finalizations, and any plans, keys,  *)
(* executions and amounts.  A behaviour is one at one page; each page has   *)
(* an invariant of its own.                                                 *)
EXTENDS AccountPages, SumLemmas, SequenceTheorems

-----------------------------------------------------------------------------
(* The layer over every page: an introduction that is over is stored, and   *)
(* what a visit takes for dismissed is stored as dismissed, which no call   *)
(* of another tab takes back.                                               *)
NoticeState == {"none", "read", "dismissed"}
LayerRow == [mounted : BOOLEAN, introducing : BOOLEAN, step : 0..LastStep, open : BOOLEAN,
             states : [Notification -> NoticeState], reading : SUBSET Notification,
             dismissing : SUBSET Notification, finishing : BOOLEAN, degraded : BOOLEAN]

LayerTells(l, done, said) ==
  /\ l.mounted = TRUE /\ l.introducing = FALSE /\ l.degraded = FALSE => done = TRUE
  /\ \A n \in Notification : l.states[n] = "dismissed" => said[n] = "dismissed"

ExperienceInv ==
  /\ onboarded \in BOOLEAN /\ noticed \in [Notification -> NoticeState]
  /\ layer \in [Visit -> LayerRow]
  /\ \A v \in Visit : LayerTells(layer[v], onboarded, noticed)

LEMMA UnmountedRow ==
  /\ Unmounted \in LayerRow /\ Unmounted.mounted = FALSE
  /\ \A n \in Notification : Unmounted.states[n] = "none"
BY ExperienceAssumption DEF Unmounted, LayerRow, NoticeState

LEMMA ExperienceStarts == InitExperience => ExperienceInv
BY UnmountedRow DEF InitExperience, ExperienceInv, LayerTells, NoticeState

(* What is stored only grows more final, and one visit shows something else. *)
LEMMA VisitMoves ==
  ASSUME ExperienceInv, NEW v \in Visit, NEW l \in LayerRow, Shows(v, l),
         onboarded' \in BOOLEAN, onboarded = TRUE => onboarded' = TRUE,
         noticed' \in [Notification -> NoticeState],
         \A n \in Notification : noticed[n] = "dismissed" => noticed'[n] = "dismissed",
         LayerTells(l, onboarded', noticed')
  PROVE  ExperienceInv'
<1>1. /\ layer' \in [Visit -> LayerRow] /\ layer'[v] = l
      /\ \A u \in Visit : u # v => layer'[u] = layer[u]
  BY DEF ExperienceInv, Shows
<1>2. \A u \in Visit : u # v => LayerTells(layer[u], onboarded', noticed')
  BY DEF ExperienceInv, LayerTells
<1> QED
  BY <1>1, <1>2 DEF ExperienceInv

LEMMA MountStep ==
  ASSUME ExperienceInv, NEW v \in Visit, Mount(v) \/ Unmount(v)
  PROVE  ExperienceInv'
<1> DEFINE one == [Unmounted EXCEPT !.mounted = TRUE]
           two == [one EXCEPT !.introducing = ~ onboarded]
           fresh == [two EXCEPT !.states = noticed]
           default == [one EXCEPT !.degraded = TRUE]
<1>1. onboarded \in BOOLEAN /\ noticed \in [Notification -> NoticeState]
  BY DEF ExperienceInv
<1>2. Shows(v, fresh) \/ Shows(v, default) \/ Shows(v, Unmounted)
  BY DEF Mount, Unmount
<1>3. UNCHANGED <<onboarded, noticed>>
  BY DEF Mount, Unmount, Stored
<1>4. one \in LayerRow /\ \A n \in Notification : one.states[n] = "none"
  BY UnmountedRow DEF LayerRow
<1> HIDE DEF one
<1>5. two \in LayerRow /\ two.introducing = ~ onboarded
  BY <1>1, <1>4 DEF LayerRow
<1> HIDE DEF two
<1>6. fresh \in LayerRow /\ fresh.introducing = ~ onboarded /\ fresh.states = noticed
  BY <1>1, <1>5 DEF LayerRow
<1>7. default \in LayerRow /\ default.degraded = TRUE /\ default.states = one.states
  BY <1>4 DEF LayerRow
<1> HIDE DEF fresh, default
<1>8. LayerTells(fresh, onboarded, noticed)
  BY <1>1, <1>6 DEF LayerTells
<1>9. LayerTells(default, onboarded, noticed) /\ LayerTells(Unmounted, onboarded, noticed)
  BY <1>4, <1>7, UnmountedRow DEF LayerTells
<1> QED
  BY <1>1, <1>2, <1>3, <1>6, <1>7, <1>8, <1>9, UnmountedRow, VisitMoves

(* A visit that goes on showing what it showed of both. *)
LEMMA VisitStays ==
  ASSUME ExperienceInv, NEW v \in Visit, NEW l \in LayerRow, Shows(v, l),
         l.mounted = layer[v].mounted, l.introducing = layer[v].introducing,
         l.degraded = layer[v].degraded, l.states = layer[v].states, Stored
  PROVE  ExperienceInv'
<1>1. LayerTells(l, onboarded, noticed)
  BY DEF ExperienceInv, LayerTells
<1> QED
  BY <1>1, VisitMoves DEF ExperienceInv, Stored

LEMMA QuietSteps ==
  ASSUME ExperienceInv, NEW v \in Visit,
         \/ ChangeStep(v) \/ FinishOnboarding(v) \/ OpenCenter(v) \/ CloseCenter(v)
         \/ ExperienceFails(v) \/ \E n \in Notification : Dismiss(v, n)
  PROVE  ExperienceInv'
<1> DEFINE l == layer[v]
<1>1. l \in LayerRow
  BY DEF ExperienceInv
<1>2. CASE ChangeStep(v)
  <2>1. PICK step \in 0..LastStep : Shows(v, [l EXCEPT !.step = step])
    BY <1>2 DEF ChangeStep
  <2> QED
    BY <1>1, <1>2, <2>1, VisitStays DEF ChangeStep, LayerRow
<1>3. CASE FinishOnboarding(v)
  BY <1>1, <1>3, VisitStays DEF FinishOnboarding, LayerRow
<1>4. CASE OpenCenter(v)
  <2> DEFINE one == [l EXCEPT !.open = TRUE]
             reading == IF Unread(v) = {} THEN l.reading ELSE Unread(v)
             new == [one EXCEPT !.reading = reading]
  <2>1. /\ one \in LayerRow /\ one.mounted = l.mounted /\ one.introducing = l.introducing
        /\ one.degraded = l.degraded /\ one.states = l.states
    BY <1>1 DEF LayerRow
  <2>2. Shows(v, new)
    BY <1>4 DEF OpenCenter
  <2>3. reading \in SUBSET Notification
    BY <1>1 DEF Unread, Visible, LayerRow
  <2> HIDE DEF one, reading
  <2>4. /\ new \in LayerRow /\ new.mounted = l.mounted /\ new.introducing = l.introducing
        /\ new.degraded = l.degraded /\ new.states = l.states
    BY <2>1, <2>3 DEF LayerRow
  <2> HIDE DEF new
  <2> QED
    BY <1>4, <2>2, <2>4, VisitStays DEF OpenCenter
<1>5. CASE CloseCenter(v)
  BY <1>1, <1>5, VisitStays DEF CloseCenter, LayerRow
<1>6. CASE ExperienceFails(v)
  <2> DEFINE one == [l EXCEPT !.finishing = FALSE]
             both == [one EXCEPT !.dismissing = {}]
             read == [l EXCEPT !.reading = {}]
  <2>1. Shows(v, both) \/ Shows(v, read)
    BY <1>6 DEF ExperienceFails
  <2>2. /\ one \in LayerRow /\ one.mounted = l.mounted /\ one.introducing = l.introducing
        /\ one.degraded = l.degraded /\ one.states = l.states
    BY <1>1 DEF LayerRow
  <2>3. /\ read \in LayerRow /\ read.mounted = l.mounted /\ read.introducing = l.introducing
        /\ read.degraded = l.degraded /\ read.states = l.states
    BY <1>1 DEF LayerRow
  <2> HIDE DEF one, read
  <2>4. /\ both \in LayerRow /\ both.mounted = l.mounted /\ both.introducing = l.introducing
        /\ both.degraded = l.degraded /\ both.states = l.states
    BY <2>2 DEF LayerRow
  <2> HIDE DEF both
  <2> QED
    BY <1>6, <2>1, <2>3, <2>4, VisitStays DEF ExperienceFails
<1>7. ASSUME NEW n \in Notification, Dismiss(v, n) PROVE ExperienceInv'
  <2> DEFINE keys == {n}
             new == [l EXCEPT !.dismissing = keys]
  <2>1. keys \in SUBSET Notification
    OBVIOUS
  <2> HIDE DEF keys
  <2>2. /\ new \in LayerRow /\ new.mounted = l.mounted /\ new.introducing = l.introducing
        /\ new.degraded = l.degraded /\ new.states = l.states
    BY <1>1, <2>1 DEF LayerRow
  <2>3. Shows(v, new) /\ Stored
    BY <1>7 DEF Dismiss, keys
  <2> HIDE DEF new
  <2> QED
    BY <2>2, <2>3, VisitStays
<1> QED
  BY <1>2, <1>3, <1>4, <1>5, <1>6, <1>7

LEMMA OnboardingStep ==
  ASSUME ExperienceInv, NEW v \in Visit, OnboardingStored(v)
  PROVE  ExperienceInv'
<1> DEFINE l == layer[v]
           one == [l EXCEPT !.finishing = FALSE]
<1>1. PICK answered \in BOOLEAN :
        Shows(v, [l EXCEPT !.finishing = FALSE, !.introducing = ~ answered])
  BY DEF OnboardingStored
<1> DEFINE new == [one EXCEPT !.introducing = ~ answered]
<1>2. l \in LayerRow /\ onboarded' = TRUE /\ noticed' = noticed
      /\ noticed \in [Notification -> NoticeState]
  BY DEF OnboardingStored, ExperienceInv
<1>3. one \in LayerRow /\ one.states = l.states
  BY <1>2 DEF LayerRow
<1>4. Shows(v, new)
  BY <1>1
<1> HIDE DEF one
<1>5. new \in LayerRow /\ new.states = l.states
  BY <1>3 DEF LayerRow
<1> HIDE DEF new
<1>6. LayerTells(new, TRUE, noticed)
  BY <1>5 DEF LayerTells, ExperienceInv
<1> QED
  BY <1>2, <1>4, <1>5, <1>6, VisitMoves

(* The answer to a call that stores one state for some keys. *)
LEMMA StatesStored ==
  ASSUME ExperienceInv, NEW v \in Visit, NEW keys \in SUBSET Notification,
         NEW s \in {"read", "dismissed"}, NEW l \in LayerRow,
         l.mounted = layer[v].mounted, l.introducing = layer[v].introducing,
         l.degraded = layer[v].degraded,
         \/ l.states = layer[v].states
         \/ l.states = [n \in Notification |-> IF n \in keys THEN s ELSE layer[v].states[n]],
         Shows(v, l), onboarded' = onboarded,
         noticed' \in [Notification -> NoticeState],
         \A n \in Notification : noticed[n] = "dismissed" => noticed'[n] = "dismissed",
         s = "dismissed" => \A n \in keys : noticed'[n] = "dismissed"
  PROVE  ExperienceInv'
<1>1. LayerTells(layer[v], onboarded, noticed)
  BY DEF ExperienceInv
<1>2. LayerTells(l, onboarded', noticed')
  BY <1>1 DEF LayerTells
<1> QED
  BY <1>2, VisitMoves DEF ExperienceInv

LEMMA NoticesStep ==
  ASSUME ExperienceInv, NEW v \in Visit, ReadStored(v) \/ DismissStored(v)
  PROVE  ExperienceInv'
<1> DEFINE l == layer[v]
<1>1. l \in LayerRow /\ noticed \in [Notification -> NoticeState]
  BY DEF ExperienceInv
<1>2. CASE ReadStored(v)
  <2> DEFINE keys == l.reading
             states == [n \in Notification |-> IF n \in keys THEN "read" ELSE l.states[n]]
             one == [l EXCEPT !.reading = {}]
             laid == [one EXCEPT !.states = states]
  <2>1. keys \in SUBSET Notification /\ states \in [Notification -> NoticeState]
    BY <1>1 DEF LayerRow, NoticeState
  <2>2. Shows(v, laid) \/ Shows(v, one)
    BY <1>2 DEF ReadStored
  <2>3. /\ onboarded' = onboarded /\ noticed' \in [Notification -> NoticeState]
        /\ \A n \in Notification : noticed[n] = "dismissed" => noticed'[n] = "dismissed"
    BY <1>1, <1>2 DEF ReadStored, Read, NoticeState
  <2>4. /\ one \in LayerRow /\ one.mounted = l.mounted /\ one.introducing = l.introducing
        /\ one.degraded = l.degraded /\ one.states = l.states
    BY <1>1 DEF LayerRow
  <2> HIDE DEF one, states
  <2>5. /\ laid \in LayerRow /\ laid.mounted = l.mounted /\ laid.introducing = l.introducing
        /\ laid.degraded = l.degraded /\ laid.states = states
    BY <2>1, <2>4 DEF LayerRow
  <2> HIDE DEF laid, keys
  <2> QED
    BY <2>1, <2>2, <2>3, <2>4, <2>5, StatesStored DEF states
<1>3. CASE DismissStored(v)
  <2> DEFINE keys == l.dismissing
             states == [n \in Notification |-> IF n \in keys THEN "dismissed" ELSE l.states[n]]
             one == [l EXCEPT !.dismissing = {}]
             laid == [one EXCEPT !.states = states]
  <2>1. keys \in SUBSET Notification /\ states \in [Notification -> NoticeState]
    BY <1>1 DEF LayerRow, NoticeState
  <2>2. Shows(v, laid) \/ Shows(v, one)
    BY <1>3 DEF DismissStored
  <2>3. /\ onboarded' = onboarded /\ noticed' \in [Notification -> NoticeState]
        /\ \A n \in Notification : noticed[n] = "dismissed" => noticed'[n] = "dismissed"
        /\ \A n \in keys : noticed'[n] = "dismissed"
    BY <1>1, <1>3, <2>1 DEF DismissStored, NoticeState
  <2>4. /\ one \in LayerRow /\ one.mounted = l.mounted /\ one.introducing = l.introducing
        /\ one.degraded = l.degraded /\ one.states = l.states
    BY <1>1 DEF LayerRow
  <2> HIDE DEF one, states
  <2>5. /\ laid \in LayerRow /\ laid.mounted = l.mounted /\ laid.introducing = l.introducing
        /\ laid.degraded = l.degraded /\ laid.states = states
    BY <2>1, <2>4 DEF LayerRow
  <2> HIDE DEF laid, keys
  <2> QED
    BY <2>1, <2>2, <2>3, <2>4, <2>5, StatesStored DEF states
<1> QED
  BY <1>2, <1>3

LEMMA ExperienceStep == ExperienceInv /\ [NextExperience]_experienceVars => ExperienceInv'
<1> SUFFICES ASSUME ExperienceInv, [NextExperience]_experienceVars PROVE ExperienceInv'
  OBVIOUS
<1>1. CASE UNCHANGED experienceVars
  BY <1>1 DEF experienceVars, ExperienceInv
<1>2. CASE NextExperience
  BY <1>2, MountStep, QuietSteps, OnboardingStep, NoticesStep DEF NextExperience
<1> QED
  BY <1>1, <1>2

(* The layer hides no introduction and no notification that the store does  *)
(* not hold as settled, in any tab (getCustomerExperienceOrDefault,         *)
(* updateCustomerNotifications).                                            *)
THEOREM LayerHidesWhatIsStored == SpecAccount => []HiddenIsStored
<1>1. InitAccount => ExperienceInv
  BY ExperienceStarts DEF InitAccount
<1>2. ExperienceInv /\ [NextAccount]_accountVars => ExperienceInv'
  BY ExperienceStep DEF NextAccount, accountVars
<1>3. ExperienceInv => HiddenIsStored
  BY DEF ExperienceInv, HiddenIsStored, LayerTells, LayerRow, Visible
<1> QED
  BY <1>1, <1>2, <1>3, PTL DEF SpecAccount

-----------------------------------------------------------------------------
(* Evidence sessions and their cases: a case that is open and of a session  *)
(* is the case of that session, which is finalized, and no other's.         *)
Content == {"nothing", "declared", "other"}
SessionRow == [status : {"none", "pending", "rejected", "finalized"}, expired : BOOLEAN,
               case : Case \cup {NoCase}, object : [Role -> {"pending", "rejected", "verified"}]]
FinalizerRow == [pc : {"idle", "inspect"}, session : Session \cup {NoSession},
                 seen : [Role -> Content]]

EvidenceType ==
  /\ session \in [Session -> SessionRow]
  /\ store \in [Session -> [Role -> Content]]
  /\ finalizer \in [Finalizer -> FinalizerRow]
  /\ \A f \in Finalizer : finalizer[f].pc = "inspect" => finalizer[f].session \in Session
  /\ case = [c \in Case |-> case[c]] /\ \A c \in Case : case[c].open \in BOOLEAN
Owned ==
  \A s \in Session :
    /\ session[s].status = "finalized" => session[s].case \in Case
    /\ \A c \in Case : (case[c].open = TRUE /\ case[c].session = s)
                         <=> (session[s].status = "finalized" /\ session[s].case = c)
EvidenceInv == EvidenceType /\ Owned

(* What a finalization has settled stays. *)
Stands ==
  \A s \in Session : session[s].status = "finalized" =>
    session'[s].status = "finalized" /\ session'[s].case = session[s].case

LEMMA EvidenceStarts == InitKyc => EvidenceInv
<1> SUFFICES ASSUME InitKyc PROVE EvidenceInv
  OBVIOUS
<1>1. /\ session \in [Session -> SessionRow] /\ \A s \in Session : session[s].status = "none"
  BY DEF InitKyc, SessionRow
<1>2. store \in [Session -> [Role -> Content]]
  BY DEF InitKyc, Content
<1>3. /\ finalizer \in [Finalizer -> FinalizerRow]
      /\ \A f \in Finalizer : finalizer[f].pc = "idle"
  BY DEF InitKyc, NotInspecting, FinalizerRow, Content
<1>4. case = [c \in Case |-> case[c]] /\ \A c \in Case : case[c].open = FALSE
  BY DEF InitKyc
<1> QED
  BY <1>1, <1>2, <1>3, <1>4 DEF EvidenceInv, EvidenceType, Owned

(* A session that is not finalized by it, and keeps its case. *)
LEMMA SessionMoves ==
  ASSUME EvidenceInv, NEW s \in Session, NEW row \in SessionRow,
         session' = [session EXCEPT ![s] = row],
         row.status = "finalized" <=> session[s].status = "finalized",
         row.case = session[s].case,
         UNCHANGED <<store, case>>,
         finalizer' \in [Finalizer -> FinalizerRow],
         \A f \in Finalizer : finalizer'[f].pc = "inspect" => finalizer'[f].session \in Session
  PROVE  EvidenceInv' /\ Stands
<1>1. /\ session' \in [Session -> SessionRow] /\ session'[s] = row
      /\ \A u \in Session : u # s => session'[u] = session[u]
  BY DEF EvidenceInv, EvidenceType
<1>2. EvidenceType'
  BY <1>1 DEF EvidenceInv, EvidenceType
<1>3. Owned' /\ Stands
  BY <1>1 DEF EvidenceInv, Owned, Stands
<1> QED
  BY <1>2, <1>3 DEF EvidenceInv

(* Only a finalization moves, or the store. *)
LEMMA FinalizerMoves ==
  ASSUME EvidenceInv, UNCHANGED <<session, case>>,
         store' \in [Session -> [Role -> Content]],
         finalizer' \in [Finalizer -> FinalizerRow],
         \A f \in Finalizer : finalizer'[f].pc = "inspect" => finalizer'[f].session \in Session
  PROVE  EvidenceInv' /\ Stands
BY DEF EvidenceInv, EvidenceType, Owned, Stands

LEMMA IdleRow == NotInspecting \in FinalizerRow /\ NotInspecting.pc = "idle"
BY DEF NotInspecting, FinalizerRow, Content

LEMMA Returned ==
  ASSUME EvidenceInv, NEW f \in Finalizer, Return(f)
  PROVE  /\ finalizer' \in [Finalizer -> FinalizerRow]
         /\ \A g \in Finalizer : finalizer'[g].pc = "inspect" => finalizer'[g].session \in Session
BY IdleRow DEF Return, EvidenceInv, EvidenceType

LEMMA SessionSteps ==
  ASSUME EvidenceInv, NEW s \in Session, CreateEvidenceSession(s) \/ Expire(s)
  PROVE  EvidenceInv' /\ Stands
<1> DEFINE pending == [session[s] EXCEPT !.status = "pending"]
           expired == [session[s] EXCEPT !.expired = TRUE]
<1>1. session[s] \in SessionRow /\ EvidenceType
  BY DEF EvidenceInv, EvidenceType
<1>2. CASE CreateEvidenceSession(s)
  <2>1. /\ session' = [session EXCEPT ![s] = pending] /\ UNCHANGED <<store, case, finalizer>>
        /\ session[s].status = "none"
    BY <1>2 DEF CreateEvidenceSession
  <2>2. pending \in SessionRow /\ pending.status = "pending" /\ pending.case = session[s].case
    BY <1>1 DEF SessionRow
  <2> HIDE DEF pending
  <2> QED
    BY <1>1, <2>1, <2>2, SessionMoves DEF EvidenceType
<1>3. CASE Expire(s)
  <2>1. session' = [session EXCEPT ![s] = expired] /\ UNCHANGED <<store, case, finalizer>>
    BY <1>3 DEF Expire
  <2>2. /\ expired \in SessionRow /\ expired.status = session[s].status
        /\ expired.case = session[s].case
    BY <1>1 DEF SessionRow
  <2> HIDE DEF expired
  <2> QED
    BY <1>1, <2>1, <2>2, SessionMoves DEF EvidenceType
<1> QED
  BY <1>2, <1>3

LEMMA UploadStep ==
  ASSUME EvidenceInv, NEW s \in Session, NEW role \in Role,
         NEW content \in {"declared", "other"}, Upload(s, role, content)
  PROVE  EvidenceInv' /\ Stands
<1> DEFINE row == [store[s] EXCEPT ![role] = content]
<1>1. store' = [store EXCEPT ![s] = row] /\ UNCHANGED <<session, case, finalizer>>
  BY DEF Upload
<1>2. row \in [Role -> Content] /\ store \in [Session -> [Role -> Content]]
  BY DEF Content, EvidenceInv, EvidenceType
<1> HIDE DEF row
<1>3. store' \in [Session -> [Role -> Content]]
  BY <1>1, <1>2
<1> QED
  BY <1>1, <1>3, FinalizerMoves DEF EvidenceInv, EvidenceType

LEMMA FinalizeReadStep ==
  ASSUME EvidenceInv, NEW f \in Finalizer, NEW s \in Session, FinalizeRead(f, s)
  PROVE  /\ EvidenceInv' /\ Stands
         /\ finalizer'[f].pc = "inspect" /\ finalizer'[f].session = s
         /\ \A g \in Finalizer : g # f => finalizer'[g] = finalizer[g]
<1> DEFINE one == [NotInspecting EXCEPT !.pc = "inspect"]
           row == [one EXCEPT !.session = s]
<1>1. finalizer' = [finalizer EXCEPT ![f] = row] /\ UNCHANGED <<session, store, case>>
  BY DEF FinalizeRead
<1>2. one \in FinalizerRow /\ one.pc = "inspect"
  BY IdleRow DEF FinalizerRow
<1> HIDE DEF one
<1>3. row \in FinalizerRow /\ row.pc = "inspect" /\ row.session = s
  BY <1>2 DEF FinalizerRow
<1> HIDE DEF row
<1>4. /\ finalizer' \in [Finalizer -> FinalizerRow] /\ finalizer'[f] = row
      /\ \A g \in Finalizer : g # f => finalizer'[g] = finalizer[g]
  BY <1>1, <1>3 DEF EvidenceInv, EvidenceType
<1>5. \A g \in Finalizer : finalizer'[g].pc = "inspect" => finalizer'[g].session \in Session
  BY <1>3, <1>4 DEF EvidenceInv, EvidenceType
<1>6. store' \in [Session -> [Role -> Content]]
  BY <1>1 DEF EvidenceInv, EvidenceType
<1> QED
  BY <1>1, <1>3, <1>4, <1>5, <1>6, FinalizerMoves

LEMMA InspectStep ==
  ASSUME EvidenceInv, NEW f \in Finalizer, NEW role \in Role, Inspect(f, role)
  PROVE  /\ EvidenceInv' /\ Stands
         /\ finalizer'[f].pc = "idle" \/ (finalizer'[f].pc = "inspect"
                                            /\ finalizer'[f].session = finalizer[f].session)
         /\ \A g \in Finalizer : g # f => finalizer'[g] = finalizer[g]
<1> DEFINE content == store[finalizer[f].session][role]
           seen == [finalizer[f].seen EXCEPT ![role] = content]
           more == [finalizer[f] EXCEPT !.seen = seen]
           row == IF content = "nothing" THEN NotInspecting ELSE more
<1>1. finalizer[f] \in FinalizerRow /\ finalizer[f].pc = "inspect" /\ finalizer[f].session \in Session
  BY DEF Inspect, EvidenceInv, EvidenceType
<1>2. finalizer' = [finalizer EXCEPT ![f] = row] /\ UNCHANGED <<session, store, case>>
  BY DEF Inspect, InspectEvidenceObject
<1>3. content \in Content
  BY <1>1 DEF EvidenceInv, EvidenceType
<1> HIDE DEF content
<1>4. seen \in [Role -> Content]
  BY <1>1, <1>3 DEF FinalizerRow
<1> HIDE DEF seen
<1>5. more \in FinalizerRow /\ more.pc = "inspect" /\ more.session = finalizer[f].session
  BY <1>1, <1>4 DEF FinalizerRow
<1> HIDE DEF more
<1>6. /\ row \in FinalizerRow
      /\ row.pc = "idle" \/ (row.pc = "inspect" /\ row.session = finalizer[f].session)
  BY <1>5, IdleRow
<1> HIDE DEF row
<1>7. /\ finalizer' \in [Finalizer -> FinalizerRow] /\ finalizer'[f] = row
      /\ \A g \in Finalizer : g # f => finalizer'[g] = finalizer[g]
  BY <1>2, <1>6 DEF EvidenceInv, EvidenceType
<1>8. \A g \in Finalizer : finalizer'[g].pc = "inspect" => finalizer'[g].session \in Session
  BY <1>1, <1>6, <1>7 DEF EvidenceInv, EvidenceType
<1>9. store' \in [Session -> [Role -> Content]]
  BY <1>2 DEF EvidenceInv, EvidenceType
<1> QED
  BY <1>2, <1>6, <1>7, <1>8, <1>9, FinalizerMoves

LEMMA RejectStep ==
  ASSUME EvidenceInv, NEW f \in Finalizer, FinalizeReject(f)
  PROVE  EvidenceInv' /\ Stands
<1> DEFINE s == finalizer[f].session
<1>1. PICK role \in Role : session' = [session EXCEPT ![s] = Rejected(session[s], role)]
  BY DEF FinalizeReject, Mismatched
<1> DEFINE status == IF session[s].status = "pending" THEN "rejected" ELSE session[s].status
           object == [session[s].object EXCEPT ![role] = "rejected"]
           one == [session[s] EXCEPT !.status = status]
           row == [one EXCEPT !.object = object]
<1>2. s \in Session /\ session[s] \in SessionRow
  BY DEF FinalizeReject, Inspected, EvidenceInv, EvidenceType
<1>3. session' = [session EXCEPT ![s] = row] /\ UNCHANGED <<store, case>> /\ Return(f)
  BY <1>1, <1>2 DEF Rejected, FinalizeReject, SessionRow
<1>4. /\ status \in {"none", "pending", "rejected", "finalized"}
      /\ status = "finalized" <=> session[s].status = "finalized"
  BY <1>2 DEF SessionRow
<1>5. object \in [Role -> {"pending", "rejected", "verified"}]
  BY <1>2 DEF SessionRow
<1> HIDE DEF s, status, object
<1>6. one \in SessionRow /\ one.status = status /\ one.case = session[s].case
  BY <1>2, <1>4 DEF SessionRow
<1> HIDE DEF one
<1>7. row \in SessionRow /\ row.status = status /\ row.case = session[s].case
  BY <1>5, <1>6 DEF SessionRow
<1> HIDE DEF row
<1>8. /\ finalizer' \in [Finalizer -> FinalizerRow]
      /\ \A g \in Finalizer : finalizer'[g].pc = "inspect" => finalizer'[g].session \in Session
  BY <1>3, Returned
<1> QED
  BY <1>2, <1>3, <1>4, <1>7, <1>8, SessionMoves

LEMMA DiesStep ==
  ASSUME EvidenceInv, NEW f \in Finalizer, FinalizeDies(f)
  PROVE  EvidenceInv' /\ Stands
BY Returned, FinalizerMoves DEF FinalizeDies, EvidenceInv, EvidenceType

LEMMA CommitStep ==
  ASSUME EvidenceInv, NEW f \in Finalizer, FinalizeCommit(f)
  PROVE  EvidenceInv' /\ Stands
<1> DEFINE s == finalizer[f].session
<1>1. s \in Session /\ session[s] \in SessionRow /\ session \in [Session -> SessionRow]
  BY DEF FinalizeCommit, Inspected, EvidenceInv, EvidenceType
<1>2. /\ finalizer' \in [Finalizer -> FinalizerRow] /\ store' = store
      /\ \A g \in Finalizer : finalizer'[g].pc = "inspect" => finalizer'[g].session \in Session
  BY Returned DEF FinalizeCommit
<1>3. CASE UNCHANGED <<session, case>>
  BY <1>2, <1>3, FinalizerMoves DEF EvidenceInv, EvidenceType
<1>4. ASSUME NEW c \in Case, NextCase(c), StillAvailable(s),
             session' = [session EXCEPT ![s].status = "finalized", ![s].case = c,
                              ![s].object = [role \in Role |-> "verified"]],
             case' = [case EXCEPT ![c] = Submitted(s)]
      PROVE  EvidenceInv' /\ Stands
  <2> DEFINE object == [role \in Role |-> "verified"]
             one == [session[s] EXCEPT !.status = "finalized"]
             two == [one EXCEPT !.case = c]
             row == [two EXCEPT !.object = object]
             opened == Submitted(s)
  <2>1. session' = [session EXCEPT ![s] = row]
    BY <1>1, <1>4 DEF SessionRow
  <2>2. one \in SessionRow /\ one.status = "finalized"
    BY <1>1 DEF SessionRow
  <2>3. object \in [Role -> {"pending", "rejected", "verified"}]
    OBVIOUS
  <2> HIDE DEF one, object
  <2>4. two \in SessionRow /\ two.status = "finalized" /\ two.case = c
    BY <2>2 DEF SessionRow
  <2> HIDE DEF two
  <2>5. row \in SessionRow /\ row.status = "finalized" /\ row.case = c
    BY <2>3, <2>4 DEF SessionRow
  <2> HIDE DEF row
  <2>6. opened.open = TRUE /\ opened.session = s
    BY DEF Submitted
  <2>7. case' = [case EXCEPT ![c] = opened]
    BY <1>4
  <2> HIDE DEF opened, s
  <2>8. /\ session' \in [Session -> SessionRow] /\ session'[s] = row
        /\ \A u \in Session : u # s => session'[u] = session[u]
    BY <1>1, <2>1, <2>5
  <2>9. /\ case' = [k \in Case |-> case'[k]] /\ case'[c] = opened
        /\ \A k \in Case : k # c => case'[k] = case[k]
    BY <2>7 DEF EvidenceInv, EvidenceType
  <2>10. case[c].open # TRUE /\ session[s].status = "pending"
    BY <1>4 DEF NextCase, StillAvailable, Available
  <2>11. Owned'
    <3> SUFFICES ASSUME NEW u \in Session
                 PROVE  /\ session'[u].status = "finalized" => session'[u].case \in Case
                        /\ \A k \in Case : (case'[k].open = TRUE /\ case'[k].session = u)
                             <=> (session'[u].status = "finalized" /\ session'[u].case = k)
      BY DEF Owned
    <3>1. /\ session[u].status = "finalized" => session[u].case \in Case
          /\ \A k \in Case : (case[k].open = TRUE /\ case[k].session = u)
               <=> (session[u].status = "finalized" /\ session[u].case = k)
      BY DEF EvidenceInv, Owned
    <3>2. CASE u = s
      <4>1. session'[u] = row /\ row.status = "finalized" /\ row.case = c
        BY <2>5, <2>8, <3>2
      <4>2. \A k \in Case : ~(case[k].open = TRUE /\ case[k].session = u)
        BY <2>10, <3>1, <3>2
      <4>3. ASSUME NEW k \in Case
            PROVE  (case'[k].open = TRUE /\ case'[k].session = u) <=> k = c
        <5>1. CASE k = c
          BY <2>6, <2>9, <3>2, <5>1
        <5>2. CASE k # c
          BY <2>9, <4>2, <5>2
        <5> QED
          BY <5>1, <5>2
      <4> HIDE DEF row
      <4> QED
        BY <4>1, <4>3
    <3>3. CASE u # s
      <4>1. session'[u] = session[u]
        BY <2>8, <3>3
      <4>2. ASSUME NEW k \in Case
            PROVE  (case'[k].open = TRUE /\ case'[k].session = u)
                     <=> (case[k].open = TRUE /\ case[k].session = u)
        <5>1. CASE k = c
          BY <2>6, <2>9, <2>10, <3>3, <5>1
        <5>2. CASE k # c
          BY <2>9, <5>2
        <5> QED
          BY <5>1, <5>2
      <4> QED
        BY <3>1, <4>1, <4>2
    <3> QED
      BY <3>2, <3>3
  <2>12. EvidenceType'
    <3>1. ASSUME NEW k \in Case
          PROVE  case'[k].open \in BOOLEAN
      <4>1. CASE k = c
        BY <2>6, <2>9, <4>1
      <4>2. CASE k # c
        BY <2>9, <4>2 DEF EvidenceInv, EvidenceType
      <4> QED
        BY <4>1, <4>2
    <3> HIDE DEF opened
    <3> QED
      BY <1>2, <2>8, <2>9, <3>1 DEF EvidenceInv, EvidenceType
  <2>13. Stands
    BY <2>8, <2>10 DEF Stands
  <2> QED
    BY <2>11, <2>12, <2>13 DEF EvidenceInv
<1> QED
  BY <1>3, <1>4 DEF FinalizeCommit

(* The page and its submission: what it waits for is of a session, the      *)
(* finalization it awaits is at work on that one, and what it says it has   *)
(* received is a session that is finalized, after which it sends no more.   *)
FormRow == [step : 0..4, pictures : SUBSET Role, consent : BOOLEAN, received : BOOLEAN]
SubmissionRow == [phase : {"none", "intents", "uploading", "finalizing"},
                  session : Session \cup {NoSession}, put : SUBSET Role,
                  by : Finalizer \cup {"nobody"}]

Tells(fm, sub, ses, fin) ==
  /\ sub.phase \in {"uploading", "finalizing"} => sub.session \in Session
  /\ sub.phase = "finalizing" =>
       /\ sub.by \in Finalizer
       /\ fin[sub.by].pc = "inspect" /\ fin[sub.by].session = sub.session
  /\ fm.received = TRUE =>
       /\ sub.phase = "none" /\ sub.session \in Session
       /\ ses[sub.session].status = "finalized"

FlowInv ==
  /\ EvidenceInv
  /\ form \in FormRow /\ submission \in SubmissionRow
  /\ Tells(form, submission, session, finalizer)

LEMMA RestingRow ==
  /\ NotSubmitting \in SubmissionRow /\ NotSubmitting.phase = "none"
  /\ NotSubmitting.session = NoSession
BY DEF NotSubmitting, SubmissionRow

LEMMA FlowStarts == InitFlow => FlowInv
<1> SUFFICES ASSUME InitFlow PROVE FlowInv
  OBVIOUS
<1>1. EvidenceInv
  BY EvidenceStarts DEF InitFlow
<1>2. form \in FormRow /\ form.received = FALSE /\ submission = NotSubmitting
  BY DEF InitFlow, FormRow
<1> QED
  BY <1>1, <1>2, RestingRow DEF FlowInv, Tells

(* The page alone changes, and not what it says it received. *)
LEMMA PageMoves ==
  ASSUME FlowInv, NEW f \in FormRow, NEW c, OnPage(f, c), f.received = form.received
  PROVE  FlowInv' /\ Stands
<1>1. form' = f /\ UNCHANGED <<submission, session, store, finalizer, case>>
  BY DEF OnPage, kycVars
<1>2. EvidenceInv' /\ Stands
  BY <1>1 DEF FlowInv, EvidenceInv, EvidenceType, Owned, Stands
<1>3. Tells(f, submission, session, finalizer)
  BY DEF FlowInv, Tells
<1> QED
  BY <1>1, <1>2, <1>3 DEF FlowInv

LEMMA PageSteps ==
  ASSUME FlowInv,
         \/ Continue \/ StepBack \/ Consent
         \/ \E role \in Role : \/ StartCamera(role) \/ Granted(role) \/ Denied(role)
                               \/ CaptureImage(role) \/ AcceptFile(role) \/ Retake(role)
  PROVE  FlowInv' /\ Stands
<1>1. form \in FormRow
  BY DEF FlowInv
<1>2. CASE Continue
  <2>1. PICK step \in 0..3 : OnPage([form EXCEPT !.step = step + 1], camera)
    BY <1>2 DEF Continue
  <2>2. step + 1 \in 0..4
    OBVIOUS
  <2> QED
    BY <1>1, <2>1, <2>2, PageMoves DEF FormRow
<1>3. CASE StepBack
  <2>1. PICK step \in 1..4 : OnPage([form EXCEPT !.step = step - 1], camera)
    BY <1>3 DEF StepBack
  <2>2. step - 1 \in 0..4
    OBVIOUS
  <2> QED
    BY <1>1, <2>1, <2>2, PageMoves DEF FormRow
<1>4. CASE Consent
  <2> DEFINE consent == ~ form.consent
             new == [form EXCEPT !.consent = consent]
  <2>1. OnPage(new, camera)
    BY <1>4 DEF Consent
  <2>2. consent \in BOOLEAN
    BY <1>1 DEF FormRow
  <2> HIDE DEF consent
  <2>3. new \in FormRow /\ new.received = form.received
    BY <1>1, <2>2 DEF FormRow
  <2> HIDE DEF new
  <2> QED
    BY <2>1, <2>3, PageMoves
<1>5. ASSUME NEW role \in Role, StartCamera(role) \/ Granted(role) \/ Denied(role)
      PROVE  FlowInv' /\ Stands
  <2>1. PICK c : OnPage(form, c)
    BY <1>5 DEF StartCamera, Granted, Denied
  <2> QED
    BY <1>1, <2>1, PageMoves
<1>6. ASSUME NEW role \in Role, CaptureImage(role) \/ AcceptFile(role) \/ Retake(role)
      PROVE  FlowInv' /\ Stands
  <2>1. PICK pictures \in SUBSET Role : \E c : OnPage([form EXCEPT !.pictures = pictures], c)
    <3>1. form.pictures \cup {role} \in SUBSET Role /\ form.pictures \ {role} \in SUBSET Role
      BY <1>1 DEF FormRow
    <3>2. \/ \E c : OnPage([form EXCEPT !.pictures = form.pictures \cup {role}], c)
          \/ \E c : OnPage([form EXCEPT !.pictures = form.pictures \ {role}], c)
      BY <1>6 DEF CaptureImage, AcceptFile, Retake, WithPicture
    <3> QED
      BY <3>1, <3>2
  <2> DEFINE new == [form EXCEPT !.pictures = pictures]
  <2>2. new \in FormRow /\ new.received = form.received
    BY <1>1 DEF FormRow
  <2> HIDE DEF new
  <2> QED
    BY <2>1, <2>2, PageMoves DEF new
<1> QED
  BY <1>2, <1>3, <1>4, <1>5, <1>6

(* A submission goes on or ends, whatever the service did for it. *)
LEMMA SubmissionMoves ==
  ASSUME FlowInv, EvidenceInv', Stands, form' = form, form.received = FALSE,
         submission' \in SubmissionRow,
         submission'.phase \in {"uploading", "finalizing"} => submission'.session \in Session,
         submission'.phase = "finalizing" =>
           /\ submission'.by \in Finalizer
           /\ finalizer'[submission'.by].pc = "inspect"
           /\ finalizer'[submission'.by].session = submission'.session
  PROVE  FlowInv'
BY DEF FlowInv, Tells

LEMMA AbandonMoves ==
  ASSUME FlowInv, EvidenceInv', Stands, Abandon, submission.phase # "none"
  PROVE  FlowInv'
<1>1. form.received = FALSE
  BY DEF FlowInv, Tells, FormRow
<1>2. form' = form /\ submission' = NotSubmitting
  BY DEF Abandon
<1> QED
  BY <1>1, <1>2, RestingRow, SubmissionMoves

LEMMA QuietStore ==
  ASSUME EvidenceInv, UNCHANGED kycVars
  PROVE  EvidenceInv' /\ Stands
BY DEF kycVars, EvidenceInv, EvidenceType, Owned, Stands

(* The submission's session has been finalized, and the page is told. *)
LEMMA ReceivedMoves ==
  ASSUME FlowInv, EvidenceInv', Received, submission.session \in Session,
         session'[submission.session].status = "finalized"
  PROVE  FlowInv'
<1> DEFINE sub == [submission EXCEPT !.phase = "none"]
           one == [form EXCEPT !.pictures = {}]
           fm == [one EXCEPT !.received = TRUE]
<1>1. form \in FormRow /\ submission \in SubmissionRow
  BY DEF FlowInv
<1>2. submission' = sub /\ form' = fm
  BY DEF Received
<1>3. sub \in SubmissionRow /\ sub.phase = "none" /\ sub.session = submission.session
  BY <1>1 DEF SubmissionRow
<1>4. one \in FormRow
  BY <1>1 DEF FormRow
<1> HIDE DEF one, sub
<1>5. fm \in FormRow /\ fm.received = TRUE
  BY <1>4 DEF FormRow
<1> HIDE DEF fm
<1>6. Tells(fm, sub, session', finalizer')
  BY <1>3 DEF Tells
<1> QED
  BY <1>2, <1>3, <1>5, <1>6 DEF FlowInv

LEMMA SubmitSteps ==
  ASSUME FlowInv, \/ SubmitVerification \/ IntentsFail \/ PutFails \/ GatewayTimeout
                  \/ \E s \in Session : IntentsAnswered(s)
                  \/ \E role \in Role : PutEvidence(role)
  PROVE  FlowInv' /\ Stands
<1>0. EvidenceInv /\ form \in FormRow /\ submission \in SubmissionRow
  BY DEF FlowInv
<1>1. CASE SubmitVerification
  <2> DEFINE sub == [NotSubmitting EXCEPT !.phase = "intents"]
  <2>1. sub \in SubmissionRow /\ sub.phase = "intents"
    BY RestingRow DEF SubmissionRow
  <2>2. submission' = sub /\ form' = form /\ UNCHANGED kycVars /\ form.received = FALSE
    BY <1>0, <1>1 DEF SubmitVerification, At, FormRow
  <2> HIDE DEF sub
  <2>3. EvidenceInv' /\ Stands
    BY <1>0, <2>2, QuietStore
  <2> QED
    BY <2>1, <2>2, <2>3, SubmissionMoves
<1>2. CASE IntentsFail \/ PutFails \/ GatewayTimeout
  <2>1. EvidenceInv' /\ Stands
    BY <1>0, <1>2, QuietStore DEF IntentsFail, PutFails, GatewayTimeout
  <2>2. Abandon /\ submission.phase # "none"
    BY <1>2 DEF IntentsFail, PutFails, GatewayTimeout
  <2> QED
    BY <2>1, <2>2, AbandonMoves
<1>3. ASSUME NEW s \in Session, IntentsAnswered(s) PROVE FlowInv' /\ Stands
  <2>1. EvidenceInv' /\ Stands /\ submission.phase = "intents"
    BY <1>0, <1>3, SessionSteps DEF IntentsAnswered
  <2>2. CASE Abandon
    BY <2>1, <2>2, AbandonMoves
  <2>3. CASE submission' = [submission EXCEPT !.phase = "uploading", !.session = s] /\ form' = form
    <3> DEFINE one == [submission EXCEPT !.phase = "uploading"]
               sub == [one EXCEPT !.session = s]
    <3>1. one \in SubmissionRow /\ one.phase = "uploading"
      BY <1>0 DEF SubmissionRow
    <3>2. submission' = sub
      BY <2>3
    <3> HIDE DEF one
    <3>3. sub \in SubmissionRow /\ sub.phase = "uploading" /\ sub.session = s
      BY <3>1 DEF SubmissionRow
    <3> HIDE DEF sub
    <3>4. form.received = FALSE
      BY <1>0, <2>1 DEF FlowInv, Tells, FormRow
    <3> QED
      BY <2>1, <2>3, <3>2, <3>3, <3>4, SubmissionMoves
  <2> QED
    BY <1>3, <2>2, <2>3 DEF IntentsAnswered
<1>4. ASSUME NEW role \in Role, PutEvidence(role) PROVE FlowInv' /\ Stands
  <2> DEFINE put == submission.put \cup {role}
             sub == [submission EXCEPT !.put = put]
  <2>1. submission.phase = "uploading" /\ submission.session \in Session /\ form.received = FALSE
    BY <1>0, <1>4 DEF PutEvidence, FlowInv, Tells, FormRow
  <2>2. EvidenceInv' /\ Stands
    BY <1>0, <1>4, <2>1, UploadStep DEF PutEvidence
  <2>3. put \in SUBSET Role
    BY <1>0 DEF SubmissionRow
  <2>4. submission' = sub /\ form' = form
    BY <1>4 DEF PutEvidence
  <2> HIDE DEF put
  <2>5. sub \in SubmissionRow /\ sub.phase = "uploading" /\ sub.session = submission.session
    BY <1>0, <2>1, <2>3 DEF SubmissionRow
  <2> HIDE DEF sub
  <2> QED
    BY <2>1, <2>2, <2>4, <2>5, SubmissionMoves
<1> QED
  BY <1>1, <1>2, <1>3, <1>4

LEMMA AskStep ==
  ASSUME FlowInv, NEW f \in Finalizer, AskFinalize(f)
  PROVE  FlowInv' /\ Stands
<1> DEFINE s == submission.session
<1>0. /\ EvidenceInv /\ form \in FormRow /\ submission \in SubmissionRow
      /\ submission.phase = "uploading" /\ s \in Session /\ form.received = FALSE
  BY DEF FlowInv, AskFinalize, Tells, FormRow
<1>1. CASE session[s].status = "finalized" /\ Received /\ UNCHANGED kycVars
  <2>1. EvidenceInv' /\ Stands
    BY <1>0, <1>1, QuietStore
  <2>2. session'[s].status = "finalized"
    BY <1>0, <1>1, <2>1 DEF Stands
  <2> QED
    BY <1>0, <1>1, <2>1, <2>2, ReceivedMoves
<1>2. CASE /\ FinalizeRead(f, s) /\ form' = form
           /\ submission' = [submission EXCEPT !.phase = "finalizing", !.by = f]
  <2> DEFINE one == [submission EXCEPT !.phase = "finalizing"]
             sub == [one EXCEPT !.by = f]
  <2>1. EvidenceInv' /\ Stands /\ finalizer'[f].pc = "inspect" /\ finalizer'[f].session = s
    BY <1>0, <1>2, FinalizeReadStep
  <2>2. one \in SubmissionRow /\ one.phase = "finalizing" /\ one.session = s
    BY <1>0 DEF SubmissionRow
  <2>3. submission' = sub
    BY <1>2
  <2> HIDE DEF one
  <2>4. sub \in SubmissionRow /\ sub.phase = "finalizing" /\ sub.session = s /\ sub.by = f
    BY <2>2 DEF SubmissionRow
  <2> HIDE DEF sub
  <2> QED
    BY <1>0, <1>2, <2>1, <2>3, <2>4, SubmissionMoves
<1>3. CASE Abandon /\ UNCHANGED kycVars
  BY <1>0, <1>3, QuietStore, AbandonMoves
<1> QED
  BY <1>1, <1>2, <1>3 DEF AskFinalize

LEMMA AwaitedFinalStep ==
  ASSUME FlowInv, NEW f \in Finalizer, AwaitedStep(f)
  PROVE  FlowInv' /\ Stands
<1>0. /\ EvidenceInv /\ form \in FormRow /\ submission \in SubmissionRow
      /\ submission.phase = "finalizing" /\ submission.by = f
      /\ submission.session \in Session /\ finalizer[f].session = submission.session
      /\ form.received = FALSE
  BY DEF FlowInv, AwaitedStep, Tells, FormRow
<1>1. CASE Inspecting(f) /\ (IF finalizer'[f].pc = "idle" THEN Abandon
                             ELSE UNCHANGED <<form, camera, submission>>)
  <2>1. /\ EvidenceInv' /\ Stands
        /\ finalizer'[f].pc = "idle" \/ (finalizer'[f].pc = "inspect"
                                           /\ finalizer'[f].session = finalizer[f].session)
    BY <1>0, <1>1, InspectStep DEF Inspecting
  <2>2. CASE finalizer'[f].pc = "idle"
    BY <1>0, <1>1, <2>1, <2>2, AbandonMoves
  <2>3. CASE finalizer'[f].pc # "idle"
    <3>1. form' = form /\ submission' = submission
      BY <1>1, <2>3
    <3> QED
      BY <1>0, <2>1, <2>3, <3>1, SubmissionMoves
  <2> QED
    BY <2>2, <2>3
<1>2. CASE Finishing(f) /\ Answer(f)
  <2>1. EvidenceInv' /\ Stands
    BY <1>0, <1>2, RejectStep, CommitStep, DiesStep DEF Finishing
  <2>2. CASE Abandon
    BY <1>0, <2>1, <2>2, AbandonMoves
  <2>3. CASE Received /\ session'[finalizer[f].session].status = "finalized"
    BY <1>0, <2>1, <2>3, ReceivedMoves
  <2> QED
    BY <1>2, <2>2, <2>3 DEF Answer
<1> QED
  BY <1>1, <1>2 DEF AwaitedStep

LEMMA ElsewhereStep ==
  ASSUME FlowInv, Elsewhere
  PROVE  FlowInv' /\ Stands
<1>0. EvidenceInv /\ form' = form /\ submission' = submission
  BY DEF FlowInv, Elsewhere
<1>1. ASSUME EvidenceInv', Stands,
             submission.phase = "finalizing" => finalizer'[submission.by] = finalizer[submission.by]
      PROVE  FlowInv'
  BY <1>0, <1>1 DEF FlowInv, Tells, Stands
<1>2. ASSUME NEW s \in Session, Expire(s) PROVE FlowInv' /\ Stands
  <2>1. EvidenceInv' /\ Stands /\ finalizer' = finalizer
    BY <1>0, <1>2, SessionSteps DEF Expire
  <2> QED
    BY <1>1, <2>1
<1>3. ASSUME NEW s \in Session, NEW role \in Role, NEW content \in {"declared", "other"},
             Upload(s, role, content)
      PROVE  FlowInv' /\ Stands
  <2>1. EvidenceInv' /\ Stands /\ finalizer' = finalizer
    BY <1>0, <1>3, UploadStep DEF Upload
  <2> QED
    BY <1>1, <2>1
<1>4. ASSUME NEW f \in Finalizer, ~(submission.phase = "finalizing" /\ submission.by = f),
             Inspecting(f) \/ Finishing(f) \/ \E s \in Session : FinalizeRead(f, s)
      PROVE  FlowInv' /\ Stands
  <2>1. EvidenceInv' /\ Stands
    BY <1>0, <1>4, InspectStep, RejectStep, CommitStep, DiesStep, FinalizeReadStep
    DEF Inspecting, Finishing
  <2>2. \A g \in Finalizer : g # f => finalizer'[g] = finalizer[g]
    <3>1. CASE Return(f)
      BY <1>0, <3>1 DEF Return, EvidenceInv, EvidenceType
    <3> QED
      BY <1>0, <1>4, <3>1, InspectStep, FinalizeReadStep
      DEF Inspecting, Finishing, FinalizeReject, FinalizeCommit, FinalizeDies
  <2>3. submission.phase = "finalizing" => finalizer'[submission.by] = finalizer[submission.by]
    BY <1>4, <2>2 DEF FlowInv, Tells
  <2> QED
    BY <1>1, <2>1, <2>3
<1> QED
  BY <1>2, <1>3, <1>4 DEF Elsewhere

LEMMA FlowStep == FlowInv /\ [NextFlow]_flowVars => FlowInv' /\ Stands
<1> SUFFICES ASSUME FlowInv, [NextFlow]_flowVars PROVE FlowInv' /\ Stands
  OBVIOUS
<1>1. CASE UNCHANGED flowVars
  <2>1. EvidenceInv' /\ Stands
    BY <1>1, QuietStore DEF flowVars, FlowInv
  <2> QED
    BY <1>1, <2>1 DEF flowVars, kycVars, FlowInv
<1>2. CASE NextFlow
  BY <1>2, PageSteps, SubmitSteps, AskStep, AwaitedFinalStep, ElsewhereStep DEF NextFlow
<1> QED
  BY <1>1, <1>2

LEMMA FlowHolds == SpecAccount => []FlowInv
<1>1. InitAccount => FlowInv
  BY FlowStarts DEF InitAccount
<1>2. FlowInv /\ [NextAccount]_accountVars => FlowInv'
  BY FlowStep DEF NextAccount, accountVars
<1> QED
  BY <1>1, <1>2, PTL DEF SpecAccount

(* Repeated and concurrent finalizations open one case between them, and a  *)
(* session that is rejected has none (finalizeEvidenceSession).             *)
THEOREM SessionsHaveOneCase == SpecAccount => []OneCasePerSession
<1>1. FlowInv => OneCasePerSession
  <2> SUFFICES ASSUME FlowInv, NEW s \in Session
               PROVE  {c \in Case : case[c].open /\ case[c].session = s} =
                        IF session[s].status = "finalized" THEN {session[s].case} ELSE {}
    BY DEF OneCasePerSession
  <2>1. \A c \in Case : case[c].open \in BOOLEAN
    BY DEF FlowInv, EvidenceInv, EvidenceType
  <2>2. /\ session[s].status = "finalized" => session[s].case \in Case
        /\ \A c \in Case : (case[c].open /\ case[c].session = s)
             <=> (session[s].status = "finalized" /\ session[s].case = c)
    BY <2>1 DEF FlowInv, EvidenceInv, Owned
  <2> QED
    BY <2>2
<1> QED
  BY <1>1, FlowHolds, PTL

(* A finalized session keeps its case, whatever slower finalizations find   *)
(* (finalizeEvidenceSession).                                               *)
THEOREM FinalizationsStand == SpecAccount => FinalizedStands
<1>1. FlowInv /\ [NextAccount]_accountVars => [Stands]_kycVars
  <2> SUFFICES ASSUME FlowInv, [NextAccount]_accountVars PROVE Stands \/ UNCHANGED kycVars
    OBVIOUS
  <2>1. CASE UNCHANGED flowVars
    BY <2>1 DEF flowVars
  <2>2. CASE NextFlow
    BY <2>2, FlowStep
  <2> QED
    BY <2>1, <2>2 DEF NextAccount, accountVars
<1>2. [Stands]_kycVars => [\A s \in Session : session[s].status = "finalized" =>
                             /\ session'[s].status = "finalized"
                             /\ session'[s].case = session[s].case]_kycVars
  BY DEF Stands
<1> QED
  BY <1>1, <1>2, FlowHolds, PTL DEF SpecAccount, FinalizedStands

(* When the page says that the verification was received, the session of    *)
(* its last click has a case that is open (submitVerification,              *)
(* finalizeEvidenceSession).                                                *)
THEOREM ReceivedHasCase == SpecAccount => []ReceivedIsFiled
<1>1. FlowInv => ReceivedIsFiled
  BY DEF FlowInv, Tells, FormRow, EvidenceInv, Owned, ReceivedIsFiled
<1> QED
  BY <1>1, FlowHolds, PTL


-----------------------------------------------------------------------------
(* Family distributions: the wallet is explained by the transfers of both   *)
(* kinds, which nobody writes twice, so an execution on record stays whole. *)
QuoteRow == [status : {"none", "active", "lapsed", "consumed"}, amount : Nat]
TransferRow == [quote : Quote \cup {NoQuote}, amount : Nat, fee : Int, created : Nat,
                kind : {"none", "direct", "family"}]
RequestRow == [pc : {"idle", "lockQuote", "gate", "settle"}, key : Key \cup {NoKey},
               quote : Quote \cup {NoQuote}, began : Nat, review : BOOLEAN]
ExecutionRow == [plan : Plan \cup {"none"}, amount : Nat, fee : Int]
JobRow == [pc : {"idle", "lockPlan", "execute", "answered"}, key : ExecKey \cup {"none"},
           plan : Plan \cup {"none"}, amount : Nat, began : Nat]

FamilyTypes ==
  /\ balance \in Int /\ posted \in [{"wallet", "settlement", "fees"} -> Int]
  /\ quote \in [Quote -> QuoteRow] /\ transfer \in [Key -> TransferRow]
  /\ request \in [Request -> RequestRow] /\ now \in Nat
  /\ plan \in [Plan -> Allocations \cup {<<>>}]
  /\ execution \in [ExecKey -> ExecutionRow] /\ executing \in [Execution -> JobRow]

(* What is under way names what it works on, and a plan shares everything.  *)
Made(table) == {k \in Key : table[k].kind \in {"direct", "family"}}
Shares(s) == [i \in DOMAIN s |-> s[i].share]
RequestNames(row) == row.pc # "idle" => row.key \in Key /\ row.quote \in Quote
JobNames(job, plans) ==
  job.pc \in {"lockPlan", "execute"} =>
    job.key \in ExecKey /\ job.plan \in Plan /\ plans[job.plan] # <<>>
NamesInv ==
  /\ \A r \in Request : RequestNames(request[r])
  /\ \A x \in Execution : JobNames(executing[x], plan)
  /\ \A p \in Plan : plan[p] # <<>> => SumFunction(Shares(plan[p])) = TotalBasisPoints

Explained(money, ledger, table) ==
  /\ IsFiniteSet(Made(table))
  /\ money >= 0 /\ money = Opening + ledger["wallet"]
  /\ ledger["settlement"] = AmountsOf(table, Made(table))
  /\ ledger["fees"] = FeesOf(table, Made(table))
  /\ ledger["wallet"] + ledger["settlement"] + ledger["fees"] = 0

LegAt(e, s, i) == LegKey[e][s[i].recipient]
Paid(e, row, s, table) ==
  /\ \A i \in DOMAIN s :
       /\ table[LegAt(e, s, i)].kind = "family"
       /\ (table[LegAt(e, s, i)].amount + 1) * TotalBasisPoints > row.amount * s[i].share
  /\ SumFunction([i \in DOMAIN s |-> table[LegAt(e, s, i)].amount]) = row.amount
  /\ SumFunction([i \in DOMAIN s |-> table[LegAt(e, s, i)].fee]) = row.fee
Whole(e, row, plans, table) ==
  row # NoExecution =>
    /\ row.plan \in Plan /\ plans[row.plan] # <<>>
    /\ Paid(e, row, plans[row.plan], table)

FamilyInv ==
  /\ FamilyTypes /\ NamesInv /\ Explained(balance, posted, transfer)
  /\ \A e \in ExecKey : Whole(e, execution[e], plan, transfer)

(* The shares of an amount, rounded down with the rest for the last one. *)
LEMMA Quotient ==
  ASSUME NEW a \in Nat, NEW b \in Nat \ {0}
  PROVE  (a \div b) \in Nat /\ b * (a \div b) <= a /\ a < ((a \div b) + 1) * b
OBVIOUS

LEMMA AllocationIs ==
  ASSUME NEW s \in Allocations
  PROVE  \E n \in Nat \ {0, 1} :
           /\ Len(s) = n /\ DOMAIN s = 1..n /\ s # <<>>
           /\ \A i \in 1..n : s[i].share \in Nat /\ s[i].recipient \in Recipient
           /\ \A i, j \in 1..n : s[i].recipient = s[j].recipient => i = j
<1>1. s \in Seq([recipient : Recipient, share : Nat]) /\ Len(s) >= 2
      /\ IsInjective([i \in DOMAIN s |-> s[i].recipient])
  BY FamilyAssumption
<1>2. DOMAIN s = 1..Len(s) /\ Len(s) \in Nat /\ \A i \in 1..Len(s) : s[i] \in [recipient : Recipient, share : Nat]
  BY <1>1, LenProperties, ElementOfSeq
<1>3. Len(s) \in Nat \ {0, 1} /\ s # <<>>
  BY <1>1, <1>2
<1>4. \A i, j \in DOMAIN s : s[i].recipient = s[j].recipient => i = j
  BY <1>1 DEF IsInjective
<1> DEFINE n == Len(s)
<1>5. /\ n \in Nat \ {0, 1} /\ DOMAIN s = 1..n
      /\ \A i \in 1..n : s[i] \in [recipient : Recipient, share : Nat]
  BY <1>2, <1>3
<1>6. Len(s) = n /\ s # <<>>
  BY <1>3
<1> HIDE DEF n
<1>7. \A i \in 1..n : s[i].share \in Nat /\ s[i].recipient \in Recipient
  BY <1>5
<1>8. \A i, j \in 1..n : s[i].recipient = s[j].recipient => i = j
  BY <1>4, <1>5
<1>9. \E m \in Nat \ {0, 1} : m = n
  BY <1>5
<1> QED
  BY <1>5, <1>6, <1>7, <1>8, <1>9

LEMMA LegsAddUp ==
  ASSUME NEW s \in Allocations, SumFunction(Shares(s)) = TotalBasisPoints, NEW total \in Nat
  PROVE  /\ DOMAIN Legs(s, total) = DOMAIN s
         /\ \A i \in DOMAIN s : /\ Legs(s, total)[i] \in Int
                                /\ (Legs(s, total)[i] + 1) * TotalBasisPoints > total * s[i].share
         /\ SumFunctionOnSet(Legs(s, total), DOMAIN s) = total
<1> DEFINE T == TotalBasisPoints
           h == Shares(s)
           floor == [i \in DOMAIN s |-> (total * s[i].share) \div T]
<1>1. PICK n \in Nat \ {0, 1} :
           /\ Len(s) = n /\ DOMAIN s = 1..n
           /\ \A i \in 1..n : s[i].share \in Nat
  BY AllocationIs
<1> DEFINE N == 1..n
           I == 1..(n - 1)
           rest == total - SumFunctionOnSet(floor, I)
           leg == [floor EXCEPT ![n] = rest]
<1>2. Legs(s, total) = leg
  BY <1>1 DEF Legs
<1>3. T \in Nat \ {0}
  BY FamilyAssumption
<1>4. \A i \in 1..n : /\ floor[i] \in Nat /\ h[i] \in Nat /\ h[i] = s[i].share
                      /\ T * floor[i] <= total * h[i]
                      /\ total * h[i] < (floor[i] + 1) * T
  <2> SUFFICES ASSUME NEW i \in 1..n
               PROVE  /\ floor[i] \in Nat /\ h[i] \in Nat /\ h[i] = s[i].share
                      /\ T * floor[i] <= total * h[i]
                      /\ total * h[i] < (floor[i] + 1) * T
    OBVIOUS
  <2>1. s[i].share \in Nat /\ floor[i] = (total * s[i].share) \div T /\ h[i] = s[i].share
    BY <1>1 DEF Shares
  <2>2. total * s[i].share \in Nat
    BY <2>1
  <2> HIDE DEF floor, T, h
  <2> QED
    BY <1>3, <2>1, <2>2, Quotient
<1>b. IsFiniteSet(I) /\ IsFiniteSet(N)
  <2>1. 1 \in Int /\ n \in Int /\ n - 1 \in Int
    BY <1>1
  <2> HIDE DEF floor
  <2>2. \A b \in Int : IsFiniteSet(1..b)
    BY FS_Interval
  <2> QED
    BY <2>1, <2>2
<1>c. n \in N /\ I \subseteq N /\ N = I \cup {n} /\ n \notin I
  BY <1>1
<1>5. IsFiniteSet(I) /\ IsFiniteSet(N) /\ n \in N /\ I \subseteq N /\ N = I \cup {n} /\ n \notin I
  BY <1>b, <1>c
<1>6. DOMAIN h = N /\ SumFunctionOnSet(h, N) = T
  BY <1>1 DEF SumFunction, Shares
<1>7. /\ leg[n] = rest /\ DOMAIN leg = 1..n
      /\ \A i \in I : leg[i] = floor[i]
  BY <1>1, <1>5
<1>a. \A i \in N : /\ floor[i] \in Nat /\ h[i] \in Nat
                    /\ T * floor[i] <= total * h[i]
  BY <1>4
<1> HIDE DEF h, floor, leg, T, I, N
<1>8. SumFunctionOnSet(floor, I) \in Nat /\ SumFunctionOnSet(h, I) \in Nat
  BY <1>a, <1>5, SumClosed
<1>9. rest \in Int
  BY <1>8
<1>10. T * SumFunctionOnSet(floor, I) <= total * SumFunctionOnSet(h, I)
  BY <1>3, <1>a, <1>5, SumOfParts
<1>11. SumFunctionOnSet(h, I) + h[n] = T
  <2>1. h[n] \in Int /\ \A i \in I \cup {n} : h[i] \in Int
    BY <1>a, <1>5
  <2>2. SumFunctionOnSet(h, I \cup {n}) = h[n] + SumFunctionOnSet(h, I)
    BY <1>5, <2>1, SumAdd
  <2>3. T = h[n] + SumFunctionOnSet(h, I)
    BY <1>5, <1>6, <2>2
  <2> QED
    BY <1>8, <2>1, <2>3
<1>12. (rest + 1) * T > total * h[n]
  <2> DEFINE a == SumFunctionOnSet(floor, I)
             b == SumFunctionOnSet(h, I)
             c == h[n]
  <2>1. a \in Nat /\ b \in Nat /\ c \in Nat /\ T \in Nat \ {0} /\ T * a <= total * b /\ b + c = T
    BY <1>3, <1>4, <1>5, <1>8, <1>10, <1>11
  <2> HIDE DEF a, b, c
  <2>2. total * T = total * b + total * c
    BY <2>1
  <2>3. (total - a + 1) * T = total * T - T * a + T
    BY <2>1
  <2>4. total * T \in Nat /\ T * a \in Nat /\ total * b \in Nat /\ total * c \in Nat
    BY <2>1
  <2>5. (total - a + 1) * T > total * c
    BY <2>1, <2>2, <2>3, <2>4
  <2> QED
    BY <2>5 DEF a, c
<1>13. SumFunctionOnSet(leg, N) = total
  <2>1. \A i \in I \cup {n} : leg[i] \in Int
    BY <1>a, <1>5, <1>7, <1>9
  <2>2. SumFunctionOnSet(leg, I \cup {n}) = leg[n] + SumFunctionOnSet(leg, I)
    BY <1>5, <2>1, SumAdd
  <2>3. SumFunctionOnSet(leg, I) = SumFunctionOnSet(floor, I)
    BY <1>5, <1>7, SumSame
  <2>4. SumFunctionOnSet(leg, N) = rest + SumFunctionOnSet(floor, I)
    BY <1>5, <1>7, <2>2, <2>3
  <2> QED
    BY <1>8, <2>4
<1>14. \A i \in 1..n : leg[i] \in Int /\ (leg[i] + 1) * T > total * s[i].share
  <2> SUFFICES ASSUME NEW i \in 1..n
               PROVE  leg[i] \in Int /\ (leg[i] + 1) * T > total * s[i].share
    OBVIOUS
  <2>0. h[i] = s[i].share /\ i \in N /\ (i = n \/ i \in I)
    BY <1>4, <1>5 DEF N
  <2>1. CASE i = n
    <3>1. leg[i] = rest /\ h[n] = s[i].share
      BY <1>7, <2>0, <2>1
    <3> QED
      BY <1>9, <1>12, <3>1
  <2>2. CASE i \in I
    <3>1. leg[i] = floor[i] /\ floor[i] \in Nat /\ total * h[i] < (floor[i] + 1) * T
      BY <1>4, <1>7, <2>2
    <3> QED
      BY <2>0, <3>1
  <2> QED
    BY <2>0, <2>1, <2>2
<1> QED
  BY <1>1, <1>2, <1>7, <1>13, <1>14 DEF T, N


(* What is on record stays: nobody writes a transfer or a plan again.       *)
LEMMA LegsAreKeys ==
  ASSUME NEW e \in ExecKey, NEW s \in Allocations
  PROVE  /\ \A i \in DOMAIN s : LegAt(e, s, i) \in Key
         /\ \A i, j \in DOMAIN s : LegAt(e, s, i) = LegAt(e, s, j) => i = j
<1>1. PICK n \in Nat \ {0, 1} :
           /\ DOMAIN s = 1..n
           /\ \A i \in 1..n : s[i].recipient \in Recipient
           /\ \A i, j \in 1..n : s[i].recipient = s[j].recipient => i = j
  BY AllocationIs
<1>2. LegKey[e] \in [Recipient -> Key] /\ \A a, b \in Recipient : LegKey[e][a] = LegKey[e][b] => a = b
  BY FamilyAssumption DEF IsInjective
<1> QED
  BY <1>1, <1>2 DEF LegAt

LEMMA PaidStays ==
  ASSUME NEW e \in ExecKey, NEW s \in Allocations, NEW row, NEW table, NEW new,
         Paid(e, row, s, table), \A k \in Key : table[k].kind # "none" => new[k] = table[k]
  PROVE  Paid(e, row, s, new)
<1>1. \A i \in DOMAIN s : new[LegAt(e, s, i)] = table[LegAt(e, s, i)]
  BY LegsAreKeys DEF Paid
<1>2. /\ [i \in DOMAIN s |-> new[LegAt(e, s, i)].amount] = [i \in DOMAIN s |-> table[LegAt(e, s, i)].amount]
      /\ [i \in DOMAIN s |-> new[LegAt(e, s, i)].fee] = [i \in DOMAIN s |-> table[LegAt(e, s, i)].fee]
  BY <1>1
<1> QED
  BY <1>1, <1>2 DEF Paid

LEMMA WholeStays ==
  ASSUME NEW e \in ExecKey, NEW row, NEW plans, NEW later, NEW table, NEW new,
         \A p \in Plan : plans[p] \in Allocations \cup {<<>>},
         \A p \in Plan : plans[p] # <<>> => later[p] = plans[p],
         \A k \in Key : table[k].kind # "none" => new[k] = table[k],
         Whole(e, row, plans, table)
  PROVE  Whole(e, row, later, new)
<1> SUFFICES ASSUME row # NoExecution
             PROVE  /\ row.plan \in Plan /\ later[row.plan] # <<>>
                    /\ Paid(e, row, later[row.plan], new)
  BY DEF Whole
<1>1. /\ row.plan \in Plan /\ plans[row.plan] # <<>> /\ Paid(e, row, plans[row.plan], table)
  BY DEF Whole
<1>2. plans[row.plan] \in Allocations /\ later[row.plan] = plans[row.plan]
  BY <1>1
<1> QED
  BY <1>1, <1>2, PaidStays

(* Whatever moves no money and records no execution. *)
LEMMA FamilyStays ==
  ASSUME FamilyInv, FamilyTypes', NamesInv',
         UNCHANGED <<balance, posted, transfer, execution>>,
         \A p \in Plan : plan[p] # <<>> => plan'[p] = plan[p]
  PROVE  FamilyInv'
<1>1. Explained(balance, posted, transfer)'
  BY DEF FamilyInv, Explained, Made
<1>2. ASSUME NEW e \in ExecKey
      PROVE  Whole(e, execution'[e], plan', transfer')
  <2>1. Whole(e, execution[e], plan, transfer) /\ \A p \in Plan : plan[p] \in Allocations \cup {<<>>}
    BY DEF FamilyInv, FamilyTypes
  <2>2. Whole(e, execution[e], plan', transfer)
    BY <2>1, WholeStays
  <2> QED
    BY <2>2
<1> QED
  BY <1>1, <1>2 DEF FamilyInv

LEMMA RequestMoves ==
  ASSUME FamilyInv, NEW r \in Request, NEW row \in RequestRow, RequestNames(row),
         request' = [request EXCEPT ![r] = row], quote' \in [Quote -> QuoteRow],
         UNCHANGED <<balance, posted, transfer, now, familyVars>>
  PROVE  FamilyInv'
<1>1. FamilyTypes'
  BY DEF FamilyInv, FamilyTypes, familyVars
<1>2. NamesInv'
  BY DEF FamilyInv, FamilyTypes, NamesInv, familyVars
<1> QED
  BY <1>1, <1>2, FamilyStays DEF familyVars

LEMMA IdleRequest == Idle \in RequestRow /\ Idle.pc = "idle" /\ RequestNames(Idle)
BY DEF Idle, RequestRow, RequestNames

LEMMA TransferQuietSteps ==
  ASSUME FamilyInv, UNCHANGED familyVars,
         \/ Tick \/ Screen
         \/ \E q \in Quote : Lapse(q) \/ \E a \in Amounts : CreateQuote(q, a)
         \/ \E r \in Request : \/ LockQuote(r) \/ Gate(r) \/ Rollback(r)
                               \/ \E k \in Key, q \in Quote : Begin(r, k, q)
  PROVE  FamilyInv'
<1>1. CASE Tick \/ Screen
  <2>1. FamilyTypes'
    BY <1>1 DEF Tick, Screen, FamilyInv, FamilyTypes, familyVars
  <2>2. NamesInv'
    BY <1>1 DEF Tick, Screen, FamilyInv, NamesInv, familyVars
  <2> QED
    BY <1>1, <2>1, <2>2, FamilyStays DEF Tick, Screen, familyVars
<1>2. ASSUME NEW q \in Quote, Lapse(q) \/ \E a \in Amounts : CreateQuote(q, a)
      PROVE  FamilyInv'
  <2>1. quote' \in [Quote -> QuoteRow]
    <3>1. CASE Lapse(q)
      BY <3>1 DEF Lapse, FamilyInv, FamilyTypes, QuoteRow
    <3>2. ASSUME NEW a \in Amounts, CreateQuote(q, a)
          PROVE  quote' \in [Quote -> QuoteRow]
      <4>1. a \in Nat
        BY TransfersAssumption
      <4> QED
        BY <3>2, <4>1 DEF CreateQuote, FamilyInv, FamilyTypes, QuoteRow
    <3> QED
      BY <1>2, <3>1, <3>2
  <2>2. UNCHANGED <<balance, posted, transfer, request, now, familyVars>>
    BY <1>2 DEF Lapse, CreateQuote
  <2>3. FamilyTypes'
    BY <2>1, <2>2 DEF FamilyInv, FamilyTypes, familyVars
  <2>4. NamesInv'
    BY <2>2 DEF FamilyInv, NamesInv, familyVars
  <2> QED
    BY <2>2, <2>3, <2>4, FamilyStays DEF familyVars
<1>3. ASSUME NEW r \in Request, NEW k \in Key, NEW q \in Quote, Begin(r, k, q)
      PROVE  FamilyInv'
  <2> DEFINE row == [pc |-> "lockQuote", key |-> k, quote |-> q, began |-> now, review |-> FALSE]
  <2>1. row \in RequestRow /\ RequestNames(row)
    BY DEF FamilyInv, FamilyTypes, RequestRow, RequestNames
  <2>2. /\ request' = [request EXCEPT ![r] = row] /\ UNCHANGED <<balance, posted, transfer, now, familyVars>>
        /\ quote' \in [Quote -> QuoteRow]
    BY <1>3 DEF Begin, FamilyInv, FamilyTypes
  <2> HIDE DEF row
  <2> QED
    BY <2>1, <2>2, RequestMoves
<1>4. ASSUME NEW r \in Request, LockQuote(r) \/ Gate(r) \/ Rollback(r)
      PROVE  FamilyInv'
  <2>1. /\ UNCHANGED <<balance, posted, transfer, now, familyVars>>
        /\ quote' \in [Quote -> QuoteRow]
    BY <1>4 DEF LockQuote, Gate, Rollback, FamilyInv, FamilyTypes
  <2>2. CASE End(r)
    BY <2>1, <2>2, IdleRequest, RequestMoves DEF End
  <2>3. CASE LockQuote(r) /\ ~ End(r)
    <3> DEFINE row == [request[r] EXCEPT !.pc = "gate"]
    <3>1. request' = [request EXCEPT ![r] = row] /\ request[r].pc = "lockQuote"
      BY <2>3 DEF LockQuote, FamilyInv, FamilyTypes, RequestRow
    <3>2. row \in RequestRow /\ RequestNames(row)
      BY <3>1 DEF FamilyInv, FamilyTypes, NamesInv, RequestRow, RequestNames
    <3> HIDE DEF row
    <3> QED
      BY <2>1, <3>1, <3>2, RequestMoves
  <2>4. CASE Gate(r) /\ ~ End(r)
    <3> DEFINE matches == Reviewable(r)
               one == [request[r] EXCEPT !.pc = "settle"]
               row == [one EXCEPT !.review = matches]
    <3>1. request' = [request EXCEPT ![r] = row] /\ request[r].pc = "gate"
      BY <2>4 DEF Gate, FamilyInv, FamilyTypes, RequestRow
    <3>2. matches \in BOOLEAN
      BY DEF Reviewable
    <3>3. one \in RequestRow /\ RequestNames(one) /\ one.pc = "settle"
      BY <3>1 DEF FamilyInv, FamilyTypes, NamesInv, RequestRow, RequestNames
    <3> HIDE DEF one, matches
    <3>4. row \in RequestRow /\ RequestNames(row)
      BY <3>2, <3>3 DEF RequestRow, RequestNames
    <3> HIDE DEF row
    <3> QED
      BY <2>1, <3>1, <3>4, RequestMoves
  <2> QED
    BY <1>4, <2>2, <2>3, <2>4 DEF Rollback
<1> QED
  BY <1>1, <1>2, <1>3, <1>4


LEMMA FeeIs == \A a \in Nat : Fee(a) \in Nat
<1> SUFFICES ASSUME NEW a \in Nat PROVE Fee(a) \in Nat
  OBVIOUS
<1>1. FeeDivisor \in Nat \ {0}
  BY TransfersAssumption
<1>2. FeeDivisor \div 2 \in Nat
  BY <1>1, Quotient
<1>3. a + FeeDivisor \div 2 \in Nat
  BY <1>2
<1> QED
  BY <1>1, <1>3, Quotient DEF Fee

LEMMA Posted ==
  ASSUME posted \in [{"wallet", "settlement", "fees"} -> Int],
         NEW a \in Int, NEW f \in Int, Post(a, f)
  PROVE  /\ posted' \in [{"wallet", "settlement", "fees"} -> Int]
         /\ posted'["wallet"] = posted["wallet"] - a - f
         /\ posted'["settlement"] = posted["settlement"] + a
         /\ posted'["fees"] = posted["fees"] + f
BY DEF Post

(* A direct transfer: one more row, which explains the debit. *)
LEMMA SettleStep ==
  ASSUME FamilyInv, UNCHANGED familyVars, NEW r \in Request, Settle(r)
  PROVE  FamilyInv'
<1> DEFINE k == request[r].key
           q == request[r].quote
           amount == quote[q].amount
           fee == Fee(amount)
           row == [quote |-> q, amount |-> amount, fee |-> fee,
                   created |-> request[r].began, kind |-> "direct"]
           used == [quote[q] EXCEPT !.status = "consumed"]
<1>1. /\ request[r].pc = "settle" /\ balance >= amount + fee
      /\ balance' = balance - amount - fee /\ transfer[k] = NoTransfer
      /\ transfer' = [transfer EXCEPT ![k] = row] /\ Post(amount, fee)
      /\ quote' = [quote EXCEPT ![q] = used]
      /\ request' = [request EXCEPT ![r] = Idle] /\ now' = now
  BY DEF Settle, Afford, KeyFree, Consume, End
<1>2. k \in Key /\ q \in Quote /\ request[r].began \in Nat
  BY <1>1 DEF FamilyInv, FamilyTypes, NamesInv, RequestNames, RequestRow
<1>3. amount \in Nat /\ used \in QuoteRow
  BY <1>2 DEF FamilyInv, FamilyTypes, QuoteRow
<1>4. fee \in Nat
  BY <1>3, FeeIs
<1>5. row \in TransferRow /\ row.kind = "direct" /\ row.amount = amount /\ row.fee = fee
  BY <1>2, <1>3, <1>4 DEF TransferRow
<1>6. /\ \A j \in Key : transfer[j] \in TransferRow
      /\ \A j \in Key : transfer'[j] = IF j = k THEN row ELSE transfer[j]
      /\ balance \in Int /\ posted \in [{"wallet", "settlement", "fees"} -> Int]
  BY <1>1 DEF FamilyInv, FamilyTypes
<1>7. transfer[k].kind = "none"
  BY <1>1 DEF NoTransfer
<1> HIDE DEF row, used, amount, fee, k, q
<1>8. quote' \in [Quote -> QuoteRow] /\ transfer' \in [Key -> TransferRow]
      /\ request' \in [Request -> RequestRow]
  BY <1>1, <1>3, <1>5, IdleRequest DEF FamilyInv, FamilyTypes
<1>9. /\ posted' \in [{"wallet", "settlement", "fees"} -> Int]
      /\ posted'["wallet"] = posted["wallet"] - amount - fee
      /\ posted'["settlement"] = posted["settlement"] + amount
      /\ posted'["fees"] = posted["fees"] + fee
  BY <1>1, <1>3, <1>4, <1>6, Posted
<1>10. FamilyTypes'
  BY <1>1, <1>3, <1>4, <1>8, <1>9 DEF FamilyInv, FamilyTypes, familyVars
<1>11. NamesInv'
  BY <1>1, IdleRequest DEF FamilyInv, FamilyTypes, NamesInv, familyVars
<1>12. Explained(balance, posted, transfer)'
  <2> DEFINE S == Made(transfer)
  <2>1. IsFiniteSet(S) /\ k \notin S /\ S \subseteq Key
    BY <1>7 DEF FamilyInv, Explained, Made
  <2>2. Made(transfer') = S \cup {k}
    BY <1>2, <1>5, <1>6 DEF Made
  <2>3. /\ \A j \in S : transfer'[j] = transfer[j]
        /\ \A j \in S : transfer[j].amount \in Int /\ transfer[j].fee \in Int
        /\ transfer'[k].amount = amount /\ transfer'[k].fee = fee
    BY <1>2, <1>5, <1>6, <2>1 DEF TransferRow
  <2>4. amount \in Int /\ fee \in Int /\ transfer'[k].amount \in Int /\ transfer'[k].fee \in Int
    BY <1>3, <1>4, <2>3
  <2>5. IsFiniteSet(S \cup {k})
    BY <2>1, FS_AddElement
  <2> HIDE DEF S
  <2>6. /\ AmountsOf(transfer', S \cup {k}) = AmountsOf(transfer, S) + amount
        /\ AmountsOf(transfer, S) \in Int
    <3>1. /\ AmountsOf(transfer', S \cup {k}) = AmountsOf(transfer, S) + transfer'[k].amount
          /\ AmountsOf(transfer, S) \in Int
      BY <2>1, <2>3, <2>4, AmountsGrow
    <3> QED
      BY <2>3, <3>1
  <2>7. /\ FeesOf(transfer', S \cup {k}) = FeesOf(transfer, S) + fee
        /\ FeesOf(transfer, S) \in Int
    <3>1. /\ FeesOf(transfer', S \cup {k}) = FeesOf(transfer, S) + transfer'[k].fee
          /\ FeesOf(transfer, S) \in Int
      BY <2>1, <2>3, <2>4, FeesGrow
    <3> QED
      BY <2>3, <3>1
  <2>8. /\ balance >= 0 /\ balance = Opening + posted["wallet"] /\ Opening \in Int
        /\ posted["settlement"] = AmountsOf(transfer, S) /\ posted["fees"] = FeesOf(transfer, S)
        /\ posted["wallet"] + posted["settlement"] + posted["fees"] = 0 /\ posted["wallet"] \in Int
    BY <1>6, TransfersAssumption DEF FamilyInv, Explained, S
  <2>9. /\ balance' >= 0 /\ balance' = Opening + posted'["wallet"]
        /\ posted'["wallet"] + posted'["settlement"] + posted'["fees"] = 0
    BY <1>1, <1>6, <1>9, <2>4, <2>6, <2>7, <2>8
  <2>10. posted'["settlement"] = AmountsOf(transfer', S \cup {k}) /\ posted'["fees"] = FeesOf(transfer', S \cup {k})
    BY <1>9, <2>6, <2>7, <2>8
  <2> QED
    BY <2>2, <2>5, <2>9, <2>10 DEF Explained
<1>13. ASSUME NEW e \in ExecKey
       PROVE  Whole(e, execution'[e], plan', transfer')
  <2>1. Whole(e, execution[e], plan, transfer) /\ \A p \in Plan : plan[p] \in Allocations \cup {<<>>}
    BY DEF FamilyInv, FamilyTypes
  <2>2. \A j \in Key : transfer[j].kind # "none" => transfer'[j] = transfer[j]
    BY <1>6, <1>7
  <2>3. Whole(e, execution[e], plan, transfer')
    BY <2>1, <2>2, WholeStays
  <2> QED
    BY <2>3 DEF familyVars
<1> QED
  BY <1>10, <1>11, <1>12, <1>13 DEF FamilyInv

LEMMA CreatePlanStep ==
  ASSUME FamilyInv, NEW p \in Plan, NEW s \in Allocations, CreatePlan(p, s)
  PROVE  FamilyInv'
<1>1. /\ plan[p] = <<>> /\ SumFunction(Shares(s)) = TotalBasisPoints
      /\ plan' = [plan EXCEPT ![p] = s]
      /\ UNCHANGED <<balance, posted, quote, transfer, request, now, execution, executing>>
  BY DEF CreatePlan, Shares, transferVars
<1>2. s # <<>>
  BY AllocationIs
<1>3. FamilyTypes'
  BY <1>1 DEF FamilyInv, FamilyTypes
<1>4. \A o \in Plan : plan'[o] = IF o = p THEN s ELSE plan[o]
  BY <1>1 DEF FamilyInv, FamilyTypes
<1>5. NamesInv'
  BY <1>1, <1>2, <1>4 DEF FamilyInv, NamesInv, JobNames
<1> QED
  BY <1>1, <1>3, <1>4, <1>5, FamilyStays

LEMMA JobMoves ==
  ASSUME FamilyInv, NEW x \in Execution, NEW job \in JobRow, JobNames(job, plan),
         executing' = [executing EXCEPT ![x] = job],
         UNCHANGED <<transferVars, plan, execution>>
  PROVE  FamilyInv'
<1>1. FamilyTypes'
  BY DEF FamilyInv, FamilyTypes, transferVars
<1>2. NamesInv'
  BY DEF FamilyInv, FamilyTypes, NamesInv, transferVars
<1> QED
  BY <1>1, <1>2, FamilyStays DEF transferVars

LEMMA JobSteps ==
  ASSUME FamilyInv, NEW x \in Execution,
         \/ ExecuteLockPlan(x) \/ ExecuteEnd(x)
         \/ \E e \in ExecKey, p \in Plan, a \in Nat : ExecuteBegin(x, e, p, a)
  PROVE  FamilyInv'
<1>1. CASE ExecuteLockPlan(x)
  <2> DEFINE job == [executing[x] EXCEPT !.pc = "execute"]
  <2>1. executing[x].pc = "lockPlan" /\ executing' = [executing EXCEPT ![x] = job]
        /\ UNCHANGED <<transferVars, plan, execution>>
    BY <1>1 DEF ExecuteLockPlan
  <2>2. job \in JobRow /\ JobNames(job, plan)
    BY <2>1 DEF FamilyInv, FamilyTypes, NamesInv, JobRow, JobNames
  <2> HIDE DEF job
  <2> QED
    BY <2>1, <2>2, JobMoves
<1>2. CASE ExecuteEnd(x)
  <2>1. Waiting \in JobRow /\ JobNames(Waiting, plan)
    BY DEF Waiting, JobRow, JobNames
  <2> QED
    BY <1>2, <2>1, JobMoves DEF ExecuteEnd
<1>3. ASSUME NEW e \in ExecKey, NEW p \in Plan, NEW a \in Nat, ExecuteBegin(x, e, p, a)
      PROVE  FamilyInv'
  <2> DEFINE job == [pc |-> IF execution[e] = NoExecution THEN "lockPlan" ELSE "answered",
                     key |-> e, plan |-> p, amount |-> a, began |-> now]
  <2>1. plan[p] # <<>> /\ executing' = [executing EXCEPT ![x] = job]
        /\ UNCHANGED <<transferVars, plan, execution>>
    BY <1>3 DEF ExecuteBegin
  <2>2. job \in JobRow /\ JobNames(job, plan)
    BY <2>1 DEF FamilyInv, FamilyTypes, JobRow, JobNames
  <2> HIDE DEF job
  <2> QED
    BY <2>1, <2>2, JobMoves
<1> QED
  BY <1>1, <1>2, <1>3


(* An execution: a row more for every leg, and one debit for all of them.   *)
LEMMA ExecuteStep ==
  ASSUME FamilyInv, NEW x \in Execution, Execute(x)
  PROVE  FamilyInv'
<1> DEFINE job == executing[x]
           e == job.key
           s == plan[job.plan]
           total == job.amount
           leg == Legs(s, total)
           fees == [i \in DOMAIN s |-> Fee(leg[i])]
           fee == Fees(leg)
           at == [i \in DOMAIN s |-> LegKey[e][s[i].recipient]]
           legOf == [k \in Range(at) |-> CHOOSE i \in DOMAIN s : at[i] = k]
           row(i) == [quote |-> NoQuote, amount |-> leg[i], fee |-> Fee(leg[i]),
                      created |-> job.began, kind |-> "family"]
           record == [plan |-> job.plan, amount |-> total, fee |-> fee]
           ended == [job EXCEPT !.pc = "answered"]
<1>1. /\ job.pc = "execute" /\ \A i \in DOMAIN s : leg[i] > 0
      /\ balance >= total + fee /\ execution[e] = NoExecution
      /\ \A i \in DOMAIN s : transfer[at[i]] = NoTransfer
      /\ balance' = balance - total - fee
      /\ Post(SumFunction(leg), SumFunction(fees))
      /\ execution' = [execution EXCEPT ![e] = record]
      /\ executing' = [executing EXCEPT ![x] = ended]
      /\ UNCHANGED <<quote, request, now, plan>>
  BY DEF Execute, Afford, KeyFree
<1>2. transfer' = [k \in Key |-> IF k \in Range(at) THEN row(legOf[k]) ELSE transfer[k]]
  BY DEF Execute
<1>3. /\ job \in JobRow /\ e \in ExecKey /\ job.plan \in Plan /\ s \in Allocations
      /\ SumFunction(Shares(s)) = TotalBasisPoints /\ total \in Nat /\ job.began \in Nat
  BY <1>1 DEF FamilyInv, FamilyTypes, NamesInv, JobNames, JobRow
<1>4. PICK n \in Nat \ {0, 1} : DOMAIN s = 1..n
  BY <1>3, AllocationIs
<1> DEFINE I == DOMAIN s
<1>5. IsFiniteSet(I)
  <2>1. \A b \in Int : IsFiniteSet(1..b)
    BY FS_Interval
  <2> QED
    BY <1>4, <2>1
<1> HIDE DEF s, total, leg, fee, e
<1>6. /\ DOMAIN leg = I /\ SumFunctionOnSet(leg, I) = total
      /\ \A i \in I : leg[i] \in Int /\ (leg[i] + 1) * TotalBasisPoints > total * s[i].share
  BY <1>3, LegsAddUp DEF leg
<1>7. \A i \in I : leg[i] \in Nat /\ Fee(leg[i]) \in Nat
  BY <1>1, <1>6, FeeIs
<1>8. DOMAIN fees = I /\ (\A i \in I : fees[i] = Fee(leg[i]) /\ fees[i] \in Nat)
  BY <1>7
<1>9. SumFunction(leg) = total /\ SumFunction(fees) = fee /\ fee = SumFunctionOnSet(fees, I)
  <2>1. [i \in DOMAIN leg |-> Fee(leg[i])] = fees
    BY <1>6
  <2>2. fee = SumFunction(fees)
    BY <2>1 DEF fee, Fees
  <2> QED
    BY <1>6, <1>8, <2>2 DEF SumFunction
<1>10. fee \in Int
  <2> HIDE DEF fees
  <2> QED
    BY <1>5, <1>8, <1>9, SumClosed
<1>11. /\ \A i \in I : at[i] = LegAt(e, s, i) /\ at[i] \in Key
       /\ \A i, j \in I : at[i] = at[j] => i = j
       /\ Range(at) = Named(at, I)
  BY <1>3, LegsAreKeys DEF LegAt, Range, Named, e, s
<1>12. \A i \in I : legOf[at[i]] = i /\ at[i] \in Range(at)
  BY <1>11 DEF Range
<1> HIDE DEF at, legOf, fees
<1>13. \A i \in I : /\ transfer'[at[i]].kind = "family" /\ transfer'[at[i]].amount = leg[i]
                    /\ transfer'[at[i]].fee = fees[i]
  BY <1>2, <1>8, <1>11, <1>12
<1>14. \A i \in I : transfer[at[i]].kind = "none"
  BY <1>1 DEF NoTransfer
<1>15. \A k \in Key : k \notin Named(at, I) => transfer'[k] = transfer[k]
  BY <1>2, <1>11
<1>16. \A k \in Key : transfer[k].kind # "none" => transfer'[k] = transfer[k]
  BY <1>14, <1>15 DEF Named
<1>17. transfer' \in [Key -> TransferRow]
  <2>1. \A i \in I : row(i) \in TransferRow
    BY <1>3, <1>7 DEF TransferRow
  <2>2. \A k \in Range(at) : legOf[k] \in I
    BY <1>11, <1>12 DEF Named
  <2> QED
    BY <1>2, <2>1, <2>2 DEF FamilyInv, FamilyTypes
<1> HIDE DEF I
<1>18. total \in Int /\ balance \in Int /\ posted \in [{"wallet", "settlement", "fees"} -> Int]
  BY <1>3 DEF FamilyInv, FamilyTypes
<1>19. /\ posted' \in [{"wallet", "settlement", "fees"} -> Int]
       /\ posted'["wallet"] = posted["wallet"] - total - fee
       /\ posted'["settlement"] = posted["settlement"] + total
       /\ posted'["fees"] = posted["fees"] + fee
  <2>1. Post(total, fee)
    BY <1>1, <1>9
  <2> QED
    BY <1>10, <1>18, <2>1, Posted
<1>20. record \in ExecutionRow /\ ended \in JobRow /\ ended.pc = "answered"
       /\ record.plan = job.plan /\ record.amount = total /\ record.fee = fee
  BY <1>3, <1>10 DEF ExecutionRow, JobRow
<1> HIDE DEF record, ended
<1>21. FamilyTypes'
  <2>1. balance' \in Int
    BY <1>1, <1>10, <1>18
  <2>2. execution' \in [ExecKey -> ExecutionRow] /\ executing' \in [Execution -> JobRow]
    BY <1>1, <1>20 DEF FamilyInv, FamilyTypes
  <2> QED
    BY <1>1, <1>17, <1>19, <2>1, <2>2 DEF FamilyInv, FamilyTypes
<1>22. NamesInv'
  <2>1. \A y \in Execution : executing'[y] = IF y = x THEN ended ELSE executing[y]
    BY <1>1 DEF FamilyInv, FamilyTypes
  <2> QED
    BY <1>1, <1>20, <2>1 DEF FamilyInv, NamesInv, JobNames
<1>23. Explained(balance, posted, transfer)'
  <2> DEFINE S == Made(transfer)
  <2>1. IsFiniteSet(S) /\ S \subseteq Key /\ (\A i \in I : at[i] \notin S)
    BY <1>14 DEF FamilyInv, Explained, Made
  <2>2. Made(transfer') = S \cup Named(at, I)
    BY <1>11, <1>13, <1>15 DEF Made, Named
  <2>3. /\ \A k \in S : transfer'[k] = transfer[k]
        /\ \A k \in S : transfer[k].amount \in Int /\ transfer[k].fee \in Int
    BY <1>16 DEF Made, FamilyInv, FamilyTypes, TransferRow
  <2>4. \A i \in I : /\ leg[i] = transfer'[at[i]].amount /\ leg[i] \in Int
                     /\ fees[i] = transfer'[at[i]].fee /\ fees[i] \in Int
    BY <1>7, <1>8, <1>13
  <2>5. IsFiniteSet(S \cup Named(at, I))
    BY <1>5, <2>1, NamedFinite, FS_Union
  <2> HIDE DEF S
  <2>6. /\ AmountsOf(transfer', S \cup Named(at, I)) = AmountsOf(transfer, S) + SumFunctionOnSet(leg, I)
        /\ FeesOf(transfer', S \cup Named(at, I)) = FeesOf(transfer, S) + SumFunctionOnSet(fees, I)
    <3>1. (\A i \in I : at[i] \notin S) /\ \A i, j \in I : at[i] = at[j] => i = j
      BY <1>11, <2>1
    <3>2. /\ \A k \in S : transfer[k].amount \in Int
          /\ \A k \in S : transfer[k].fee \in Int
          /\ \A k \in S : transfer'[k] = transfer[k]
      BY <2>3
    <3>3. /\ \A i \in I : leg[i] = transfer'[at[i]].amount
          /\ \A i \in I : leg[i] \in Int
          /\ \A i \in I : fees[i] = transfer'[at[i]].fee
          /\ \A i \in I : fees[i] \in Int
      BY <2>4
    <3>4. IsFiniteSet(S)
      BY <2>1
    <3>5. AmountsOf(transfer', S \cup Named(at, I)) = AmountsOf(transfer, S) + SumFunctionOnSet(leg, I)
      BY <1>5, <3>1, <3>2, <3>3, <3>4, AmountsGrowBy
    <3>6. FeesOf(transfer', S \cup Named(at, I)) = FeesOf(transfer, S) + SumFunctionOnSet(fees, I)
      BY <1>5, <3>1, <3>2, <3>3, <3>4, FeesGrowBy
    <3> QED
      BY <3>5, <3>6
  <2>7. /\ balance >= 0 /\ balance = Opening + posted["wallet"] /\ Opening \in Int
        /\ posted["settlement"] = AmountsOf(transfer, S) /\ posted["fees"] = FeesOf(transfer, S)
        /\ posted["wallet"] + posted["settlement"] + posted["fees"] = 0
        /\ posted["wallet"] \in Int /\ posted["settlement"] \in Int /\ posted["fees"] \in Int
    BY <1>18, TransfersAssumption DEF FamilyInv, Explained, S
  <2>8. /\ balance' >= 0 /\ balance' = Opening + posted'["wallet"]
        /\ posted'["wallet"] + posted'["settlement"] + posted'["fees"] = 0
    BY <1>1, <1>10, <1>18, <1>19, <2>7
  <2>9. /\ posted'["settlement"] = AmountsOf(transfer', S \cup Named(at, I))
        /\ posted'["fees"] = FeesOf(transfer', S \cup Named(at, I))
    BY <1>6, <1>9, <1>19, <2>6, <2>7
  <2> QED
    BY <2>2, <2>5, <2>8, <2>9 DEF Explained
<1>24. Paid(e, record, s, transfer')
  <2>1. \A i \in I : /\ transfer'[LegAt(e, s, i)].kind = "family"
                     /\ (transfer'[LegAt(e, s, i)].amount + 1) * TotalBasisPoints > record.amount * s[i].share
    BY <1>6, <1>11, <1>13, <1>20
  <2>2. [i \in I |-> transfer'[LegAt(e, s, i)].amount] = leg
    <3>1. leg = [i \in I |-> leg[i]]
      BY <1>6 DEF leg, Legs, I
    <3> QED
      BY <1>11, <1>13, <3>1
  <2>3. [i \in I |-> transfer'[LegAt(e, s, i)].fee] = fees
    BY <1>11, <1>13 DEF fees, I
  <2> QED
    BY <1>9, <1>20, <2>1, <2>2, <2>3 DEF Paid, I
<1>25. ASSUME NEW d \in ExecKey
       PROVE  Whole(d, execution'[d], plan', transfer')
  <2>1. CASE d = e
    <3>1. execution'[d] = record
      BY <1>1, <1>3, <2>1 DEF FamilyInv, FamilyTypes
    <3>2. s # <<>> /\ plan'[record.plan] = s /\ record.plan \in Plan
      BY <1>1, <1>3, <1>20, AllocationIs DEF s
    <3> QED
      BY <1>24, <2>1, <3>1, <3>2 DEF Whole
  <2>2. CASE d # e
    <3>1. execution'[d] = execution[d]
      BY <1>1, <2>2 DEF FamilyInv, FamilyTypes
    <3>2. Whole(d, execution[d], plan, transfer) /\ \A p \in Plan : plan[p] \in Allocations \cup {<<>>}
      BY DEF FamilyInv, FamilyTypes
    <3>3. Whole(d, execution[d], plan, transfer')
      BY <1>16, <3>2, WholeStays
    <3> QED
      BY <1>1, <3>1, <3>3
  <2> QED
    BY <2>1, <2>2
<1> QED
  BY <1>21, <1>22, <1>23, <1>25 DEF FamilyInv


-----------------------------------------------------------------------------
(* The family page: every press has a key of its own, which one execution   *)
(* works on until it ends; what ended on record stays, and what ended       *)
(* without a record is begun by nobody again.                               *)
ManagerRow ==
  [sheet : ShareSheets \cup {<<>>}, plans : SUBSET Plan, saving : ShareSheets \cup {<<>>},
   typed : [Plan -> Nat],
   press : [plan : Plan \cup {"none"}, execution : Execution \cup {"none"},
            key : ExecKey \cup {"none"}],
   results : [Plan -> [answer : {"none", "paid", "refused", "lost"},
                       key : ExecKey \cup {"none"}, amount : Nat]],
   used : SUBSET ExecKey, allowed : BOOLEAN]

Works(jobs, x) == jobs[x].pc # "idle"
Outcome(job, records) ==
  /\ job.pc \in {"lockPlan", "execute"} => records[job.key] = NoExecution
  /\ job.pc = "answered" => /\ records[job.key].plan = job.plan
                            /\ records[job.key].amount = job.amount
KeysApart(jobs, used, records) ==
  /\ \A x \in Execution : Works(jobs, x) => jobs[x].key \in used /\ Outcome(jobs[x], records)
  /\ \A x, y \in Execution : Works(jobs, x) /\ Works(jobs, y) /\ jobs[x].key = jobs[y].key => x = y
  /\ \A e \in ExecKey : e \notin used => records[e] = NoExecution
PressTells(press, jobs) ==
  press.execution # "none" =>
    /\ press.plan \in Plan /\ Works(jobs, press.execution)
    /\ jobs[press.execution].key = press.key /\ jobs[press.execution].plan = press.plan
ResultTells(p, shown, jobs, used, records) ==
  shown.answer \in {"paid", "refused"} =>
    /\ shown.key \in used
    /\ \A x \in Execution : Works(jobs, x) => jobs[x].key # shown.key
    /\ shown.answer = "paid" => /\ records[shown.key].plan = p
                                /\ records[shown.key].amount = shown.amount
    /\ shown.answer = "refused" => records[shown.key] = NoExecution

ManagerTells(m, jobs, records) ==
  /\ m \in ManagerRow /\ (m.saving # <<>> => m.saving \in Allocations)
  /\ KeysApart(jobs, m.used, records) /\ PressTells(m.press, jobs)
  /\ \A p \in Plan : ResultTells(p, m.results[p], jobs, m.used, records)

PageTells ==
  IF onPage = "family" THEN ManagerTells(managing, executing, execution)
  ELSE \A p \in Plan : managing.results[p].answer = "none"
PagesInv == FamilyInv /\ PageTells

(* The results, while the service works, when a press begins and when one   *)
(* is answered.                                                             *)
LEMMA ManagerQuiet ==
  ASSUME ManagerTells(managing, executing, execution), NEW m \in ManagerRow,
         m.saving # <<>> => m.saving \in Allocations,
         m.used = managing.used, m.press = managing.press, m.results = managing.results
  PROVE  ManagerTells(m, executing, execution)
BY DEF ManagerTells

LEMMA AnswerShown ==
  ASSUME ManagerTells(managing, executing, execution), FamilyInv, NEW x \in Execution,
         Awaits(x), NEW jobs,
         \A y \in Execution : y # x => jobs[y] = executing[y],
         NEW answer \in {"paid", "refused", "lost"},
         answer = "lost" => jobs = executing,
         answer # "lost" => ~ Works(jobs, x) /\ answer = OutcomeOf(x)
  PROVE  ManagerTells(Result(answer, x), jobs, execution)
<1> DEFINE p == managing.press.plan
           shown == [answer |-> answer, key |-> managing.press.key, amount |-> executing[x].amount]
           m == Result(answer, x)
<1>1. /\ managing \in ManagerRow /\ KeysApart(executing, managing.used, execution)
      /\ PressTells(managing.press, executing)
      /\ \A o \in Plan : ResultTells(o, managing.results[o], executing, managing.used, execution)
  BY DEF ManagerTells
<1>2. managing.press.execution = x /\ x # "none"
  BY ManagerAssumption DEF Awaits
<1>3. /\ p \in Plan /\ Works(executing, x) /\ executing[x].key = managing.press.key
      /\ executing[x].plan = p /\ executing[x] \in JobRow
  BY <1>1, <1>2 DEF PressTells, FamilyInv, FamilyTypes
<1>4. executing[x].key \in managing.used /\ Outcome(executing[x], execution)
  BY <1>1, <1>3 DEF KeysApart
<1>5. shown \in [answer : {"none", "paid", "refused", "lost"}, key : ExecKey \cup {"none"}, amount : Nat]
  BY <1>3 DEF JobRow
<1>6. NoPress \in [plan : Plan \cup {"none"}, execution : Execution \cup {"none"},
                   key : ExecKey \cup {"none"}] /\ NoPress.execution = "none"
  BY DEF NoPress
<1>7. /\ m.press = NoPress /\ m.results = [managing.results EXCEPT ![p] = shown]
      /\ m.used = managing.used /\ m.saving = managing.saving
  BY <1>1 DEF Result, ManagerRow
<1>8. m \in ManagerRow
  <2> DEFINE one == [managing EXCEPT !.press = NoPress]
             results == [managing.results EXCEPT ![p] = shown]
             two == [one EXCEPT !.results = results]
  <2>1. m = two
    BY <1>1 DEF Result, ManagerRow
  <2>2. results \in [Plan -> [answer : {"none", "paid", "refused", "lost"},
                              key : ExecKey \cup {"none"}, amount : Nat]]
    BY <1>1, <1>5 DEF ManagerRow
  <2> HIDE DEF results, shown, p
  <2>3. one \in ManagerRow
    BY <1>1, <1>6 DEF ManagerRow
  <2> HIDE DEF one
  <2>4. two \in ManagerRow
    BY <2>2, <2>3 DEF ManagerRow
  <2> QED
    BY <2>1, <2>4
<1>9. shown.answer = answer /\ shown.key = executing[x].key /\ shown.amount = executing[x].amount
  BY <1>3
<1> HIDE DEF m, shown, p
<1>10. KeysApart(jobs, m.used, execution) /\ PressTells(m.press, jobs)
  <2>1. \A y \in Execution : Works(jobs, y) => Works(executing, y) /\ jobs[y] = executing[y]
    BY <1>3 DEF Works
  <2> QED
    BY <1>1, <1>6, <1>7, <2>1 DEF KeysApart, PressTells
<1>11. ASSUME NEW o \in Plan
       PROVE  ResultTells(o, m.results[o], jobs, m.used, execution)
  <2>1. \A y \in Execution : Works(jobs, y) => Works(executing, y) /\ jobs[y] = executing[y]
    BY <1>3 DEF Works
  <2>2. CASE o # p
    <3>1. m.results[o] = managing.results[o]
      BY <1>1, <1>7, <2>2 DEF ManagerRow
    <3> QED
      BY <1>1, <1>7, <2>1, <3>1 DEF ResultTells
  <2>3. CASE o = p
    <3>1. m.results[o] = shown
      BY <1>1, <1>7, <2>3 DEF ManagerRow
    <3>2. CASE answer = "lost"
      BY <1>9, <3>1, <3>2 DEF ResultTells
    <3>3. CASE answer # "lost"
      <4>1. \A y \in Execution : Works(jobs, y) => jobs[y].key # executing[x].key
        BY <1>1, <1>3, <2>1, <3>3 DEF KeysApart
      <4>2. /\ answer = "paid" => /\ execution[executing[x].key].plan = p
                                  /\ execution[executing[x].key].amount = executing[x].amount
            /\ answer = "refused" => execution[executing[x].key] = NoExecution
        BY <1>3, <1>4, <3>3 DEF OutcomeOf, Outcome, Works, JobRow
      <4> QED
        BY <1>4, <1>7, <1>9, <2>3, <3>1, <4>1, <4>2 DEF ResultTells
    <3> QED
      BY <3>2, <3>3
  <2> QED
    BY <2>2, <2>3
<1> QED
  BY <1>1, <1>7, <1>8, <1>10, <1>11 DEF ManagerTells, m


LEMMA PressStep ==
  ASSUME ManagerTells(managing, executing, execution), FamilyInv,
         NEW p \in Plan, NEW x \in Execution, NEW e \in ExecKey, PressExecute(p, x, e)
  PROVE  ManagerTells(managing, executing, execution)'
<1> DEFINE job == [pc |-> IF execution[e] = NoExecution THEN "lockPlan" ELSE "answered",
                   key |-> e, plan |-> p, amount |-> managing.typed[p], began |-> now]
           press == [plan |-> p, execution |-> x, key |-> e]
           results == [managing.results EXCEPT ![p] = Unpaid]
           used == managing.used \cup {e}
           one == [managing EXCEPT !.used = used]
           two == [one EXCEPT !.press = press]
           three == [two EXCEPT !.results = results]
<1>1. /\ managing \in ManagerRow /\ KeysApart(executing, managing.used, execution)
      /\ PressTells(managing.press, executing)
      /\ \A o \in Plan : ResultTells(o, managing.results[o], executing, managing.used, execution)
      /\ managing.saving # <<>> => managing.saving \in Allocations
  BY DEF ManagerTells
<1>2. /\ e \notin managing.used /\ executing[x] = Waiting /\ execution' = execution
      /\ executing' = [executing EXCEPT ![x] = job]
  BY DEF PressExecute, ExecuteBegin
<1>3. managing' = three
  BY <1>1 DEF PressExecute, ManagerRow
<1>4. Unpaid \in [answer : {"none", "paid", "refused", "lost"}, key : ExecKey \cup {"none"}, amount : Nat]
      /\ Unpaid.answer = "none"
  BY DEF Unpaid
<1>5. results \in [Plan -> [answer : {"none", "paid", "refused", "lost"},
                            key : ExecKey \cup {"none"}, amount : Nat]]
      /\ \A o \in Plan : results[o] = IF o = p THEN Unpaid ELSE managing.results[o]
  BY <1>1, <1>4 DEF ManagerRow
<1>6. press \in [plan : Plan \cup {"none"}, execution : Execution \cup {"none"},
                 key : ExecKey \cup {"none"}]
      /\ press.plan = p /\ press.execution = x /\ press.key = e
  OBVIOUS
<1>7. used \in SUBSET ExecKey
  BY <1>1 DEF ManagerRow
<1>8. /\ \A y \in Execution : executing'[y] = IF y = x THEN job ELSE executing[y]
      /\ ~ Works(executing, x)
  BY <1>2 DEF FamilyInv, FamilyTypes, Works, Waiting
<1>9. execution[e] = NoExecution
  BY <1>1, <1>2 DEF KeysApart
<1>10. job.pc = "lockPlan" /\ job.key = e /\ job.plan = p
  BY <1>9
<1> HIDE DEF job, press, results, used
<1>11. one \in ManagerRow /\ one.used = used /\ one.saving = managing.saving
  BY <1>1, <1>7 DEF ManagerRow
<1> HIDE DEF one
<1>12. two \in ManagerRow /\ two.used = used /\ two.press = press /\ two.saving = managing.saving
  BY <1>6, <1>11 DEF ManagerRow
<1> HIDE DEF two
<1>13. three \in ManagerRow /\ three.used = used /\ three.press = press /\ three.results = results
       /\ three.saving = managing.saving
  BY <1>5, <1>12 DEF ManagerRow
<1> HIDE DEF three
<1>14. KeysApart(executing', used, execution)
  <2>1. ASSUME NEW y \in Execution, Works(executing', y)
        PROVE  executing'[y].key \in used /\ Outcome(executing'[y], execution)
               /\ (y # x => executing'[y].key # e)
    <3>1. CASE y = x
      BY <1>8, <1>9, <1>10, <3>1 DEF Outcome, used
    <3>2. CASE y # x
      BY <1>1, <1>2, <1>8, <2>1, <3>2 DEF KeysApart, Works, used
    <3> QED
      BY <3>1, <3>2
  <2>2. ASSUME NEW y \in Execution, NEW z \in Execution, Works(executing', y), Works(executing', z),
               executing'[y].key = executing'[z].key
        PROVE  y = z
    <3>1. CASE y = x \/ z = x
      BY <1>8, <1>10, <2>1, <2>2, <3>1
    <3>2. CASE y # x /\ z # x
      BY <1>1, <1>8, <2>2, <3>2 DEF KeysApart, Works
    <3> QED
      BY <3>1, <3>2
  <2>3. \A d \in ExecKey : d \notin used => execution[d] = NoExecution
    BY <1>1 DEF KeysApart, used
  <2> QED
    BY <2>1, <2>2, <2>3 DEF KeysApart
<1>15. PressTells(press, executing')
  BY <1>6, <1>8, <1>10 DEF PressTells, Works
<1>16. ASSUME NEW o \in Plan
       PROVE  ResultTells(o, results[o], executing', used, execution)
  <2>1. CASE o = p
    BY <1>4, <1>5, <2>1 DEF ResultTells
  <2>2. CASE o # p
    <3>1. results[o] = managing.results[o] /\ ResultTells(o, managing.results[o], executing, managing.used, execution)
      BY <1>1, <1>5, <2>2
    <3>2. \A y \in Execution : Works(executing', y) /\ y # x => Works(executing, y) /\ executing'[y] = executing[y]
      BY <1>8 DEF Works
    <3> QED
      BY <1>2, <1>8, <1>10, <3>1, <3>2 DEF ResultTells, used
  <2> QED
    BY <2>1, <2>2
<1>17. ManagerTells(three, executing', execution)
  BY <1>1, <1>13, <1>14, <1>15, <1>16 DEF ManagerTells
<1> QED
  BY <1>2, <1>3, <1>17

(* The service works on: the plan is locked, or everything is recorded.     *)
LEMMA WorkSteps ==
  ASSUME ManagerTells(managing, executing, execution), FamilyInv, NEW x \in Execution,
         ExecuteLockPlan(x) \/ Execute(x), managing' = managing
  PROVE  ManagerTells(managing, executing, execution)'
<1>1. /\ KeysApart(executing, managing.used, execution) /\ PressTells(managing.press, executing)
      /\ \A o \in Plan : ResultTells(o, managing.results[o], executing, managing.used, execution)
      /\ managing \in ManagerRow /\ (managing.saving # <<>> => managing.saving \in Allocations)
  BY DEF ManagerTells
<1> DEFINE job == executing[x]
           e == job.key
<1>2. Works(executing, x) /\ executing \in [Execution -> JobRow] /\ execution \in [ExecKey -> ExecutionRow]
      /\ job \in JobRow
  BY DEF ExecuteLockPlan, Execute, Works, FamilyInv, FamilyTypes
<1>3. e \in managing.used /\ Outcome(job, execution)
  BY <1>1, <1>2 DEF KeysApart
<1>4. e \in ExecKey
  BY <1>1, <1>3 DEF ManagerRow
<1>5. /\ \A y \in Execution : y # x => executing'[y] = executing[y]
      /\ \A d \in ExecKey : d # e => execution'[d] = execution[d]
      /\ executing'[x].key = e /\ executing'[x].plan = job.plan /\ Works(executing', x)
      /\ Outcome(executing'[x], execution')
  <2>1. CASE ExecuteLockPlan(x)
    <3> DEFINE row == [job EXCEPT !.pc = "execute"]
    <3>1. executing' = [executing EXCEPT ![x] = row] /\ execution' = execution /\ job.pc = "lockPlan"
      BY <2>1 DEF ExecuteLockPlan
    <3>2. row.pc = "execute" /\ row.key = e /\ row.plan = job.plan
      BY <1>2 DEF JobRow
    <3> HIDE DEF row
    <3>3. executing'[x] = row /\ \A y \in Execution : y # x => executing'[y] = executing[y]
      BY <1>2, <3>1
    <3> QED
      BY <1>3, <3>1, <3>2, <3>3 DEF Outcome, Works
  <2>2. CASE Execute(x)
    <3> DEFINE row == [job EXCEPT !.pc = "answered"]
               record == [plan |-> job.plan, amount |-> job.amount,
                          fee |-> Fees(Legs(plan[job.plan], job.amount))]
    <3>1. executing' = [executing EXCEPT ![x] = row] /\ execution' = [execution EXCEPT ![e] = record]
      BY <2>2 DEF Execute
    <3>2. row.pc = "answered" /\ row.key = e /\ row.plan = job.plan /\ row.amount = job.amount
      BY <1>2 DEF JobRow
    <3>3. record.plan = job.plan /\ record.amount = job.amount
      OBVIOUS
    <3> HIDE DEF row, record
    <3>4. /\ executing'[x] = row /\ \A y \in Execution : y # x => executing'[y] = executing[y]
          /\ execution'[e] = record /\ \A d \in ExecKey : d # e => execution'[d] = execution[d]
      BY <1>2, <1>4, <3>1
    <3> QED
      BY <3>2, <3>3, <3>4 DEF Outcome, Works
  <2> QED
    BY <2>1, <2>2
<1>6. \A y \in Execution : /\ Works(executing', y) <=> Works(executing, y)
                           /\ executing'[y].key = executing[y].key
                           /\ executing'[y].plan = executing[y].plan
  BY <1>2, <1>5 DEF Works
<1>7. KeysApart(executing', managing.used, execution')
  <2>1. ASSUME NEW y \in Execution, Works(executing', y)
        PROVE  executing'[y].key \in managing.used /\ Outcome(executing'[y], execution')
    <3>1. CASE y = x
      BY <1>3, <1>5, <3>1
    <3>2. CASE y # x
      <4>1. executing[y].key # e /\ executing[y].key \in managing.used /\ Outcome(executing[y], execution)
        BY <1>1, <1>2, <1>6, <2>1, <3>2 DEF KeysApart
      <4>2. executing[y].key \in ExecKey
        BY <1>1, <4>1 DEF ManagerRow
      <4> QED
        BY <1>5, <3>2, <4>1, <4>2 DEF Outcome
    <3> QED
      BY <3>1, <3>2
  <2> QED
    BY <1>1, <1>3, <1>5, <1>6, <2>1 DEF KeysApart
<1>8. PressTells(managing.press, executing')
  <2>1. managing.press.execution # "none" => managing.press.execution \in Execution
    BY <1>1 DEF ManagerRow
  <2> QED
    BY <1>1, <1>6, <2>1 DEF PressTells
<1>9. ASSUME NEW o \in Plan
      PROVE  ResultTells(o, managing.results[o], executing', managing.used, execution')
  <2> DEFINE shown == managing.results[o]
  <2> SUFFICES ASSUME shown.answer \in {"paid", "refused"}
               PROVE  ResultTells(o, shown, executing', managing.used, execution')
    BY DEF ResultTells
  <2>1. ResultTells(o, shown, executing, managing.used, execution)
    BY <1>1
  <2>2. shown.key \in managing.used /\ shown.key # e
    BY <1>2, <2>1 DEF ResultTells
  <2>3. shown.key \in ExecKey
    BY <1>1, <2>2 DEF ManagerRow
  <2>4. execution'[shown.key] = execution[shown.key]
    BY <1>5, <2>2, <2>3
  <2> HIDE DEF shown
  <2> QED
    BY <1>6, <2>1, <2>4 DEF ResultTells
<1> QED
  BY <1>1, <1>7, <1>8, <1>9 DEF ManagerTells

(* The end of an execution, which the page may still await or not.          *)
LEMMA EndStep ==
  ASSUME ManagerTells(managing, executing, execution), FamilyInv, NEW x \in Execution,
         ExecuteEnd(x), managing' = IF Awaits(x) THEN Result(OutcomeOf(x), x) ELSE managing
  PROVE  ManagerTells(managing, executing, execution)'
<1>1. /\ executing' = [executing EXCEPT ![x] = Waiting] /\ execution' = execution
      /\ executing \in [Execution -> JobRow]
  BY DEF ExecuteEnd, FamilyInv, FamilyTypes
<1>2. /\ \A y \in Execution : y # x => executing'[y] = executing[y]
      /\ ~ Works(executing', x)
  BY <1>1 DEF Works, Waiting
<1>3. CASE Awaits(x)
  <2>1. OutcomeOf(x) \in {"paid", "refused"}
    BY DEF OutcomeOf
  <2>2. ManagerTells(Result(OutcomeOf(x), x), executing', execution)
    BY <1>2, <1>3, <2>1, AnswerShown
  <2> QED
    BY <1>1, <1>3, <2>2
<1>4. CASE ~ Awaits(x)
  <2>1. \A y \in Execution : Works(executing', y) => Works(executing, y) /\ executing'[y] = executing[y]
    BY <1>2 DEF Works
  <2>2. managing \in ManagerRow /\ (managing.saving # <<>> => managing.saving \in Allocations)
    BY DEF ManagerTells
  <2>3. KeysApart(executing', managing.used, execution)
    BY <2>1 DEF ManagerTells, KeysApart
  <2>4. PressTells(managing.press, executing')
    BY <1>2, <1>4, <2>2 DEF ManagerTells, PressTells, Awaits, ManagerRow, Works
  <2>5. \A o \in Plan : ResultTells(o, managing.results[o], executing', managing.used, execution)
    BY <2>1 DEF ManagerTells, ResultTells
  <2> QED
    BY <1>1, <1>4, <2>2, <2>3, <2>4, <2>5 DEF ManagerTells
<1> QED
  BY <1>3, <1>4


(* What is typed and saved touches neither the press nor the results.       *)
LEMMA FormSteps ==
  ASSUME ManagerTells(managing, executing, execution),
         \/ \E s \in ShareSheets : TypeShares(s)
         \/ PressSave \/ SaveFails
         \/ \E p \in Plan : SaveAnswers(p)
         \/ \E p \in Plan, a \in ExecAmounts : TypeExecutionAmount(p, a)
  PROVE  ManagerTells(managing, executing, execution)' /\ UNCHANGED <<executing, execution>>
<1>0. managing \in ManagerRow /\ (managing.saving # <<>> => managing.saving \in Allocations)
  BY DEF ManagerTells
<1>1. UNCHANGED <<executing, execution>>
  BY DEF TypeShares, PressSave, SaveFails, SaveAnswers, CreatePlan, TypeExecutionAmount,
         OnServer, vars, familyVars
<1> DEFINE Kept(m) == /\ m \in ManagerRow /\ (m.saving # <<>> => m.saving \in Allocations)
                      /\ m.used = managing.used /\ m.press = managing.press
                      /\ m.results = managing.results
<1>2. ASSUME NEW s \in ShareSheets, TypeShares(s)
      PROVE  Kept(managing')
  BY <1>0, <1>2 DEF TypeShares, ManagerRow
<1>3. ASSUME PressSave
      PROVE  Kept(managing')
  <2> DEFINE sheet == managing.sheet
  <2>1. managing' = [managing EXCEPT !.saving = sheet] /\ SharesAddUp(sheet)
    BY <1>3 DEF PressSave
  <2>2. sheet \in ShareSheets \cup {<<>>}
    BY <1>0 DEF ManagerRow
  <2>3. sheet \in Allocations
    <3>1. CASE sheet = <<>>
      BY <2>1, <3>1 DEF SharesAddUp
    <3>2. CASE sheet \in ShareSheets
      BY <2>1, <3>2, ManagerAssumption
    <3> QED
      BY <2>2, <3>1, <3>2
  <2> HIDE DEF sheet
  <2> QED
    BY <1>0, <2>1, <2>2, <2>3 DEF ManagerRow
<1>4. ASSUME SaveFails
      PROVE  Kept(managing')
  BY <1>0, <1>4 DEF SaveFails, ManagerRow
<1>5. ASSUME NEW p \in Plan, SaveAnswers(p)
      PROVE  Kept(managing')
  <2> DEFINE plans == managing.plans \cup {p}
             one == [managing EXCEPT !.saving = <<>>]
             two == [one EXCEPT !.sheet = <<>>]
             three == [two EXCEPT !.plans = plans]
  <2>1. managing' = one \/ managing' = three
    BY <1>0, <1>5 DEF SaveAnswers, ManagerRow
  <2>2. plans \in SUBSET Plan
    BY <1>0 DEF ManagerRow
  <2> HIDE DEF plans
  <2>3. Kept(one) /\ one.saving = <<>>
    BY <1>0 DEF ManagerRow
  <2> HIDE DEF one
  <2>4. Kept(two) /\ two.saving = <<>>
    BY <2>3 DEF ManagerRow
  <2> HIDE DEF two
  <2>5. Kept(three)
    BY <2>2, <2>4 DEF ManagerRow
  <2> HIDE DEF three
  <2> QED
    BY <2>1, <2>3, <2>5
<1>6. ASSUME NEW p \in Plan, NEW a \in ExecAmounts, TypeExecutionAmount(p, a)
      PROVE  Kept(managing')
  <2> DEFINE typed == [managing.typed EXCEPT ![p] = a]
  <2>1. managing' = [managing EXCEPT !.typed = typed]
    BY <1>0, <1>6 DEF TypeExecutionAmount, ManagerRow
  <2>2. typed \in [Plan -> Nat]
    BY <1>0, FamilyAssumption DEF ManagerRow
  <2> HIDE DEF typed
  <2> QED
    BY <1>0, <2>1, <2>2 DEF ManagerRow
<1>7. Kept(managing')
  BY <1>2, <1>3, <1>4, <1>5, <1>6
<1> HIDE DEF Kept
<1>8. ManagerTells(managing', executing, execution)
  BY <1>7, ManagerQuiet DEF Kept
<1> QED
  BY <1>1, <1>8

LEMMA QuietFamily == FamilyInv /\ UNCHANGED vars => FamilyInv'
<1> SUFFICES ASSUME FamilyInv, UNCHANGED vars PROVE FamilyInv'
  OBVIOUS
<1>1. UNCHANGED <<balance, posted, quote, transfer, request, now, plan, execution, executing>>
  BY DEF vars, transferVars, familyVars
<1>2. FamilyTypes'
  BY <1>1 DEF FamilyInv, FamilyTypes
<1>3. NamesInv'
  BY <1>1 DEF FamilyInv, NamesInv
<1> QED
  BY <1>1, <1>2, <1>3, FamilyStays

LEMMA ClientsStep == FamilyInv /\ Next => FamilyInv'
<1> SUFFICES ASSUME FamilyInv, Next PROVE FamilyInv'
  OBVIOUS
<1>1. CASE NextTransfers /\ UNCHANGED familyVars
  <2>1. CASE \E r \in Request : Settle(r)
    BY <1>1, <2>1, SettleStep
  <2>2. CASE ~ \E r \in Request : Settle(r)
    BY <1>1, <2>2, TransferQuietSteps DEF NextTransfers
  <2> QED
    BY <2>1, <2>2
<1>2. ASSUME NEW p \in Plan, NEW s \in Allocations, CreatePlan(p, s)
      PROVE  FamilyInv'
  BY <1>2, CreatePlanStep
<1>3. ASSUME NEW x \in Execution, Execute(x)
      PROVE  FamilyInv'
  BY <1>3, ExecuteStep
<1>4. ASSUME NEW x \in Execution,
             \/ ExecuteLockPlan(x) \/ ExecuteEnd(x)
             \/ \E e \in ExecKey, p \in Plan, a \in ExecAmounts : ExecuteBegin(x, e, p, a)
      PROVE  FamilyInv'
  <2>1. ExecAmounts \subseteq Nat
    BY FamilyAssumption
  <2> QED
    BY <1>4, <2>1, JobSteps
<1> QED
  BY <1>1, <1>2, <1>3, <1>4 DEF Next, NextFamily

LEMMA ManagerStep ==
  ASSUME FamilyInv, ManagerTells(managing, executing, execution), NextManager
  PROVE  FamilyInv' /\ ManagerTells(managing, executing, execution)'
<1>1. CASE \/ \E s \in ShareSheets : TypeShares(s)
           \/ PressSave \/ SaveFails
           \/ \E p \in Plan, a \in ExecAmounts : TypeExecutionAmount(p, a)
  BY <1>1, FormSteps, QuietFamily DEF TypeShares, PressSave, SaveFails, TypeExecutionAmount, OnServer
<1>2. ASSUME NEW p \in Plan, SaveAnswers(p)
      PROVE  FamilyInv' /\ ManagerTells(managing, executing, execution)'
  BY <1>2, FormSteps, CreatePlanStep DEF SaveAnswers, ManagerTells
<1>3. ASSUME NEW p \in Plan, NEW x \in Execution, NEW e \in ExecKey, PressExecute(p, x, e)
      PROVE  FamilyInv' /\ ManagerTells(managing, executing, execution)'
  <2>1. managing.typed[p] \in Nat
    BY DEF ManagerTells, ManagerRow
  <2> QED
    BY <1>3, <2>1, PressStep, JobSteps DEF PressExecute
<1>4. ASSUME NEW x \in Execution, ExecutionServed(x)
      PROVE  FamilyInv' /\ ManagerTells(managing, executing, execution)'
  BY <1>4, WorkSteps, EndStep, ExecuteStep, JobSteps DEF ExecutionServed
<1>5. ASSUME NEW x \in Execution, ExecutionUnanswered(x)
      PROVE  FamilyInv' /\ ManagerTells(managing, executing, execution)'
  <2>1. Awaits(x) /\ managing' = Result("lost", x) /\ UNCHANGED vars
    BY <1>5 DEF ExecutionUnanswered, OnServer
  <2>2. ManagerTells(Result("lost", x), executing, execution)
    BY <2>1, AnswerShown
  <2>3. executing' = executing /\ execution' = execution
    BY <2>1 DEF vars, familyVars
  <2> QED
    BY <2>1, <2>2, <2>3, QuietFamily
<1> QED
  BY <1>1, <1>2, <1>3, <1>4, <1>5 DEF NextManager

LEMMA FamilyStarts == InitAccount => PagesInv
<1> SUFFICES ASSUME InitAccount PROVE PagesInv
  OBVIOUS
<1>1. Init /\ InitManager
  BY DEF InitAccount
<1>2. FamilyTypes
  <2>1. NoOffer \in QuoteRow /\ NoTransfer \in TransferRow /\ NoExecution \in ExecutionRow
        /\ Waiting \in JobRow
    BY DEF NoOffer, QuoteRow, NoTransfer, TransferRow, NoExecution, ExecutionRow, Waiting, JobRow
  <2>2. Opening \in Int
    BY TransfersAssumption
  <2> QED
    BY <1>1, <2>1, <2>2, IdleRequest DEF Init, InitTransfers, FamilyTypes
<1>3. NamesInv
  BY <1>1, IdleRequest DEF Init, InitTransfers, NamesInv, JobNames, Waiting
<1>4. Explained(balance, posted, transfer)
  <2>1. Made(transfer) = {}
    BY <1>1 DEF Init, InitTransfers, Made, NoTransfer
  <2>2. IsFiniteSet({})
    BY FS_EmptySet
  <2>3. AmountsOf(transfer, {}) = 0 /\ FeesOf(transfer, {}) = 0
    BY <2>2, AmountsAsSum, FeesAsSum, SumEmpty
  <2>4. balance = Opening /\ Opening \in Nat /\ posted["wallet"] = 0 /\ posted["settlement"] = 0
        /\ posted["fees"] = 0
    BY <1>1, TransfersAssumption DEF Init, InitTransfers
  <2> QED
    BY <2>1, <2>2, <2>3, <2>4 DEF Explained
<1>5. \A e \in ExecKey : Whole(e, execution[e], plan, transfer)
  BY <1>1 DEF Init, Whole
<1>6. \A p \in Plan : managing.results[p] = Unpaid
  BY <1>1 DEF InitManager
<1>7. CASE onPage # "family"
  BY <1>2, <1>3, <1>4, <1>5, <1>6, <1>7 DEF PagesInv, FamilyInv, PageTells, Unpaid
<1>8. CASE onPage = "family"
  <2>1. /\ managing \in ManagerRow /\ managing.saving = <<>> /\ managing.used = {}
        /\ managing.press.execution = "none"
    BY <1>1 DEF InitManager, ManagerRow, NoPress, Unpaid
  <2>2. KeysApart(executing, managing.used, execution)
    BY <1>1, <2>1 DEF Init, KeysApart, Works, Waiting
  <2>3. \A p \in Plan : ResultTells(p, managing.results[p], executing, managing.used, execution)
    BY <1>6 DEF ResultTells, Unpaid
  <2>4. ManagerTells(managing, executing, execution)
    BY <2>1, <2>2, <2>3 DEF ManagerTells, PressTells
  <2> QED
    BY <1>2, <1>3, <1>4, <1>5, <1>8, <2>4 DEF PagesInv, FamilyInv, PageTells
<1> QED
  BY <1>7, <1>8

LEMMA PagesStep == PagesInv /\ [NextAccount]_accountVars => PagesInv'
<1> SUFFICES ASSUME PagesInv, [NextAccount]_accountVars PROVE PagesInv'
  OBVIOUS
<1>1. CASE UNCHANGED managerVars /\ UNCHANGED onPage
  <2>1. UNCHANGED <<vars, managing, executing, execution, onPage>>
    BY <1>1 DEF managerVars, vars, familyVars
  <2> QED
    BY <2>1, QuietFamily DEF PagesInv, PageTells
<1>2. CASE onPage = "clients" /\ Next /\ UNCHANGED <<managing, onPage>>
  BY <1>2, ClientsStep DEF PagesInv, PageTells
<1>3. CASE onPage = "family" /\ NextManager /\ UNCHANGED onPage
  BY <1>3, ManagerStep DEF PagesInv, PageTells
<1> QED
  BY <1>1, <1>2, <1>3 DEF NextAccount, accountVars

LEMMA PagesHold == SpecAccount => []PagesInv
BY FamilyStarts, PagesStep, PTL DEF SpecAccount

(* An execution on record paid every recipient of its plan, by transfers    *)
(* that add up to its amount and its fee and none of which is short of its  *)
(* share by a unit, and the wallet is explained by the transfers of both    *)
(* kinds (executeFamilyDistribution, createTransfer).                       *)
THEOREM ExecutionsAreWhole == SpecAccount => []ExecutionWhole
<1>1. FamilyInv => ExecutionWhole
  <2> SUFFICES ASSUME FamilyInv PROVE ExecutionWhole
    OBVIOUS
  <2>1. WalletExplained
    <3>1. Done({"direct", "family"}) = Made(transfer)
      BY DEF Done, Made
    <3>2. /\ Total(Made(transfer)) = AmountsOf(transfer, Made(transfer))
          /\ MapThenSumSet(LAMBDA k : transfer[k].fee, Made(transfer)) = FeesOf(transfer, Made(transfer))
      BY DEF Total, AmountsOf, FeesOf
    <3> QED
      BY <3>1, <3>2 DEF FamilyInv, Explained, WalletExplained
  <2>2. ASSUME NEW e \in ExecKey, execution[e] # NoExecution
        PROVE  Paid(e, execution[e], plan[execution[e].plan], transfer)
    BY <2>2 DEF FamilyInv, Whole
  <2> QED
    BY <2>1, <2>2 DEF ExecutionWhole, Paid, LegAt
<1> QED
  BY <1>1, PagesHold, PTL DEF PagesInv

(* What the family page shows of a press is what became of it, whatever     *)
(* answers were lost and whatever else the service works on                 *)
(* (executePlan, executeFamilyDistribution).                                *)
THEOREM FamilyResultsAreTrue == SpecAccount => []ResultsAreTrue
<1>1. PageTells => ResultsAreTrue
  BY DEF PageTells, ManagerTells, ResultTells, ResultsAreTrue
<1> QED
  BY <1>1, PagesHold, PTL DEF PagesInv
=============================================================================
