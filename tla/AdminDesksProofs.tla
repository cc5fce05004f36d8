--------------------------- MODULE AdminDesksProofs ---------------------------
(* Proofs about AdminDesks, for any number of cases, reviewers, tickets,    *)
(* replies, operators, components, runs and editors.  The desks share no    *)
(* row, so each has an invariant of its own, which the steps at the other   *)
(* desks leave alone.                                                       *)
EXTENDS AdminDesks, SumLemmas, Integers, SequenceTheorems, FiniteSetTheorems, TLAPS

-----------------------------------------------------------------------------
(* The KYC desk: a case that is open has a trail that begins with its       *)
(* submission and ends where the case is, a review is only of an open case, *)
(* and the member is verified exactly if a trail holds an approval.         *)
CaseStatus == {"submitted", "approved", "rejected", "needs_information", "in_review"}
TrailEvent == [action : Action \cup {"submitted"}, from : CaseStatus, to : CaseStatus,
               admin : BOOLEAN]
CaseRow == [open : BOOLEAN, session : Session \cup {NoSession}, status : CaseStatus,
            risk : Risk, trail : Seq(TrailEvent)]
ReviewRow == [action : Action \cup {"none"}, case : Case \cup {NoCase},
              status : CaseStatus, risk : Risk]

Explained(row) ==
  IF row.open
    THEN /\ Len(row.trail) > 0 /\ row.trail[1].action = "submitted"
         /\ row.trail[Len(row.trail)].to = row.status
    ELSE row.trail = <<>>
Approved(row) == \E i \in DOMAIN row.trail : row.trail[i].action = "approve"

ScreenRow == [selected : Case \cup {NoCase},
              shown : [case : Case \cup {NoCase}, risk : Risk],
              loading : BOOLEAN, answers : SUBSET Case]
ScreenInv == screen \in [Reviewer -> ScreenRow]
TrailInv ==
  /\ case \in [Case -> CaseRow] /\ desk \in [Reviewer -> ReviewRow] /\ verified \in BOOLEAN
  /\ \A c \in Case : Explained(case[c])
  /\ \A r \in Reviewer : desk[r].action # "none" =>
       desk[r].case \in Case /\ case[desk[r].case].open
  /\ verified <=> \E c \in Case : Approved(case[c])

LEMMA TrailStarts == InitKyc => TrailInv
<1> SUFFICES ASSUME InitKyc PROVE TrailInv
  OBVIOUS
<1>1. case \in [Case -> CaseRow] /\ \A c \in Case : case[c].trail = <<>> /\ ~case[c].open
  <2>1. << >> \in Seq(TrailEvent)
    BY EmptySeq
  <2> QED
    BY <2>1 DEF InitKyc, CaseRow, CaseStatus, Risk
<1>2. desk \in [Reviewer -> ReviewRow] /\ \A r \in Reviewer : desk[r].action = "none"
  BY DEF InitKyc, NoReview, ReviewRow, CaseStatus, Risk
<1>3. \A c \in Case : ~Approved(case[c])
  BY <1>1 DEF Approved
<1> QED
  BY <1>1, <1>2, <1>3 DEF TrailInv, Explained, InitKyc

(* A case whose row is written: what it needs, whoever is verified then. *)
LEMMA CaseWritten ==
  ASSUME TrailInv, NEW c \in Case, NEW row \in CaseRow, Explained(row), row.open,
         case' = [case EXCEPT ![c] = row],
         desk' \in [Reviewer -> ReviewRow],
         \A r \in Reviewer : desk'[r].action # "none" => desk'[r] = desk[r],
         verified' \in BOOLEAN,
         Approved(case[c]) => Approved(row),
         verified' <=> verified \/ (Approved(row) /\ ~Approved(case[c]))
  PROVE  TrailInv'
<1>1. case' \in [Case -> CaseRow] /\ case \in [Case -> CaseRow]
  BY DEF TrailInv
<1>2. case'[c] = row /\ \A k \in Case : k # c => case'[k] = case[k]
  BY <1>1
<1>3. \A k \in Case : Explained(case'[k])
  BY <1>2 DEF TrailInv
<1>4. \A r \in Reviewer : desk'[r].action # "none" =>
        desk'[r].case \in Case /\ case'[desk'[r].case].open
  BY <1>2 DEF TrailInv
<1>5. verified' <=> \E k \in Case : Approved(case'[k])
  <2>1. verified <=> \E k \in Case : Approved(case[k])
    BY DEF TrailInv
  <2> QED
    BY <1>2, <2>1
<1> QED
  BY <1>1, <1>3, <1>4, <1>5 DEF TrailInv

LEMMA IngestStep ==
  ASSUME TrailInv, NEW c \in Case, IngestKycCase(c)
  PROVE  TrailInv'
<1> DEFINE row == Submitted(NoSession)
           first == [action |-> "submitted", from |-> "submitted", to |-> "submitted",
                     admin |-> FALSE]
<1>1. first \in TrailEvent
  BY DEF TrailEvent, CaseStatus
<1>2. row.trail = <<first>> /\ <<first>> \in Seq(TrailEvent)
  <2>1. row.trail = <<first>>
    BY DEF Submitted
  <2> HIDE DEF first
  <2>2. <<first>> \in Seq(TrailEvent)
    BY <1>1
  <2> QED
    BY <2>1, <2>2
<1>3. row \in CaseRow
  BY <1>2 DEF Submitted, CaseRow, CaseStatus, Risk
<1>4. Explained(row) /\ ~Approved(row) /\ row.open
  BY DEF Explained, Approved, Submitted
<1>5. ~case[c].open /\ case' = [case EXCEPT ![c] = row]
  BY DEF IngestKycCase, NextCase
<1>6. ~Approved(case[c])
  BY <1>5 DEF TrailInv, Explained, Approved
<1>7. desk' = desk /\ verified' = verified /\ desk \in [Reviewer -> ReviewRow] /\ verified \in BOOLEAN
  BY DEF IngestKycCase, review, TrailInv
<1> HIDE DEF row
<1> QED
  BY <1>3, <1>4, <1>5, <1>6, <1>7, CaseWritten

LEMMA ReviewReadStep ==
  ASSUME TrailInv, NEW r \in Reviewer, NEW c \in Case, NEW action \in Action, NEW risk \in Risk,
         ReviewRead(r, c, action, risk)
  PROVE  TrailInv'
<1> DEFINE v == [action |-> action, case |-> c, status |-> case[c].status, risk |-> risk]
<1>1. v \in ReviewRow /\ v.case = c /\ case[c].open
  BY DEF ReviewRead, TrailInv, ReviewRow, CaseRow
<1>2. desk' = [desk EXCEPT ![r] = v] /\ UNCHANGED <<case, verified>>
  BY DEF ReviewRead
<1> HIDE DEF v
<1> QED
  BY <1>1, <1>2 DEF TrailInv

LEMMA ReviewWriteStep ==
  ASSUME TrailInv, NEW r \in Reviewer, ReviewWrite(r)
  PROVE  TrailInv'
<1> DEFINE v == desk[r]
           c == v.case
           e == Recorded(v, r \in Admin)
           row == Reviewed(case[c], v, r \in Admin)
<1>1. /\ v \in ReviewRow /\ v.action \in Action /\ c \in Case /\ case[c].open
      /\ case[c] \in CaseRow /\ Explained(case[c]) /\ case[c].trail \in Seq(TrailEvent)
  BY DEF ReviewWrite, TrailInv, ReviewRow, CaseRow
<1>2. NewStatus(v) \in CaseStatus
  BY <1>1 DEF NewStatus, CaseStatus, ReviewRow
<1>3. e \in TrailEvent /\ e.to = NewStatus(v) /\ e.action = v.action
  BY <1>1, <1>2 DEF Recorded, TrailEvent, ReviewRow
<1>4. /\ row.trail = Append(case[c].trail, e) /\ row.status = NewStatus(v)
      /\ row.risk = v.risk /\ row.open = case[c].open /\ row.session = case[c].session
      /\ row \in CaseRow
  <2> DEFINE one == [case[c] EXCEPT !.status = NewStatus(v)]
             two == [one EXCEPT !.risk = v.risk]
             trail == Append(case[c].trail, e)
  <2>1. trail \in Seq(TrailEvent)
    BY <1>1, <1>3, AppendProperties
  <2>2. /\ one \in CaseRow /\ one.status = NewStatus(v) /\ one.trail = case[c].trail
        /\ one.open = case[c].open /\ one.session = case[c].session
    BY <1>1, <1>2 DEF CaseRow
  <2>3. row = [two EXCEPT !.trail = trail]
    BY DEF Reviewed
  <2> HIDE DEF one
  <2>4. /\ two \in CaseRow /\ two.status = NewStatus(v) /\ two.trail = case[c].trail
        /\ two.open = case[c].open /\ two.session = case[c].session /\ two.risk = v.risk
    BY <1>1, <2>2 DEF CaseRow, ReviewRow
  <2> HIDE DEF two, trail, row
  <2> QED
    BY <2>1, <2>3, <2>4 DEF CaseRow, trail
<1>5. /\ Len(row.trail) = Len(case[c].trail) + 1 /\ row.trail[Len(row.trail)] = e
      /\ \A i \in 1..Len(case[c].trail) : row.trail[i] = case[c].trail[i]
      /\ DOMAIN row.trail = 1..Len(row.trail) /\ DOMAIN case[c].trail = 1..Len(case[c].trail)
      /\ Len(case[c].trail) \in Nat
  <2> HIDE DEF e, row, v, c
  <2> QED
    BY <1>1, <1>3, <1>4, AppendProperties, LenProperties
<1>6. /\ Len(case[c].trail) > 0 /\ case[c].trail[1].action = "submitted"
  BY <1>1 DEF Explained
<1>7. Explained(row) /\ row.open
  <2>1. row.trail[1] = case[c].trail[1]
    BY <1>5, <1>6
  <2> HIDE DEF row, e
  <2> QED
    BY <1>1, <1>3, <1>4, <1>5, <1>6, <2>1 DEF Explained
<1>8. /\ Approved(case[c]) => Approved(row)
      /\ Approved(row) <=> Approved(case[c]) \/ v.action = "approve"
  <2> DEFINE old == case[c].trail
             new == row.trail
  <2>1. /\ Len(new) = Len(old) + 1 /\ Len(old) \in Nat /\ new[Len(new)] = e
        /\ DOMAIN new = 1..Len(new) /\ DOMAIN old = 1..Len(old)
        /\ \A i \in 1..Len(old) : new[i] = old[i]
    BY <1>5
  <2>2. e.action = v.action
    BY <1>3
  <2> HIDE DEF row, e, v, old, new
  <2>3. ASSUME NEW i \in DOMAIN old, old[i].action = "approve"
        PROVE  \E j \in DOMAIN new : new[j].action = "approve"
    BY <2>1, <2>3
  <2>4. ASSUME v.action = "approve" PROVE \E j \in DOMAIN new : new[j].action = "approve"
    BY <2>1, <2>2, <2>4
  <2>5. ASSUME NEW i \in DOMAIN new, new[i].action = "approve", v.action # "approve"
        PROVE  \E j \in DOMAIN old : old[j].action = "approve"
    <3>1. i \in 1..Len(old)
      BY <2>1, <2>2, <2>5
    <3> QED
      BY <2>1, <2>5, <3>1
  <2> QED
    BY <2>3, <2>4, <2>5 DEF Approved, old, new
<1>9. /\ case' = [case EXCEPT ![c] = row] /\ desk' = [desk EXCEPT ![r] = NoReview]
      /\ verified' = (verified \/ v.action = "approve")
  BY DEF ReviewWrite, VerifiesMember
<1>10. /\ desk' \in [Reviewer -> ReviewRow]
       /\ \A o \in Reviewer : desk'[o].action # "none" => desk'[o] = desk[o]
  <2>1. NoReview \in ReviewRow /\ NoReview.action = "none"
    BY DEF NoReview, ReviewRow, CaseStatus, Risk
  <2> HIDE DEF v, c, row, e
  <2> QED
    BY <1>9, <2>1 DEF TrailInv
<1>11. /\ verified' \in BOOLEAN
       /\ verified' <=> verified \/ (Approved(row) /\ ~Approved(case[c]))
  <2>1. Approved(case[c]) => verified
    BY <1>1 DEF TrailInv
  <2>2. verified \in BOOLEAN
    BY DEF TrailInv
  <2> HIDE DEF row, e, v, c
  <2> QED
    BY <1>8, <1>9, <2>1, <2>2
<1> HIDE DEF row, e, v, c
<1> QED
  BY <1>1, <1>4, <1>7, <1>8, <1>9, <1>10, <1>11, CaseWritten

LEMMA PageStep ==
  ASSUME ScreenInv, NEW r \in Reviewer, NEW change \in ScreenRow, Page(r, change)
  PROVE  ScreenInv'
BY DEF ScreenInv, Page

(* What is on a screen, and selected there, are cases. *)
LEMMA ScreenStep == TrailInv /\ ScreenInv /\ NextDesk => ScreenInv'
<1> SUFFICES ASSUME TrailInv, ScreenInv, NextDesk PROVE ScreenInv'
  OBVIOUS
<1>1. CASE UNCHANGED screen
  BY <1>1 DEF ScreenInv
<1>2. ASSUME NEW r \in Reviewer, Back(r) PROVE ScreenInv'
  <2> DEFINE one == [screen[r] EXCEPT !.selected = NoCase]
             change == [one EXCEPT !.shown = NothingShown]
  <2>1. one \in ScreenRow /\ NothingShown \in [case : Case \cup {NoCase}, risk : Risk]
    BY DEF ScreenInv, ScreenRow, NothingShown, Risk
  <2>2. Page(r, change)
    BY <1>2 DEF Back
  <2> HIDE DEF one
  <2>3. change \in ScreenRow
    BY <2>1 DEF ScreenRow
  <2> QED
    BY <2>2, <2>3, PageStep
<1>3. ASSUME NEW r \in Reviewer, NEW c \in Case, OpenCase(r, c) PROVE ScreenInv'
  <2> DEFINE one == [screen[r] EXCEPT !.selected = c]
             two == [one EXCEPT !.loading = TRUE]
             change == [two EXCEPT !.answers = screen[r].answers \cup {c}]
  <2>1. one \in ScreenRow /\ screen[r].answers \in SUBSET Case
    BY DEF ScreenInv, ScreenRow
  <2>2. Page(r, change)
    BY <1>3 DEF OpenCase
  <2> HIDE DEF one
  <2>3. two \in ScreenRow
    BY <2>1 DEF ScreenRow
  <2> HIDE DEF two
  <2>4. change \in ScreenRow
    BY <2>1, <2>3 DEF ScreenRow
  <2> QED
    BY <2>2, <2>4, PageStep
<1>4. ASSUME NEW r \in Reviewer, NEW c \in Case, Loaded(r, c) \/ LoadFails(r, c)
      PROVE  ScreenInv'
  <2>1. PICK shown \in [case : Case \cup {NoCase}, risk : Risk] :
          \/ Page(r, [screen[r] EXCEPT !.shown = shown, !.loading = FALSE,
                                       !.answers = screen[r].answers \ {c}])
          \/ Page(r, [screen[r] EXCEPT !.loading = FALSE,
                                       !.answers = screen[r].answers \ {c}])
    <3>1. [case |-> c, risk |-> case[c].risk] \in [case : Case \cup {NoCase}, risk : Risk]
      BY DEF TrailInv, CaseRow
    <3> QED
      BY <1>4, <3>1 DEF Loaded, LoadFails
  <2> DEFINE one == [screen[r] EXCEPT !.shown = shown]
             left == screen[r].answers \ {c}
             two == [one EXCEPT !.loading = FALSE]
             quiet == [screen[r] EXCEPT !.loading = FALSE]
  <2>2. /\ one \in ScreenRow /\ left \in SUBSET Case
        /\ quiet \in ScreenRow
    BY DEF ScreenInv, ScreenRow
  <2>3. \/ Page(r, [two EXCEPT !.answers = left])
        \/ Page(r, [quiet EXCEPT !.answers = left])
    BY <2>1
  <2> HIDE DEF one, quiet, left
  <2>4. two \in ScreenRow
    BY <2>2 DEF ScreenRow
  <2> HIDE DEF two
  <2>5. [two EXCEPT !.answers = left] \in ScreenRow /\ [quiet EXCEPT !.answers = left] \in ScreenRow
    BY <2>2, <2>4 DEF ScreenRow
  <2> QED
    BY <2>3, <2>5, PageStep
<1>5. ASSUME NEW r \in Reviewer, Applied(r) PROVE ScreenInv'
  <2> DEFINE known == screen[r].answers \cup {desk[r].case}
             change == [screen[r] EXCEPT !.answers = known]
  <2>1. known \in SUBSET Case
    BY <1>5 DEF Applied, ReviewWrite, TrailInv, ScreenInv, ScreenRow
  <2>2. screen' = [screen EXCEPT ![r] = change]
    BY <1>5 DEF Applied
  <2> HIDE DEF known
  <2>3. change \in ScreenRow
    BY <2>1 DEF ScreenInv, ScreenRow
  <2> HIDE DEF change
  <2> QED
    BY <2>2, <2>3 DEF ScreenInv
<1>6. ASSUME NEW r \in Reviewer, NEW action, NEW risk, Apply(r, action, risk) PROVE ScreenInv'
  <2>1. [screen[r] EXCEPT !.loading = TRUE] \in ScreenRow
    BY DEF ScreenInv, ScreenRow
  <2> QED
    BY <1>6, <2>1 DEF Apply, ScreenInv
<1> QED
  BY <1>1, <1>2, <1>3, <1>4, <1>5, <1>6 DEF NextDesk, ChangeControl, Submit

LEMMA TrailStep == TrailInv /\ ScreenInv /\ NextDesk => TrailInv'
<1> SUFFICES ASSUME TrailInv, ScreenInv, NextDesk PROVE TrailInv'
  OBVIOUS
<1>1. ASSUME UNCHANGED kycVars PROVE TrailInv'
  BY <1>1 DEF kycVars, TrailInv
<1>2. ASSUME NEW c \in Case, IngestKycCase(c) PROVE TrailInv'
  BY <1>2, IngestStep
<1>3. ASSUME NEW r \in Reviewer, Back(r) PROVE TrailInv'
  BY <1>1, <1>3 DEF Back, Page
<1>4. ASSUME NEW r \in Reviewer, Applied(r) PROVE TrailInv'
  BY <1>4, ReviewWriteStep DEF Applied
<1>5. ASSUME NEW r \in Reviewer, NEW c \in Case,
             OpenCase(r, c) \/ Loaded(r, c) \/ LoadFails(r, c)
      PROVE  TrailInv'
  BY <1>1, <1>5 DEF OpenCase, Loaded, LoadFails, Page
<1>6. ASSUME NEW r \in Reviewer, NEW action \in Action, NEW risk \in Risk,
             ChangeControl(r, action, risk) \/ Submit(r, action, risk)
      PROVE  TrailInv'
  <2>1. ReviewRead(r, screen[r].selected, action, risk) /\ screen[r].selected \in Case
    BY <1>6 DEF ChangeControl, Submit, Apply, ScreenInv, ScreenRow
  <2> QED
    BY <2>1, ReviewReadStep
<1> QED
  BY <1>2, <1>3, <1>4, <1>5, <1>6 DEF NextDesk

LEMMA DeskStarts == InitDesk => TrailInv /\ ScreenInv
<1> SUFFICES ASSUME InitDesk PROVE TrailInv /\ ScreenInv
  OBVIOUS
<1>1. TrailInv
  BY TrailStarts DEF InitDesk
<1>2. ScreenInv
  BY DEF InitDesk, ScreenInv, ScreenRow, NothingShown, Risk
<1> QED
  BY <1>1, <1>2

(* However reviews overlap, the events of a case explain its status, and    *)
(* those of all cases whether their member is verified (reviewKycCase).     *)
THEOREM TrailIsExplained == SpecAdmin => []TrailExplains
<1> DEFINE Inv == TrailInv /\ ScreenInv
<1>1. InitAdmin => Inv
  BY DeskStarts DEF InitAdmin
<1>2. Inv /\ [NextAdmin]_adminVars => Inv'
  <2> SUFFICES ASSUME Inv, [NextAdmin]_adminVars PROVE Inv'
    OBVIOUS
  <2>1. CASE NextDesk
    BY <2>1, TrailStep, ScreenStep
  <2>2. CASE UNCHANGED deskVars
    BY <2>2 DEF deskVars, kycVars, TrailInv, ScreenInv
  <2> QED
    BY <2>1, <2>2 DEF NextAdmin, adminVars
<1>3. Inv => TrailExplains
  <2> SUFFICES ASSUME Inv PROVE TrailExplains
    OBVIOUS
  <2>1. \A c \in Case : case[c].open => /\ case[c].trail[1].action = "submitted"
                                        /\ Last(case[c].trail).to = case[c].status
    BY DEF TrailInv, Explained, Last
  <2>2. verified <=> \E c \in Case : Approved(case[c])
    BY DEF TrailInv
  <2> QED
    BY <2>1, <2>2 DEF TrailExplains, Approved
<1> QED
  BY <1>1, <1>2, <1>3, PTL DEF SpecAdmin

-----------------------------------------------------------------------------
(* The content editor: what an editor who is not hasty may trust.  She has  *)
(* at most one save under way, of what is on her page, which shows SAVING   *)
(* until it is answered; and if it is stored and nobody else has saved      *)
(* since, the stored document is the one on her page.                       *)
PageRow == [content : Document, state : {"saved", "dirty", "saving", "published"},
            hasty : BOOLEAN, uploading : {"none", "images", "pdf"}, captured : Document]
SaveRow == [editor : Editor, publish : BOOLEAN, content : Document,
            result : {"none", "ok", "failed"}]
StoredRow == [draft : Document, published : Document, by : Editor \cup {"seed"}]

Holds(st, content, publish) == st.draft = content /\ (publish => st.published = content)
Trusts(e, row, st, sv) ==
  row.hasty = FALSE =>
    /\ \A s, u \in sv : s.editor = e /\ u.editor = e => s = u
    /\ \A s \in sv : s.editor = e =>
         /\ row.state = "saving" /\ s.content = row.content
         /\ s.result = "ok" /\ st.by = e => Holds(st, row.content, s.publish)
    /\ (\A s \in sv : s.editor # e) /\ row.state \in {"saved", "published"} /\ st.by = e =>
         Holds(st, row.content, row.state = "published")

ContentType ==
  /\ page \in [Editor -> PageRow] /\ saves \in SUBSET SaveRow /\ stored \in StoredRow
  /\ writes \in 0..MaxWrites
ContentInv == ContentType /\ \A e \in Editor : Trusts(e, page[e], stored, saves)

LEMMA ContentStarts == InitContent => ContentInv
<1> SUFFICES ASSUME InitContent PROVE ContentInv
  OBVIOUS
<1>1. Original \in Document /\ 0 \in 0..MaxWrites
  BY ContentAssumption DEF Original, Document
<1>2. ContentType /\ \A e \in Editor : page[e].content = Original /\ page[e].state = "saved"
  BY <1>1 DEF InitContent, ContentType, PageRow, SaveRow, StoredRow
<1>3. saves = {} /\ stored.draft = Original
  BY DEF InitContent
<1> QED
  BY <1>2, <1>3 DEF ContentInv, Trusts, Holds

(* One page is written, and nothing else an editor trusts. *)
LEMMA PageWritten ==
  ASSUME ContentInv, NEW e \in Editor, NEW row \in PageRow, page' = [page EXCEPT ![e] = row],
         UNCHANGED <<stored, saves>>, writes' \in 0..MaxWrites, Trusts(e, row, stored, saves)
  PROVE  ContentInv'
<1>1. page' \in [Editor -> PageRow] /\ page'[e] = row /\ \A o \in Editor : o # e => page'[o] = page[o]
  BY DEF ContentInv, ContentType
<1> QED
  BY <1>1 DEF ContentInv, ContentType

(* Typing, or a file that has arrived, leaves a dirty page. *)
LEMMA DirtyPage ==
  ASSUME ContentInv, NEW e \in Editor, NEW content \in Document
  PROVE  /\ Dirty(e, content) \in PageRow /\ Dirty(e, content).state = "dirty"
         /\ Dirty(e, content).hasty = (page[e].hasty \/ SavesOf(e) # {})
<1> DEFINE one == [page[e] EXCEPT !.content = content]
           two == [one EXCEPT !.state = "dirty"]
           hasty == page[e].hasty \/ SavesOf(e) # {}
<1>1. one \in PageRow
  BY DEF ContentInv, ContentType, PageRow
<1>2. Dirty(e, content) = [two EXCEPT !.hasty = hasty] /\ hasty \in BOOLEAN
  BY DEF Dirty
<1> HIDE DEF one, hasty
<1>3. two \in PageRow /\ two.state = "dirty"
  BY <1>1 DEF PageRow
<1> HIDE DEF two
<1>4. [two EXCEPT !.hasty = hasty] \in PageRow
  BY <1>2, <1>3 DEF PageRow
<1> QED
  BY <1>2, <1>3, <1>4 DEF hasty, PageRow

LEMMA DirtyTrusts ==
  ASSUME NEW e \in Editor, NEW row, row.state = "dirty",
         row.hasty = FALSE => SavesOf(e) = {}
  PROVE  Trusts(e, row, stored, saves)
BY DEF Trusts, SavesOf

LEMMA EditFieldStep ==
  ASSUME ContentInv, NEW e \in Editor, EditField(e)
  PROVE  ContentInv'
<1> DEFINE content == WritePath(page[e].content, "text", writes')
           row == Dirty(e, content)
<1>1. writes' \in 0..MaxWrites
  BY ContentAssumption DEF EditField, ContentInv, ContentType
<1>2. content \in Document
  BY <1>1 DEF WritePath, Document, Field, ContentInv, ContentType, PageRow
<1>3. page' = [page EXCEPT ![e] = row] /\ UNCHANGED <<stored, saves>>
  BY DEF EditField
<1> HIDE DEF content
<1>4. row \in PageRow /\ Trusts(e, row, stored, saves)
  <2>1. /\ row \in PageRow /\ row.state = "dirty"
        /\ row.hasty = (page[e].hasty \/ SavesOf(e) # {})
    BY <1>2, DirtyPage
  <2> HIDE DEF row
  <2> QED
    BY <2>1, DirtyTrusts
<1> HIDE DEF row
<1> QED
  BY <1>1, <1>3, <1>4, PageWritten

LEMMA UploadAnswersStep ==
  ASSUME ContentInv, NEW e \in Editor, UploadAnswers(e)
  PROVE  ContentInv'
<1> DEFINE p == page[e]
           from == IF p.uploading = "pdf" THEN p.captured ELSE p.content
           content == WritePath(from, p.uploading, writes')
           dirty == Dirty(e, content)
           one == [dirty EXCEPT !.uploading = "none"]
           row == [one EXCEPT !.captured = Original]
<1>1. writes' \in 0..MaxWrites
  BY ContentAssumption DEF UploadAnswers, ContentInv, ContentType
<1>2. content \in Document
  <2>1. from \in Document /\ p.uploading \in Field
    BY DEF UploadAnswers, ContentInv, ContentType, PageRow, Field
  <2> HIDE DEF from, p
  <2> QED
    BY <1>1, <2>1 DEF WritePath, Document
<1>3. page' = [page EXCEPT ![e] = row] /\ UNCHANGED <<stored, saves>>
  BY DEF UploadAnswers
<1> HIDE DEF content
<1>4. /\ dirty \in PageRow /\ dirty.state = "dirty"
      /\ dirty.hasty = (page[e].hasty \/ SavesOf(e) # {})
  BY <1>2, DirtyPage
<1> HIDE DEF dirty
<1>5. /\ row \in PageRow /\ row.state = "dirty" /\ row.hasty = dirty.hasty
  <2>1. Original \in Document
    BY ContentAssumption DEF Original, Document
  <2>2. one \in PageRow /\ one.state = "dirty" /\ one.hasty = dirty.hasty
    BY <1>4 DEF PageRow
  <2> HIDE DEF one
  <2> QED
    BY <2>1, <2>2 DEF PageRow
<1> HIDE DEF row
<1>6. Trusts(e, row, stored, saves)
  BY <1>4, <1>5, DirtyTrusts
<1> QED
  BY <1>1, <1>3, <1>5, <1>6, PageWritten

(* Opening the page again, choosing a file, and an upload that fails. *)
LEMMA PageStays ==
  ASSUME ContentInv, NEW e \in Editor, Open(e) \/ UploadFails(e) \/ \E f \in Field : ChooseFile(e, f)
  PROVE  ContentInv'
<1>1. UNCHANGED <<stored, saves>> /\ writes' \in 0..MaxWrites
  BY DEF Open, UploadFails, ChooseFile, ContentInv, ContentType
<1>2. page[e] \in PageRow /\ stored \in StoredRow /\ Trusts(e, page[e], stored, saves)
  BY DEF ContentInv, ContentType
<1>3. CASE Open(e)
  <2> DEFINE one == [page[e] EXCEPT !.content = stored.draft]
             two == [one EXCEPT !.state = "saved"]
             row == [two EXCEPT !.hasty = FALSE]
  <2>1. page' = [page EXCEPT ![e] = row]
    BY <1>3 DEF Open, ContentInv, ContentType, PageRow
  <2>2. one \in PageRow /\ one.content = stored.draft
    BY <1>2 DEF PageRow, StoredRow
  <2> HIDE DEF one
  <2>3. two \in PageRow /\ two.content = stored.draft /\ two.state = "saved"
    BY <2>2 DEF PageRow
  <2> HIDE DEF two
  <2>4. row \in PageRow /\ row.content = stored.draft /\ row.state = "saved"
    BY <2>3 DEF PageRow
  <2> HIDE DEF row
  <2>5. Trusts(e, row, stored, saves)
    BY <1>3, <2>4 DEF Open, SavesOf, Trusts, Holds
  <2> QED
    BY <1>1, <2>1, <2>4, <2>5, PageWritten
<1>4. ASSUME NEW f \in {"none", "images", "pdf"}, NEW content \in Document,
             page' = [page EXCEPT ![e].uploading = f, ![e].captured = content]
      PROVE  ContentInv'
  <2> DEFINE one == [page[e] EXCEPT !.uploading = f]
             row == [one EXCEPT !.captured = content]
  <2>1. page' = [page EXCEPT ![e] = row]
    BY <1>4 DEF ContentInv, ContentType, PageRow
  <2>2. /\ one \in PageRow /\ one.content = page[e].content /\ one.state = page[e].state
        /\ one.hasty = page[e].hasty
    BY <1>2 DEF PageRow
  <2> HIDE DEF one
  <2>3. /\ row \in PageRow /\ row.content = page[e].content /\ row.state = page[e].state
        /\ row.hasty = page[e].hasty
    BY <2>2 DEF PageRow
  <2> HIDE DEF row
  <2>4. Trusts(e, row, stored, saves)
    BY <1>2, <2>3 DEF Trusts
  <2> QED
    BY <1>1, <2>1, <2>3, <2>4, PageWritten
<1>5. CASE UploadFails(e)
  <2>1. Original \in Document
    BY ContentAssumption DEF Original, Document
  <2> QED
    BY <1>4, <1>5, <2>1 DEF UploadFails
<1>6. ASSUME NEW f \in Field, ChooseFile(e, f) PROVE ContentInv'
  <2> DEFINE content == IF f = "pdf" THEN page[e].content ELSE page[e].captured
  <2>1. content \in Document /\ f \in {"none", "images", "pdf"}
    BY <1>2, <1>6 DEF ChooseFile, PageRow
  <2>2. page' = [page EXCEPT ![e].uploading = f, ![e].captured = content]
    BY <1>6 DEF ChooseFile
  <2> HIDE DEF content
  <2> QED
    BY <1>4, <2>1, <2>2
<1> QED
  BY <1>3, <1>5, <1>6

LEMMA PersistStep ==
  ASSUME ContentInv, NEW e \in Editor, NEW publish \in BOOLEAN, Persist(e, publish)
  PROVE  ContentInv'
<1> DEFINE hasty == page[e].hasty /\ SavesOf(e) # {}
           one == [page[e] EXCEPT !.state = "saving"]
           row == [one EXCEPT !.hasty = hasty]
           s == [editor |-> e, publish |-> publish, content |-> page[e].content, result |-> "none"]
<1>1. page[e] \in PageRow /\ \A o \in Editor : Trusts(o, page[o], stored, saves)
  BY DEF ContentInv, ContentType
<1>2. page' = [page EXCEPT ![e] = row]
  BY DEF Persist, ContentInv, ContentType, PageRow
<1>3. saves' = saves \cup {s} /\ UNCHANGED <<stored, writes>>
  BY DEF Persist
<1>4. /\ row \in PageRow /\ row.state = "saving" /\ row.hasty = hasty
      /\ row.content = page[e].content
  <2>1. one \in PageRow /\ one.state = "saving" /\ one.content = page[e].content
    BY <1>1 DEF PageRow
  <2> HIDE DEF one
  <2>2. hasty \in BOOLEAN
    OBVIOUS
  <2> HIDE DEF hasty
  <2> QED
    BY <2>1, <2>2 DEF PageRow
<1>5. s \in SaveRow /\ s.editor = e /\ s.content = page[e].content /\ s.result = "none"
  BY <1>1 DEF SaveRow, PageRow
<1>6. page[e].hasty = FALSE => SavesOf(e) = {}
  BY <1>1 DEF Persist, MayPersist, Trusts, SavesOf
<1>7. hasty = FALSE => SavesOf(e) = {}
  BY <1>1, <1>6 DEF PageRow
<1> HIDE DEF row, s, hasty
<1>8. Trusts(e, row, stored, saves')
  BY <1>3, <1>4, <1>5, <1>7 DEF Trusts, SavesOf
<1>9. ASSUME NEW o \in Editor, o # e PROVE Trusts(o, page[o], stored, saves')
  BY <1>1, <1>3, <1>5, <1>9 DEF Trusts
<1>10. ContentType'
  BY <1>2, <1>3, <1>4, <1>5 DEF ContentType, ContentInv
<1>11. page'[e] = row /\ \A o \in Editor : o # e => page'[o] = page[o]
  BY <1>2 DEF ContentInv, ContentType
<1> QED
  BY <1>3, <1>8, <1>9, <1>10, <1>11 DEF ContentInv

(* A save is answered by the server, and the answer is not read yet. *)
LEMMA SaveAnswered ==
  ASSUME ContentInv, NEW s \in saves, NEW result \in {"ok", "failed"}
  PROVE  /\ [s EXCEPT !.result = result] \in SaveRow
         /\ [s EXCEPT !.result = result].editor = s.editor
         /\ [s EXCEPT !.result = result].content = s.content
         /\ [s EXCEPT !.result = result].publish = s.publish
         /\ [s EXCEPT !.result = result].result = result
BY DEF ContentInv, ContentType, SaveRow

LEMMA SaveContentStep ==
  ASSUME ContentInv, NEW s \in saves, SaveContent(s)
  PROVE  ContentInv'
<1> DEFINE now == [s EXCEPT !.result = "ok"]
           st == [draft |-> s.content,
                  published |-> IF s.publish THEN s.content ELSE stored.published,
                  by |-> s.editor]
<1>1. s \in SaveRow /\ stored \in StoredRow /\ \A o \in Editor : Trusts(o, page[o], stored, saves)
  BY DEF ContentInv, ContentType
<1>2. /\ now \in SaveRow /\ now.editor = s.editor /\ now.content = s.content
      /\ now.publish = s.publish /\ now.result = "ok"
  BY SaveAnswered
<1>3. stored' = st /\ saves' = (saves \ {s}) \cup {now} /\ UNCHANGED <<page, writes>>
  BY DEF SaveContent, Saved
<1>4. st \in StoredRow /\ st.by = s.editor /\ Holds(st, s.content, s.publish)
  BY <1>1 DEF StoredRow, SaveRow, Holds
<1> HIDE DEF now, st
<1>5. ContentType'
  BY <1>2, <1>3, <1>4 DEF ContentInv, ContentType
<1>6. Trusts(s.editor, page[s.editor], st, saves')
  <2>1. Trusts(s.editor, page[s.editor], stored, saves)
    BY <1>1 DEF SaveRow
  <2> QED
    BY <1>2, <1>3, <1>4, <2>1 DEF Trusts
<1>7. ASSUME NEW o \in Editor, o # s.editor PROVE Trusts(o, page[o], st, saves')
  <2>1. Trusts(o, page[o], stored, saves)
    BY <1>1
  <2> QED
    BY <1>2, <1>3, <1>4, <1>7, <2>1 DEF Trusts
<1> QED
  BY <1>3, <1>5, <1>6, <1>7 DEF ContentInv

LEMMA SaveFailsStep ==
  ASSUME ContentInv, NEW s \in saves, SaveFails(s)
  PROVE  ContentInv'
<1> DEFINE now == [s EXCEPT !.result = "failed"]
<1>1. \A o \in Editor : Trusts(o, page[o], stored, saves)
  BY DEF ContentInv
<1>2. /\ now \in SaveRow /\ now.editor = s.editor /\ now.content = s.content
      /\ now.publish = s.publish /\ now.result = "failed"
  BY SaveAnswered
<1>3. saves' = (saves \ {s}) \cup {now} /\ UNCHANGED <<stored, page, writes>>
  BY DEF SaveFails
<1> HIDE DEF now
<1>4. ContentType'
  BY <1>2, <1>3 DEF ContentInv, ContentType
<1>5. ASSUME NEW o \in Editor PROVE Trusts(o, page[o], stored, saves')
  <2>1. Trusts(o, page[o], stored, saves)
    BY <1>1
  <2> QED
    BY <1>2, <1>3, <2>1 DEF Trusts
<1> QED
  BY <1>3, <1>4, <1>5 DEF ContentInv

LEMMA AnswerReadStep ==
  ASSUME ContentInv, NEW s \in saves, PersistAnswers(s) \/ AnswerLost(s)
  PROVE  ContentInv'
<1> DEFINE e == s.editor
           shown == IF page' = page THEN page[e].state ELSE Reported(s)
           row == [page[e] EXCEPT !.state = shown]
<1>1. s \in SaveRow /\ e \in Editor /\ page[e] \in PageRow /\ s.result # "none"
  BY DEF ContentInv, ContentType, SaveRow, PersistAnswers, AnswerLost
<1>2. /\ \A o \in Editor : Trusts(o, page[o], stored, saves)
      /\ page \in [Editor -> PageRow] /\ Trusts(e, page[e], stored, saves)
  BY <1>1 DEF ContentInv, ContentType
<1>3. saves' = saves \ {s} /\ UNCHANGED <<stored, writes>>
  BY DEF PersistAnswers, AnswerLost
<1>4. CASE page' = page
  <2>1. ASSUME NEW o \in Editor PROVE Trusts(o, page[o], stored, saves \ {s})
    <3>1. Trusts(o, page[o], stored, saves)
      BY <1>2
    <3>2. CASE o # e
      BY <3>1, <3>2 DEF Trusts
    <3>3. CASE o = e
      BY <3>1, <3>3 DEF Trusts
    <3> QED
      BY <3>2, <3>3
  <2> QED
    BY <1>3, <1>4, <2>1 DEF ContentInv, ContentType
<1>5. CASE page' # page
  <2>1. page' = [page EXCEPT ![e].state = Reported(s)]
    BY <1>5 DEF PersistAnswers, AnswerLost
  <2>2. row = [page[e] EXCEPT !.state = Reported(s)]
    BY <1>5
  <2>3. Reported(s) \in {"dirty", "saved", "published"}
    BY DEF Reported
  <2> HIDE DEF row, e, shown
  <2>4. /\ row \in PageRow /\ row.state = Reported(s) /\ row.content = page[e].content
        /\ row.hasty = page[e].hasty
    BY <1>1, <2>2, <2>3 DEF PageRow
  <2>5. page' = [page EXCEPT ![e] = row]
    BY <1>1, <1>2, <2>1, <2>2 DEF PageRow
  <2>6. ASSUME row.hasty = FALSE PROVE Trusts(e, row, stored, saves \ {s})
    <3>1. /\ \A u \in saves : u.editor = e => u = s
          /\ s.content = page[e].content
          /\ s.result = "ok" /\ stored.by = e => Holds(stored, page[e].content, s.publish)
      BY <1>2, <2>4, <2>6 DEF Trusts, e
    <3>2. row.state \in {"saved", "published"} => s.result = "ok" /\ (row.state = "published" <=> s.publish)
      BY <1>1, <2>4 DEF Reported, SaveRow
    <3> HIDE DEF Holds
    <3>3. \A u \in saves \ {s} : u.editor # e
      BY <3>1
    <3>4. ASSUME row.state \in {"saved", "published"}, stored.by = e
          PROVE  Holds(stored, row.content, row.state = "published")
      BY <3>1, <3>2, <3>4, <2>4 DEF Holds
    <3> QED
      BY <3>3, <3>4 DEF Trusts
  <2>7. Trusts(e, row, stored, saves \ {s})
    BY <2>6 DEF Trusts
  <2>8. ASSUME NEW o \in Editor, o # e PROVE Trusts(o, page[o], stored, saves \ {s})
    BY <1>2, <2>8 DEF Trusts
  <2>9. page' \in [Editor -> PageRow] /\ page'[e] = row /\ \A o \in Editor : o # e => page'[o] = page[o]
    BY <1>1, <1>2, <2>4, <2>5
  <2> QED
    BY <1>3, <2>7, <2>8, <2>9 DEF ContentInv, ContentType
<1> QED
  BY <1>4, <1>5

LEMMA ContentStep == ContentInv /\ [NextContent]_contentVars => ContentInv'
<1> SUFFICES ASSUME ContentInv, [NextContent]_contentVars PROVE ContentInv'
  OBVIOUS
<1>1. CASE UNCHANGED contentVars
  BY <1>1 DEF contentVars, ContentInv, ContentType
<1>2. CASE NextContent
  BY <1>2, PageStays, EditFieldStep, UploadAnswersStep, PersistStep, SaveContentStep,
     SaveFailsStep, AnswerReadStep DEF NextContent
<1> QED
  BY <1>1, <1>2

(* An editor who waits for each save before going on can trust what her     *)
(* page says, in whatever order the saves of all editors arrive (persist,   *)
(* saveContent).                                                            *)
THEOREM PageTellsStored == SpecAdmin => []SavedIsStored
<1>1. InitAdmin => ContentInv
  BY ContentStarts DEF InitAdmin
<1>2. ContentInv /\ [NextAdmin]_adminVars => ContentInv'
  BY ContentStep DEF NextAdmin, adminVars
<1>3. ContentInv => SavedIsStored
  BY DEF ContentInv, ContentType, PageRow, SavedIsStored, SavesOf, Trusts, Holds
<1> QED
  BY <1>1, <1>2, <1>3, PTL DEF SpecAdmin

-----------------------------------------------------------------------------
(* The support desk.  Messages of a thread are counted by the positions     *)
(* that hold one of a kind; a message more is counted once or not at all.   *)
Message == [by : {"customer", "note", "admin"}, at : Nat]
Hits(s, kind) == {k \in DOMAIN s : s[k] \in kind}
Heard(s, kind) == Cardinality(Hits(s, kind))

By(who) == {m \in Message : m.by = who}
Window(start) == {m \in Message : m.by = "customer"
                                    /\ m.at \in start..(start + ReplyWindow - 1)}
RecentTo(began) == {m \in Message : Recent(m, began)}

LEMMA HitsFinite ==
  ASSUME NEW s \in Seq(Message), NEW kind
  PROVE  IsFiniteSet(Hits(s, kind)) /\ Heard(s, kind) \in Nat
<1>1. Hits(s, kind) \subseteq 1..Len(s) /\ Len(s) \in Nat
  BY LenProperties DEF Hits
<1>2. IsFiniteSet(1..Len(s))
  BY <1>1, FS_Interval
<1>3. IsFiniteSet(Hits(s, kind))
  BY <1>1, <1>2, FS_Subset
<1> QED
  BY <1>3, FS_CardinalityType DEF Heard

LEMMA HeardMore ==
  ASSUME NEW s \in Seq(Message), NEW m \in Message, NEW kind
  PROVE  Heard(Append(s, m), kind) = Heard(s, kind) + (IF m \in kind THEN 1 ELSE 0)
<1> DEFINE new == Append(s, m)
           place == Len(s) + 1
<1>1. /\ DOMAIN new = 1..place /\ DOMAIN s = 1..Len(s) /\ Len(s) \in Nat
      /\ new[place] = m /\ \A k \in 1..Len(s) : new[k] = s[k]
  BY AppendProperties, LenProperties
<1> HIDE DEF new
<1>2. IsFiniteSet(Hits(s, kind)) /\ Heard(s, kind) \in Nat
  BY HitsFinite
<1>0. place \notin Hits(s, kind)
  BY <1>1 DEF Hits
<1>3. CASE m \in kind
  <2>1. Hits(new, kind) = Hits(s, kind) \cup {place}
    BY <1>1, <1>3 DEF Hits
  <2>2. Cardinality(Hits(s, kind) \cup {place}) = Cardinality(Hits(s, kind)) + 1
    BY <1>0, <1>2, FS_AddElement
  <2> QED
    BY <1>3, <2>1, <2>2 DEF Heard, new
<1>4. CASE m \notin kind
  <2>1. Hits(new, kind) = Hits(s, kind)
    BY <1>1, <1>4 DEF Hits
  <2> QED
    BY <1>2, <1>4, <2>1 DEF Heard, new
<1> QED
  BY <1>3, <1>4

LEMMA HeardLess ==
  ASSUME NEW s \in Seq(Message), NEW kind, NEW wider, kind \subseteq wider
  PROVE  Heard(s, kind) <= Heard(s, wider)
<1>1. Hits(s, kind) \subseteq Hits(s, wider) /\ IsFiniteSet(Hits(s, wider))
  BY HitsFinite DEF Hits
<1> QED
  BY <1>1, FS_Subset DEF Heard

(* A ticket that is filed has announced itself and every public answer, and *)
(* keeps its limit in every window.  A reply that is about to insert holds   *)
(* its ticket alone, found it open, and found room in every window its      *)
(* message may fall in.                                                     *)
TicketRow == [status : TicketStatus \cup {"unfiled"}, priority : TicketPriority,
              thread : Seq(Message), notices : Nat]
ReplyRow == [kind : {"waits", "inserts"}, ticket : Ticket, began : Nat]
EditRow == [kind : {"update"}, ticket : Ticket, status : TicketStatus, priority : TicketPriority]
             \cup [kind : {"note", "admin"}, ticket : Ticket]

RowInv(row) ==
  /\ row.status = "unfiled" => row.thread = <<>>
  /\ row.status # "unfiled" =>
       /\ row.notices = 1 + Heard(row.thread, By("admin"))
       /\ \A start \in Nat : Heard(row.thread, Window(start)) <= ReplyLimit

Room(row, r) ==
  /\ row.status # "closed"
  /\ Heard(row.thread, RecentTo(r.began)) < ReplyLimit

SupportType ==
  /\ ticket \in [Ticket -> TicketRow]
  /\ replying \in [Visitor -> {NotWriting} \cup ReplyRow]
  /\ editing \in [Operator -> {NotWriting} \cup EditRow]
  /\ instant \in Nat
SupportInv ==
  /\ SupportType
  /\ \A t \in Ticket : RowInv(ticket[t])
  /\ \A v \in Visitor : replying[v] # NotWriting =>
       ticket[replying[v].ticket].status # "unfiled"
  /\ \A v \in Visitor : replying[v].kind = "inserts" => Room(ticket[replying[v].ticket], replying[v])
  /\ \A v, u \in Visitor :
       replying[v].kind = "inserts" /\ replying[u].kind = "inserts"
         /\ replying[v].ticket = replying[u].ticket => v = u
  /\ \A o \in Operator : editing[o] # NotWriting =>
       ticket[editing[o].ticket].status # "unfiled"

LEMMA SupportStarts == InitSupport => SupportInv
<1> SUFFICES ASSUME InitSupport PROVE SupportInv
  OBVIOUS
<1>1. NoTicket \in TicketRow /\ RowInv(NoTicket)
  BY DEF NoTicket, TicketRow, TicketPriority, RowInv
<1>2. NotWriting.kind = "none"
  BY DEF NotWriting
<1> QED
  BY <1>1, <1>2 DEF InitSupport, SupportInv, SupportType

(* A ticket's row is written by whoever may, and a transaction ends. *)
LEMMA TicketWritten ==
  ASSUME SupportInv, NEW t \in Ticket, NEW row \in TicketRow,
         RowInv(row), row.status # "unfiled",
         ticket' = [ticket EXCEPT ![t] = row],
         replying' \in [Visitor -> {NotWriting} \cup ReplyRow],
         \A v \in Visitor : replying'[v] = NotWriting \/ replying'[v] = replying[v],
         \A v \in Visitor : replying'[v].kind = "inserts" => replying'[v].ticket # t,
         editing' \in [Operator -> {NotWriting} \cup EditRow],
         \A o \in Operator : editing'[o] = NotWriting \/ editing'[o] = editing[o],
         instant' = instant
  PROVE  SupportInv'
<1>1. /\ ticket' \in [Ticket -> TicketRow] /\ ticket'[t] = row
      /\ \A u \in Ticket : u # t => ticket'[u] = ticket[u]
  BY DEF SupportInv, SupportType
<1>2. SupportType'
  BY <1>1 DEF SupportInv, SupportType
<1>3. NotWriting.kind = "none"
  BY DEF NotWriting
<1>4. \A u \in Ticket : RowInv(ticket'[u])
  BY <1>1 DEF SupportInv
<1>5. \A v \in Visitor : replying'[v] # NotWriting => ticket'[replying'[v].ticket].status # "unfiled"
  <2> SUFFICES ASSUME NEW v \in Visitor, replying'[v] # NotWriting
               PROVE  ticket'[replying'[v].ticket].status # "unfiled"
    OBVIOUS
  <2>1. replying'[v] = replying[v] /\ replying'[v].ticket \in Ticket
    BY DEF ReplyRow
  <2> QED
    BY <1>1, <2>1 DEF SupportInv
<1>6. \A v \in Visitor : replying'[v].kind = "inserts" => Room(ticket'[replying'[v].ticket], replying'[v])
  <2> SUFFICES ASSUME NEW v \in Visitor, replying'[v].kind = "inserts"
               PROVE  Room(ticket'[replying'[v].ticket], replying'[v])
    OBVIOUS
  <2>1. replying'[v] = replying[v] /\ replying'[v].ticket \in Ticket /\ replying'[v].ticket # t
    BY <1>3 DEF ReplyRow
  <2> QED
    BY <1>1, <2>1 DEF SupportInv
<1>7. \A v, u \in Visitor :
        replying'[v].kind = "inserts" /\ replying'[u].kind = "inserts"
          /\ replying'[v].ticket = replying'[u].ticket => v = u
  BY <1>3 DEF SupportInv
<1>8. \A o \in Operator : editing'[o] # NotWriting => ticket'[editing'[o].ticket].status # "unfiled"
  <2> SUFFICES ASSUME NEW o \in Operator, editing'[o] # NotWriting
               PROVE  ticket'[editing'[o].ticket].status # "unfiled"
    OBVIOUS
  <2>1. editing'[o] = editing[o] /\ editing'[o].ticket \in Ticket
    BY DEF EditRow
  <2> QED
    BY <1>1, <2>1 DEF SupportInv
<1> QED
  BY <1>2, <1>4, <1>5, <1>6, <1>7, <1>8 DEF SupportInv

(* The four ways a row is written. *)
Opened(priority, at) ==
  QueueNotification([NoTicket EXCEPT !.status = "open", !.priority = priority,
                                     !.thread = <<Said("customer", at)>>])
LEMMA CreatedRow ==
  ASSUME NEW at \in Nat, NEW priority \in TicketPriority
  PROVE  Opened(priority, at) \in TicketRow /\ RowInv(Opened(priority, at))
           /\ Opened(priority, at).status # "unfiled"
<1> DEFINE row == Opened(priority, at)
           m == Said("customer", at)
           thread == <<m>>
<1>1. m \in Message /\ m.by = "customer"
  BY DEF Said, Message
<1>2. row = [status |-> "open", priority |-> priority, thread |-> thread, notices |-> 1]
  <2> DEFINE base == [NoTicket EXCEPT !.status = "open", !.priority = priority, !.thread = thread]
             one == [NoTicket EXCEPT !.status = "open"]
             two == [one EXCEPT !.priority = priority]
  <2>3. one = [status |-> "open", priority |-> "normal", thread |-> << >>, notices |-> 0]
    BY DEF NoTicket
  <2>4. base = [two EXCEPT !.thread = thread]
    OBVIOUS
  <2>2. row = QueueNotification(base)
    BY DEF Opened
  <2> HIDE DEF one
  <2>5. two = [status |-> "open", priority |-> priority, thread |-> << >>, notices |-> 0]
    BY <2>3
  <2> HIDE DEF two
  <2>1. base = [status |-> "open", priority |-> priority, thread |-> thread, notices |-> 0]
    BY <2>4, <2>5
  <2> HIDE DEF base, row, thread
  <2> QED
    BY <2>1, <2>2 DEF QueueNotification
<1> HIDE DEF row, m
<1>3. << >> \in Seq(Message) /\ thread = Append(<< >>, m) /\ thread \in Seq(Message)
  BY <1>1
<1> HIDE DEF thread
<1>4. \A kind : Heard(<< >>, kind) = 0
  BY FS_EmptySet DEF Heard, Hits
<1>10. ASSUME NEW kind PROVE Heard(thread, kind) = IF m \in kind THEN 1 ELSE 0
  <2>1. Heard(thread, kind) = Heard(<< >>, kind) + (IF m \in kind THEN 1 ELSE 0)
    BY <1>1, <1>3, HeardMore
  <2>2. Heard(<< >>, kind) = 0
    BY <1>4
  <2> QED
    BY <2>1, <2>2
<1>5. Heard(thread, By("admin")) = 0
  <2>1. m \notin By("admin")
    BY <1>1 DEF By
  <2> QED
    BY <1>10, <2>1
<1>6. \A start \in Nat : Heard(thread, Window(start)) <= 1
  <2> TAKE start \in Nat
  <2>1. Heard(thread, Window(start)) = IF m \in Window(start) THEN 1 ELSE 0
    BY <1>10
  <2> QED
    BY <2>1
<1>7. 1 <= ReplyLimit /\ ReplyLimit \in Nat
  BY SupportAssumption
<1>8. \A start \in Nat : Heard(thread, Window(start)) \in Nat
  BY <1>3, HitsFinite
<1>9. \A start \in Nat : Heard(thread, Window(start)) <= ReplyLimit
  BY <1>6, <1>7, <1>8
<1> QED
  BY <1>2, <1>3, <1>5, <1>9 DEF TicketRow, TicketStatus, RowInv, row

LEMMA RepliedRow ==
  ASSUME NEW row \in TicketRow, RowInv(row), row.status # "unfiled", NEW began \in Nat,
         Heard(row.thread, RecentTo(began)) < ReplyLimit
  PROVE  Replied(row, began) \in TicketRow /\ RowInv(Replied(row, began))
           /\ Replied(row, began).status # "unfiled"
<1> DEFINE m == Said("customer", began)
           thread == Append(row.thread, m)
           status == IF row.status = "waiting_customer" THEN "in_progress" ELSE row.status
           one == [row EXCEPT !.thread = thread]
           new == [one EXCEPT !.status = status]
<1>1. m \in Message /\ m.by = "customer" /\ m.at = began
  BY DEF Said, Message
<1>2. row.thread \in Seq(Message)
  BY DEF TicketRow
<1>3. Replied(row, began) = new
  BY DEF Replied
<1> HIDE DEF m
<1>4. thread \in Seq(Message)
  BY <1>1, <1>2, AppendProperties
<1>5. Heard(thread, By("admin")) = Heard(row.thread, By("admin"))
  <2>1. m \notin By("admin")
    BY <1>1 DEF By
  <2> QED
    BY <1>1, <1>2, <2>1, HeardMore, HitsFinite
<1>6. ASSUME NEW start \in Nat PROVE Heard(thread, Window(start)) <= ReplyLimit
  <2>1. Heard(row.thread, Window(start)) <= ReplyLimit
    BY DEF RowInv
  <2>2. /\ Heard(row.thread, Window(start)) \in Nat /\ Heard(row.thread, RecentTo(began)) \in Nat
        /\ ReplyLimit \in Nat /\ ReplyWindow \in Nat
    BY <1>2, HitsFinite, SupportAssumption
  <2>3. CASE m \in Window(start)
    <3>1. Window(start) \subseteq RecentTo(began)
      BY <1>1, <2>2, <2>3 DEF Window, RecentTo, Recent, Message
    <3>2. Heard(row.thread, Window(start)) <= Heard(row.thread, RecentTo(began))
      BY <1>2, <3>1, HeardLess
    <3>3. Heard(thread, Window(start)) = Heard(row.thread, Window(start)) + 1
      BY <1>1, <1>2, <2>3, HeardMore
    <3> HIDE DEF thread
    <3> QED
      BY <2>2, <3>2, <3>3
  <2>4. CASE m \notin Window(start)
    <3>1. Heard(thread, Window(start)) = Heard(row.thread, Window(start))
      BY <1>1, <1>2, <2>2, <2>4, HeardMore
    <3> QED
      BY <2>1, <3>1
  <2> QED
    BY <2>3, <2>4
<1> HIDE DEF thread
<1>7. one \in TicketRow /\ one.thread = thread /\ one.notices = row.notices
  BY <1>4 DEF TicketRow
<1>8. status \in TicketStatus /\ status # "unfiled"
  BY DEF TicketRow, TicketStatus
<1> HIDE DEF one, status
<1>9. /\ new \in TicketRow /\ new.status = status /\ new.thread = thread
      /\ new.notices = row.notices
  BY <1>7, <1>8 DEF TicketRow
<1> HIDE DEF new
<1> QED
  BY <1>3, <1>5, <1>6, <1>8, <1>9 DEF RowInv

LEMMA UpdatedRow ==
  ASSUME NEW row \in TicketRow, RowInv(row), row.status # "unfiled", NEW e \in EditRow,
         e.kind = "update"
  PROVE  Updated(row, e) \in TicketRow /\ RowInv(Updated(row, e))
           /\ Updated(row, e).status # "unfiled" /\ Updated(row, e).thread = row.thread
<1> DEFINE one == [row EXCEPT !.status = e.status]
           new == [one EXCEPT !.priority = e.priority]
<1>1. e.status \in TicketStatus /\ e.priority \in TicketPriority /\ e.status # "unfiled"
  BY DEF EditRow, TicketStatus
<1>2. one \in TicketRow /\ one.status = e.status /\ one.thread = row.thread
        /\ one.notices = row.notices
  BY <1>1 DEF TicketRow
<1>3. Updated(row, e) = new
  BY DEF Updated
<1> HIDE DEF one
<1>4. new \in TicketRow /\ new.status = e.status /\ new.thread = row.thread
        /\ new.notices = row.notices
  BY <1>1, <1>2 DEF TicketRow
<1> HIDE DEF new
<1> QED
  BY <1>1, <1>3, <1>4 DEF RowInv

LEMMA AnsweredRow ==
  ASSUME NEW row \in TicketRow, RowInv(row), row.status # "unfiled", NEW kind \in {"note", "admin"}
  PROVE  Answered(row, kind) \in TicketRow /\ RowInv(Answered(row, kind))
           /\ Answered(row, kind).status # "unfiled"
           /\ Answered(row, kind).thread = Append(row.thread, Said(kind, 0))
<1> DEFINE m == Said(kind, 0)
           thread == Append(row.thread, m)
           status == IF kind = "admin" /\ row.status = "open" THEN "in_progress" ELSE row.status
           notices == IF kind = "admin" THEN row.notices + 1 ELSE row.notices
           one == [row EXCEPT !.thread = thread]
           two == [one EXCEPT !.status = status]
           new == [two EXCEPT !.notices = notices]
<1>1. m \in Message /\ m.by = kind
  BY DEF Said, Message
<1>2. row.thread \in Seq(Message) /\ row.notices \in Nat
  BY DEF TicketRow
<1>3. Answered(row, kind) = new
  BY DEF Answered, QueueNotification, TicketRow
<1> HIDE DEF m
<1>4. thread \in Seq(Message)
  BY <1>1, <1>2, AppendProperties
<1>5. Heard(thread, By("admin")) = Heard(row.thread, By("admin")) + (IF kind = "admin" THEN 1 ELSE 0)
  <2>1. m \in By("admin") <=> kind = "admin"
    BY <1>1 DEF By
  <2> QED
    BY <1>1, <1>2, <2>1, HeardMore
<1>6. ASSUME NEW start \in Nat PROVE Heard(thread, Window(start)) <= ReplyLimit
  <2>1. m \notin Window(start)
    BY <1>1 DEF Window
  <2>2. Heard(thread, Window(start)) = Heard(row.thread, Window(start))
    BY <1>1, <1>2, <2>1, HeardMore, HitsFinite
  <2> QED
    BY <2>2 DEF RowInv
<1>7. Heard(row.thread, By("admin")) \in Nat
  BY <1>2, HitsFinite
<1> HIDE DEF thread
<1>8. one \in TicketRow /\ one.thread = thread
  BY <1>4 DEF TicketRow
<1>9. status \in TicketStatus /\ status # "unfiled"
  BY DEF TicketRow, TicketStatus
<1> HIDE DEF one, status
<1>10. two \in TicketRow /\ two.thread = thread /\ two.status = status
  BY <1>8, <1>9 DEF TicketRow
<1> HIDE DEF two
<1>11. notices = 1 + Heard(thread, By("admin")) /\ notices \in Nat
  BY <1>2, <1>5, <1>7 DEF RowInv
<1> HIDE DEF notices
<1>12. new \in TicketRow /\ new.thread = thread /\ new.status = status /\ new.notices = notices
  BY <1>10, <1>11 DEF TicketRow
<1> HIDE DEF new
<1> QED
  BY <1>3, <1>6, <1>9, <1>11, <1>12 DEF RowInv, thread, m

(* A reply takes a step of its own, and a request of an operator. *)
LEMMA ReplyMoves ==
  ASSUME SupportInv, NEW v \in Visitor, NEW r \in {NotWriting} \cup ReplyRow,
         replying' = [replying EXCEPT ![v] = r], UNCHANGED <<ticket, editing, instant>>,
         r # NotWriting => ticket[r.ticket].status # "unfiled",
         r.kind = "inserts" => Room(ticket[r.ticket], r),
         r.kind = "inserts" =>
           \A u \in Visitor : replying[u].kind = "inserts" => replying[u].ticket # r.ticket
  PROVE  SupportInv'
<1>1. /\ replying' \in [Visitor -> {NotWriting} \cup ReplyRow] /\ replying'[v] = r
      /\ \A u \in Visitor : u # v => replying'[u] = replying[u]
  BY DEF SupportInv, SupportType
<1>2. SupportType' /\ \A t \in Ticket : RowInv(ticket'[t])
  BY <1>1 DEF SupportInv, SupportType
<1>3. \A u \in Visitor : replying'[u] # NotWriting => ticket'[replying'[u].ticket].status # "unfiled"
  BY <1>1 DEF SupportInv
<1>4. \A u \in Visitor : replying'[u].kind = "inserts" =>
        Room(ticket'[replying'[u].ticket], replying'[u])
  BY <1>1 DEF SupportInv
<1>5. \A w, u \in Visitor :
        replying'[w].kind = "inserts" /\ replying'[u].kind = "inserts"
          /\ replying'[w].ticket = replying'[u].ticket => w = u
  BY <1>1 DEF SupportInv
<1>6. \A o \in Operator : editing'[o] # NotWriting => ticket'[editing'[o].ticket].status # "unfiled"
  BY DEF SupportInv
<1> QED
  BY <1>2, <1>3, <1>4, <1>5, <1>6 DEF SupportInv

LEMMA EditMoves ==
  ASSUME SupportInv, NEW o \in Operator, NEW e \in {NotWriting} \cup EditRow,
         editing' = [editing EXCEPT ![o] = e], UNCHANGED <<ticket, replying, instant>>,
         e # NotWriting => ticket[e.ticket].status # "unfiled"
  PROVE  SupportInv'
<1>1. /\ editing' \in [Operator -> {NotWriting} \cup EditRow] /\ editing'[o] = e
      /\ \A u \in Operator : u # o => editing'[u] = editing[u]
  BY DEF SupportInv, SupportType
<1>2. SupportType'
  BY <1>1 DEF SupportInv, SupportType
<1>3. \A u \in Operator : editing'[u] # NotWriting => ticket'[editing'[u].ticket].status # "unfiled"
  BY <1>1 DEF SupportInv
<1> QED
  BY <1>2, <1>3 DEF SupportInv, Room

LEMMA RecentHeard ==
  ASSUME SupportInv, NEW t \in Ticket, NEW began
  PROVE  RecentReplies(t, began) = Heard(ticket[t].thread, RecentTo(began))
<1>1. ticket[t].thread \in Seq(Message)
  BY DEF SupportInv, SupportType, TicketRow
<1>2. \A k \in DOMAIN ticket[t].thread : ticket[t].thread[k] \in Message
  BY <1>1, LenProperties, ElementOfSeq
<1> QED
  BY <1>2 DEF RecentReplies, Heard, Hits, RecentTo

LEMMA ReplySteps ==
  ASSUME SupportInv, NEW v \in Visitor,
         (\E t \in Ticket : ReplyBegin(v, t)) \/ ReplyCount(v) \/ ReplyFails(v)
  PROVE  SupportInv'
<1> DEFINE r == replying[v]
<1>1. NotWriting.kind = "none"
  BY DEF NotWriting
<1>2. CASE replying' = [replying EXCEPT ![v] = NotWriting] /\ UNCHANGED <<ticket, editing, instant>>
  BY <1>1, <1>2, ReplyMoves
<1>3. ASSUME NEW t \in Ticket, ReplyBegin(v, t) PROVE SupportInv'
  <2> DEFINE began == [kind |-> "waits", ticket |-> t, began |-> instant]
  <2>1. began \in ReplyRow /\ began.kind = "waits" /\ began.ticket = t
    BY DEF ReplyRow, SupportInv, SupportType
  <2>2. replying' = [replying EXCEPT ![v] = began] /\ UNCHANGED <<ticket, editing, instant>>
          /\ ticket[t].status # "unfiled"
    BY <1>3 DEF ReplyBegin, Filed
  <2> HIDE DEF began
  <2> QED
    BY <2>1, <2>2, ReplyMoves
<1>4. CASE ReplyCount(v)
  <2>1. CASE Accepts(r.ticket) /\ RecentReplies(r.ticket, r.began) < ReplyLimit
    <3> DEFINE next == [r EXCEPT !.kind = "inserts"]
    <3>1. r \in ReplyRow /\ r.kind = "waits" /\ r.ticket \in Ticket
      BY <1>1, <1>4 DEF ReplyCount, SupportInv, SupportType, ReplyRow
    <3>2. next \in ReplyRow /\ next.kind = "inserts" /\ next.ticket = r.ticket /\ next.began = r.began
      BY <3>1 DEF ReplyRow
    <3>3. replying' = [replying EXCEPT ![v] = next] /\ UNCHANGED <<ticket, editing, instant>>
      BY <1>4, <2>1 DEF ReplyCount
    <3>4. Room(ticket[r.ticket], next)
      BY <2>1, <3>1, <3>2, RecentHeard DEF Room, Accepts
    <3>5. \A u \in Visitor : replying[u].kind = "inserts" => replying[u].ticket # r.ticket
      BY <1>4 DEF ReplyCount, Locked
    <3>6. ticket[r.ticket].status # "unfiled"
      BY <1>1, <3>1 DEF SupportInv
    <3> HIDE DEF next
    <3> QED
      BY <3>2, <3>3, <3>4, <3>5, <3>6, ReplyMoves
  <2>2. CASE ~(Accepts(r.ticket) /\ RecentReplies(r.ticket, r.began) < ReplyLimit)
    BY <1>2, <1>4, <2>2 DEF ReplyCount
  <2> QED
    BY <2>1, <2>2
<1> QED
  BY <1>2, <1>3, <1>4 DEF ReplyFails

LEMMA EditSteps ==
  ASSUME SupportInv, NEW o \in Operator,
         \/ \E t \in Ticket : UpdateRead(o, t) \/ \E kind \in {"note", "admin"} : AnswerRead(o, t, kind)
         \/ EditFails(o)
  PROVE  SupportInv'
<1>1. ASSUME NEW t \in Ticket, Filed(t), NEW e \in EditRow, e.ticket = t, Edit(o, e)
      PROVE  SupportInv'
  BY <1>1, EditMoves DEF Edit, Filed
<1>2. ASSUME NEW t \in Ticket, UpdateRead(o, t) PROVE SupportInv'
  <2>1. PICK s \in TicketStatus, p \in TicketPriority :
          Edit(o, [kind |-> "update", ticket |-> t, status |-> s, priority |-> p])
    <3>1. ticket[t].status \in TicketStatus /\ ticket[t].priority \in TicketPriority
      BY <1>2 DEF UpdateRead, Filed, SupportInv, SupportType, TicketRow
    <3> QED
      BY <1>2, <3>1 DEF UpdateRead
  <2>2. [kind |-> "update", ticket |-> t, status |-> s, priority |-> p] \in EditRow
    BY DEF EditRow
  <2>3. Filed(t)
    BY <1>2 DEF UpdateRead
  <2> QED
    BY <1>1, <2>1, <2>2, <2>3
<1>3. ASSUME NEW t \in Ticket, NEW kind \in {"note", "admin"}, AnswerRead(o, t, kind)
      PROVE  SupportInv'
  <2>1. [kind |-> kind, ticket |-> t] \in EditRow
    BY DEF EditRow
  <2> QED
    BY <1>1, <1>3, <2>1 DEF AnswerRead
<1>4. CASE EditFails(o)
  BY <1>4, EditMoves DEF EditFails
<1> QED
  BY <1>2, <1>3, <1>4

LEMMA CreateStep ==
  ASSUME SupportInv, NEW t \in Ticket, CreateTicket(t)
  PROVE  SupportInv'
<1>1. PICK priority \in TicketPriority : ticket' = [ticket EXCEPT ![t] = Opened(priority, instant)]
  BY DEF CreateTicket, Opened
<1> DEFINE row == Opened(priority, instant)
<1>2. row \in TicketRow /\ RowInv(row) /\ row.status # "unfiled"
  BY CreatedRow DEF SupportInv, SupportType
<1>3. UNCHANGED <<replying, editing, instant>> /\ ~Filed(t)
  BY DEF CreateTicket
<1>4. \A v \in Visitor : replying[v].kind = "inserts" => replying[v].ticket # t
  BY <1>3 DEF SupportInv, Filed, NotWriting
<1> HIDE DEF row
<1> QED
  BY <1>1, <1>2, <1>3, <1>4, TicketWritten DEF SupportInv, SupportType, row

LEMMA ReplyInsertStep ==
  ASSUME SupportInv, NEW v \in Visitor, ReplyInsert(v)
  PROVE  SupportInv'
<1> DEFINE r == replying[v]
           row == Replied(ticket[r.ticket], r.began)
<1>1. r \in ReplyRow /\ r.kind = "inserts" /\ r.ticket \in Ticket /\ r.began \in Nat
  BY DEF ReplyInsert, SupportInv, SupportType, ReplyRow, NotWriting
<1>2. /\ ticket[r.ticket] \in TicketRow /\ RowInv(ticket[r.ticket])
      /\ ticket[r.ticket].status # "unfiled" /\ Room(ticket[r.ticket], r)
  BY <1>1 DEF SupportInv, SupportType, NotWriting
<1>3. row \in TicketRow /\ RowInv(row) /\ row.status # "unfiled"
  BY <1>1, <1>2, RepliedRow DEF Room
<1>4. /\ ticket' = [ticket EXCEPT ![r.ticket] = row] /\ replying' = [replying EXCEPT ![v] = NotWriting]
      /\ UNCHANGED <<editing, instant>>
  BY DEF ReplyInsert
<1>5. NotWriting.kind = "none"
  BY DEF NotWriting
<1>6. \A u \in Visitor : replying'[u].kind = "inserts" => replying'[u].ticket # r.ticket
  BY <1>1, <1>4, <1>5 DEF SupportInv, SupportType
<1>7. /\ replying' \in [Visitor -> {NotWriting} \cup ReplyRow]
      /\ \A u \in Visitor : replying'[u] = NotWriting \/ replying'[u] = replying[u]
  BY <1>4 DEF SupportInv, SupportType
<1> HIDE DEF row
<1> QED
  BY <1>1, <1>3, <1>4, <1>6, <1>7, TicketWritten DEF SupportInv, SupportType

LEMMA EditWriteStep ==
  ASSUME SupportInv, NEW o \in Operator, EditWrite(o)
  PROVE  SupportInv'
<1> DEFINE e == editing[o]
           t == e.ticket
           row == IF e.kind = "update" THEN Updated(ticket[t], e) ELSE Answered(ticket[t], e.kind)
<1>1. e \in EditRow /\ t \in Ticket /\ ~Locked(t)
  BY DEF EditWrite, SupportInv, SupportType, EditRow
<1>2. ticket[t] \in TicketRow /\ RowInv(ticket[t]) /\ ticket[t].status # "unfiled"
  BY <1>1 DEF EditWrite, SupportInv, SupportType
<1>3. row \in TicketRow /\ RowInv(row) /\ row.status # "unfiled"
  <2>1. e.kind \in {"update", "note", "admin"}
    BY <1>1 DEF EditRow
  <2> QED
    BY <1>1, <1>2, <2>1, UpdatedRow, AnsweredRow
<1>4. /\ ticket' = [ticket EXCEPT ![t] = row] /\ editing' = [editing EXCEPT ![o] = NotWriting]
      /\ UNCHANGED <<replying, instant>>
  BY DEF EditWrite
<1>5. \A u \in Visitor : replying'[u].kind = "inserts" => replying'[u].ticket # t
  BY <1>1, <1>4 DEF Locked
<1>6. /\ editing' \in [Operator -> {NotWriting} \cup EditRow]
      /\ \A u \in Operator : editing'[u] = NotWriting \/ editing'[u] = editing[u]
  BY <1>4 DEF SupportInv, SupportType
<1> HIDE DEF row
<1> QED
  BY <1>1, <1>3, <1>4, <1>5, <1>6, TicketWritten DEF SupportInv, SupportType

LEMMA SupportStep == SupportInv /\ [NextSupport]_supportVars => SupportInv'
<1> SUFFICES ASSUME SupportInv, [NextSupport]_supportVars PROVE SupportInv'
  OBVIOUS
<1>1. CASE UNCHANGED <<ticket, replying, editing>> /\ instant' \in Nat
  BY <1>1 DEF SupportInv, SupportType, Room
<1>2. CASE UNCHANGED supportVars \/ PassTime \/ Migrate
  BY <1>1, <1>2 DEF supportVars, PassTime, Migrate, SupportInv, SupportType
<1> QED
  BY <1>2, ReplySteps, EditSteps, CreateStep, ReplyInsertStep, EditWriteStep DEF NextSupport

(* A ticket announces itself and every public answer of an operator, and    *)
(* nothing else, under either schema (apps/admin/README.md:39,              *)
(* addAdminReply).                                                          *)
THEOREM NoticesFollowAnswers == SpecAdmin => []NoticesMatch
<1>1. InitAdmin => SupportInv
  BY SupportStarts DEF InitAdmin
<1>2. SupportInv /\ [NextAdmin]_adminVars => SupportInv'
  BY SupportStep DEF NextAdmin, adminVars
<1>3. SupportInv => NoticesMatch
  <2> SUFFICES ASSUME SupportInv, NEW t \in Ticket, Filed(t)
               PROVE  ticket[t].notices = 1 + Spoken(t, "admin")
    BY DEF NoticesMatch
  <2>1. ticket[t].thread \in Seq(Message) /\ ticket[t].notices = 1 + Heard(ticket[t].thread, By("admin"))
    BY DEF SupportInv, SupportType, TicketRow, RowInv, Filed
  <2>2. \A k \in DOMAIN ticket[t].thread : ticket[t].thread[k] \in Message
    BY <2>1, LenProperties, ElementOfSeq
  <2>3. Spoken(t, "admin") = Heard(ticket[t].thread, By("admin"))
    BY <2>2 DEF Spoken, Heard, Hits, By
  <2> QED
    BY <2>1, <2>3
<1> QED
  BY <1>1, <1>2, <1>3, PTL DEF SpecAdmin

(* However public replies overlap, a ticket gets no more of them than its   *)
(* limit in any window (addCustomerReply, docs/RELEASE_CHECKLIST.md:100).   *)
THEOREM RepliesAreLimited == SpecAdmin => []RepliesWithinLimit
<1>1. InitAdmin => SupportInv
  BY SupportStarts DEF InitAdmin
<1>2. SupportInv /\ [NextAdmin]_adminVars => SupportInv'
  BY SupportStep DEF NextAdmin, adminVars
<1>3. SupportInv => RepliesWithinLimit
  <2> SUFFICES ASSUME SupportInv, NEW t \in Ticket, NEW start \in 0..LastInstant
               PROVE  Cardinality({k \in DOMAIN ticket[t].thread :
                        /\ ticket[t].thread[k].by = "customer"
                        /\ ticket[t].thread[k].at \in start..(start + ReplyWindow - 1)}) <= ReplyLimit
    BY DEF RepliesWithinLimit
  <2>1. ticket[t].thread \in Seq(Message)
    BY DEF SupportInv, SupportType, TicketRow
  <2>2. \A k \in DOMAIN ticket[t].thread : ticket[t].thread[k] \in Message
    BY <2>1, LenProperties, ElementOfSeq
  <2>3. {k \in DOMAIN ticket[t].thread :
           /\ ticket[t].thread[k].by = "customer"
           /\ ticket[t].thread[k].at \in start..(start + ReplyWindow - 1)}
          = Hits(ticket[t].thread, Window(start))
    BY <2>2 DEF Hits, Window
  <2>4. Heard(ticket[t].thread, Window(start)) <= ReplyLimit
    <3>1. CASE ticket[t].status = "unfiled"
      <4>1. ticket[t].thread = << >>
        BY <3>1 DEF SupportInv, RowInv
      <4>2. Hits(ticket[t].thread, Window(start)) = {}
        BY <4>1 DEF Hits
      <4> QED
        BY <4>2, FS_EmptySet, SupportAssumption DEF Heard
    <3>2. CASE ticket[t].status # "unfiled"
      BY <3>2 DEF SupportInv, RowInv
    <3> QED
      BY <3>1, <3>2
  <2> QED
    BY <2>3, <2>4 DEF Heard
<1> QED
  BY <1>1, <1>2, <1>3, PTL DEF SpecAdmin

(* A ticket an operator has closed hears no more of its customer, however   *)
(* long a reply that began before has waited (addCustomerReply).            *)
THEOREM ClosedStaysQuiet == SpecAdmin => ClosedIsQuiet
<1> DEFINE Quiet == \A t \in Ticket : ticket[t].status = "closed" =>
                      Spoken(t, "customer")' = Spoken(t, "customer")
<1>1. InitAdmin => SupportInv
  BY SupportStarts DEF InitAdmin
<1>2. SupportInv /\ [NextAdmin]_adminVars => SupportInv'
  BY SupportStep DEF NextAdmin, adminVars
<1>3. SupportInv /\ [NextAdmin]_adminVars => [Quiet]_supportVars
  <2> SUFFICES ASSUME SupportInv, [NextAdmin]_adminVars, NEW t \in Ticket,
                      ticket[t].status = "closed"
               PROVE  Spoken(t, "customer")' = Spoken(t, "customer")
    OBVIOUS
  <2>1. CASE ticket'[t].thread = ticket[t].thread
    BY <2>1 DEF Spoken
  <2>2. ASSUME NEW v \in Visitor, ReplyInsert(v) PROVE ticket'[t] = ticket[t]
    <3>1. replying[v].kind = "inserts" /\ ticket' = [ticket EXCEPT ![replying[v].ticket]
                                                   = Replied(@, replying[v].began)]
      BY <2>2 DEF ReplyInsert
    <3>2. Room(ticket[replying[v].ticket], replying[v])
      BY <3>1 DEF SupportInv
    <3>3. replying[v].ticket # t
      BY <3>2 DEF Room
    <3> QED
      BY <3>1, <3>3 DEF SupportInv, SupportType
  <2>3. ASSUME NEW u \in Ticket, CreateTicket(u) PROVE ticket'[t] = ticket[t]
    <3>1. u # t
      BY <2>3 DEF CreateTicket, Filed
    <3> QED
      BY <2>3, <3>1 DEF CreateTicket, SupportInv, SupportType
  <2>4. ASSUME NEW o \in Operator, EditWrite(o)
        PROVE  Spoken(t, "customer")' = Spoken(t, "customer")
    <3> DEFINE e == editing[o]
    <3>1. e \in EditRow /\ e.ticket \in Ticket /\ ticket[e.ticket] \in TicketRow
            /\ RowInv(ticket[e.ticket]) /\ ticket[e.ticket].status # "unfiled"
      BY <2>4 DEF EditWrite, SupportInv, SupportType, EditRow
    <3>2. CASE e.ticket # t
      <4>1. ticket'[t] = ticket[t]
        BY <2>4, <3>2 DEF EditWrite, SupportInv, SupportType
      <4> QED
        BY <2>1, <4>1
    <3>3. CASE e.ticket = t /\ e.kind = "update"
      <4>1. ticket'[t] = Updated(ticket[t], e)
        BY <2>4, <3>3 DEF EditWrite, SupportInv, SupportType
      <4>2. ticket'[t].thread = ticket[t].thread
        BY <3>1, <3>3, <4>1, UpdatedRow
      <4> QED
        BY <2>1, <4>2
    <3>4. CASE e.ticket = t /\ e.kind \in {"note", "admin"}
      <4> DEFINE m == Said(e.kind, 0)
                 thread == ticket[t].thread
      <4>1. ticket'[t] = Answered(ticket[t], e.kind)
        BY <2>4, <3>4 DEF EditWrite, SupportInv, SupportType
      <4>2. ticket'[t].thread = Append(thread, m)
        BY <3>1, <3>4, <4>1, AnsweredRow
      <4>3. m \in Message /\ m \notin By("customer") /\ thread \in Seq(Message)
        BY <3>4 DEF Said, Message, By, SupportInv, SupportType, TicketRow
      <4> HIDE DEF m
      <4>4. Heard(Append(thread, m), By("customer")) = Heard(thread, By("customer"))
        BY <4>3, HeardMore, HitsFinite
      <4>5. Append(thread, m) \in Seq(Message)
        BY <4>3, AppendProperties
      <4>6. ASSUME NEW s \in Seq(Message)
            PROVE  Cardinality({k \in DOMAIN s : s[k].by = "customer"}) = Heard(s, By("customer"))
        <5>1. \A k \in DOMAIN s : s[k] \in Message
          BY LenProperties, ElementOfSeq
        <5> QED
          BY <5>1 DEF Heard, Hits, By
      <4>7. Spoken(t, "customer")' = Heard(Append(thread, m), By("customer"))
        BY <4>2, <4>5, <4>6 DEF Spoken
      <4>8. Spoken(t, "customer") = Heard(thread, By("customer"))
        BY <4>3, <4>6 DEF Spoken
      <4> QED
        BY <4>4, <4>7, <4>8
    <3> QED
      BY <2>4, <3>2, <3>3, <3>4 DEF EditWrite
  <2>5. CASE UNCHANGED ticket
    BY <2>1, <2>5
  <2>6. CASE NextSupport
    BY <2>1, <2>2, <2>3, <2>4, <2>5, <2>6 DEF NextSupport, PassTime, Migrate, ReplyBegin, UpdateRead, AnswerRead,
       Edit, ReplyCount, ReplyFails, EditFails
  <2> QED
    BY <2>5, <2>6 DEF NextAdmin, adminVars, supportVars
<1> QED
  BY <1>1, <1>2, <1>3, PTL DEF SpecAdmin, ClosedIsQuiet

-----------------------------------------------------------------------------
(* The status monitor.  The counters of a component are the length of the   *)
(* run of equal checks at the end of its last three.                        *)
LEMMA MaxIsIn ==
  ASSUME NEW S \in SUBSET Int, IsFiniteSet(S), S # {}
  PROVE  Max(S) \in S
<1> DEFINE Above(x) == {y \in S : y > x}
           B == {Above(x) : x \in S}
<1>1. B \in SUBSET SUBSET S /\ B # {}
  OBVIOUS
<1> HIDE DEF B
<1>2. PICK T \in B : \A U \in SUBSET T : U # T => U \notin B
  BY <1>1, LeastSet
<1>3. PICK x \in S : T = Above(x)
  BY <1>2 DEF B
<1>4. ASSUME NEW y \in S, y > x PROVE FALSE
  <2>1. Above(y) \in B /\ y \in T /\ y \notin Above(y)
    BY <1>3, <1>4 DEF B
  <2>2. Above(y) \subseteq T
    <3>1. x \in Int /\ y \in Int
      OBVIOUS
    <3>2. ASSUME NEW z \in S, z > y PROVE z > x
      <4>1. z \in Int
        OBVIOUS
      <4> QED
        BY <1>4, <3>1, <3>2, <4>1
    <3> QED
      BY <1>3, <3>2
  <2> HIDE DEF Above
  <2> QED
    BY <1>2, <2>1, <2>2
<1>5. \A y \in S : x >= y
  BY <1>4
<1> QED
  BY <1>5 DEF Max

LatestChecks(s, b) ==
  IF Len(Append(s, b)) > 3 THEN Tail(Append(s, b)) ELSE Append(s, b)
RunLength(s, b) ==
  LET n == Len(s) IN
  IF n = 0 \/ s[n] # b THEN 0
  ELSE IF n = 1 \/ s[n - 1] # b THEN 1
  ELSE IF n = 2 \/ s[n - 2] # b THEN 2 ELSE 3

LEMMA TrailingRun ==
  ASSUME NEW s \in Seq(BOOLEAN), Len(s) <= 3, NEW b \in BOOLEAN
  PROVE  Trailing(s, b) = RunLength(s, b)
<1> DEFINE n == Len(s)
           r == RunLength(s, b)
           T == {k \in DOMAIN s : \A j \in k..Len(s) : s[j] = b}
<1>1. n \in 0..3 /\ DOMAIN s = 1..n
  <2>1. Len(s) \in Nat /\ DOMAIN s = 1..Len(s)
    BY LenProperties
  <2> QED
    BY <2>1
<1>2. r \in 0..n
  BY <1>1 DEF RunLength
<1>3. T = (n - r + 1)..n
  <2>1. CASE n = 0
    BY <1>1, <2>1 DEF RunLength
  <2>2. CASE n = 1
    BY <1>1, <2>2 DEF RunLength
  <2>3. CASE n = 2
    BY <1>1, <2>3 DEF RunLength
  <2>4. CASE n = 3
    BY <1>1, <2>4 DEF RunLength
  <2> QED
    BY <1>1, <2>1, <2>2, <2>3, <2>4
<1>4. Cardinality((n - r + 1)..n) = r
  <2>1. n - r + 1 \in Int /\ n \in Int
    BY <1>1, <1>2
  <2> HIDE DEF n, r
  <2>2. Cardinality((n - r + 1)..n) = IF n - r + 1 > n THEN 0 ELSE n - (n - r + 1) + 1
    BY <2>1, FS_Interval
  <2> QED
    BY <1>1, <1>2, <2>2
<1> QED
  BY <1>3, <1>4 DEF Trailing

LEMMA RunGrows ==
  ASSUME NEW s \in Seq(BOOLEAN), Len(s) <= 3, NEW b \in BOOLEAN
  PROVE  /\ LatestChecks(s, b) \in Seq(BOOLEAN) /\ Len(LatestChecks(s, b)) <= 3
         /\ RunLength(LatestChecks(s, b), b) = Up1(RunLength(s, b))
         /\ \A d \in BOOLEAN : d # b => RunLength(LatestChecks(s, b), d) = 0
<1>0. Len(s) \in Nat
  BY LenProperties
<1> DEFINE long == Append(s, b)
           new == LatestChecks(s, b)
           n == Len(s)
<1>1. n \in 0..3
  <2>1. n \in Nat /\ n <= 3
    BY <1>0
  <2> HIDE DEF n
  <2> QED
    BY <2>1
<1>2. /\ long \in Seq(BOOLEAN) /\ Len(long) = n + 1 /\ long[n + 1] = b
      /\ \A i \in 1..n : long[i] = s[i]
  BY AppendProperties
<1> HIDE DEF long, n
<1>3. CASE n < 3
  <2>1. new = long
    BY <1>1, <1>2, <1>3 DEF LatestChecks, long
  <2> HIDE DEF new
  <2> QED
    BY <1>1, <1>2, <1>3, <2>1 DEF RunLength, Up1, new, n
<1>4. CASE n = 3
  <2>1. new = Tail(long) /\ long # << >>
    BY <1>1, <1>2, <1>4 DEF LatestChecks, long
  <2> HIDE DEF new
  <2>2. /\ new \in Seq(BOOLEAN) /\ Len(new) = 3 /\ new[3] = b /\ new[2] = s[3] /\ new[1] = s[2]
    <3>1. /\ Tail(long) \in Seq(BOOLEAN) /\ Len(Tail(long)) = Len(long) - 1
          /\ \A i \in 1..Len(Tail(long)) : Tail(long)[i] = long[i + 1]
      BY <1>2, <2>1, HeadTailProperties
    <3>2. Len(new) = 3
      BY <1>2, <1>4, <2>1, <3>1
    <3>3. Tail(long)[1] = long[1 + 1] /\ Tail(long)[2] = long[2 + 1] /\ Tail(long)[3] = long[3 + 1]
      <4> DEFINE rest == Tail(long)
                 m == Len(rest)
      <4>1. m = 3 /\ \A i \in 1..m : rest[i] = long[i + 1]
        BY <2>1, <3>1, <3>2
      <4> HIDE DEF m, rest
      <4>2. rest[1] = long[1 + 1] /\ rest[2] = long[2 + 1] /\ rest[3] = long[3 + 1]
        BY <4>1
      <4> USE DEF rest
      <4> QED
        BY <4>2
    <3>4. long[2] = s[2] /\ long[3] = s[3] /\ long[4] = b
      BY <1>2, <1>4
    <3>6. 1 + 1 = 2 /\ 2 + 1 = 3 /\ 3 + 1 = 4
      OBVIOUS
    <3>5. new[3] = b /\ new[2] = s[3] /\ new[1] = s[2]
      BY <2>1, <3>3, <3>4, <3>6, Zenon
    <3> QED
      BY <2>1, <3>1, <3>2, <3>5
  <2> QED
    BY <1>4, <2>2 DEF RunLength, Up1, new, n
<1> QED
  BY <1>1, <1>3, <1>4

(* The monitor's account of a component is what its last checks say, one    *)
(* run at a time keeps it, on rows that nobody else writes, and a run that  *)
(* found no incident of a component finds none of the monitor's when it     *)
(* writes: only administrators wrote some since.                            *)
Health == {"unknown", "operational", "degraded_performance", "partial_outage"}
ComponentRow == [status : Health, failures : 0..3, successes : 0..3, checks : Seq(BOOLEAN)]
IncidentRow == [source : {"none", "monitor", "manual"}, open : BOOLEAN, impact : Impact,
                published : BOOLEAN, component : Component \cup {"none"}, touched : BOOLEAN]
PersistRow == [pc : {"persist"}, todo : SUBSET Component, rows : [Component -> ComponentRow],
               success : [Component -> BOOLEAN]]
WriteRow == [pc : {"write"}, todo : SUBSET Component, rows : [Component -> ComponentRow],
             success : [Component -> BOOLEAN], at : Component, active : Incident \cup {NoIncident}]

Account(row) ==
  /\ Len(row.checks) <= 3
  /\ row.failures = RunLength(row.checks, FALSE)
  /\ row.successes = RunLength(row.checks, TRUE)
Untouched(row, c) ==
  row.source = "monitor" /\ row.open = TRUE /\ row.component = c /\ row.touched = FALSE

Follows(m, comp, inc) ==
  /\ \A c \in m.todo : m.rows[c] = comp[c]
  /\ m.pc = "write" =>
       /\ m.at \in m.todo
       /\ m.active = NoIncident => \A i \in Incident : ~Untouched(inc[i], m.at)

StatusType ==
  /\ health.up \in [Component -> BOOLEAN]
  /\ component \in [Component -> ComponentRow] /\ incident \in [Incident -> IncidentRow]
  /\ monitor \in [Run -> {NotRunning} \cup PersistRow \cup WriteRow]
StatusInv ==
  /\ StatusType
  /\ \A c \in Component : Account(component[c])
  /\ \A r, q \in Run : monitor[r].pc # "idle" /\ monitor[q].pc # "idle" => r = q
  /\ \A r \in Run : Follows(monitor[r], component, incident)
  /\ \A c \in Component : \A i, j \in Incident :
       Untouched(incident[i], c) /\ Untouched(incident[j], c) => i = j

LEMMA StatusStarts == InitStatus => StatusInv
<1> SUFFICES ASSUME InitStatus PROVE StatusInv
  OBVIOUS
<1> DEFINE row == [status |-> "unknown", failures |-> 0, successes |-> 0, checks |-> << >>]
<1>1. row \in ComponentRow /\ Account(row)
  <2>1. << >> \in Seq(BOOLEAN) /\ Len(<< >>) = 0
    OBVIOUS
  <2> QED
    BY <2>1 DEF ComponentRow, Health, Account, RunLength
<1>2. Unopened \in IncidentRow /\ \A c : ~Untouched(Unopened, c)
  BY DEF Unopened, IncidentRow, Impact, Untouched
<1>3. health.up \in [Component -> BOOLEAN]
  BY DEF InitStatus
<1>4. component = [c \in Component |-> row]
  BY DEF InitStatus
<1>5. incident = [i \in Incident |-> Unopened] /\ monitor = [r \in Run |-> NotRunning]
  BY DEF InitStatus
<1>6. NotRunning.pc = "idle" /\ NotRunning.todo = {}
  BY DEF NotRunning
<1> HIDE DEF row
<1>7. StatusType
  BY <1>1, <1>2, <1>3, <1>4, <1>5 DEF StatusType
<1> QED
  BY <1>1, <1>2, <1>4, <1>5, <1>6, <1>7 DEF StatusInv, Follows

(* Only a run's own place changes. *)
LEMMA RunMoves ==
  ASSUME StatusInv, NEW r \in Run, NEW m \in {NotRunning} \cup PersistRow \cup WriteRow,
         monitor' = [monitor EXCEPT ![r] = m],
         UNCHANGED <<component, incident>>, health' = health,
         Follows(m, component, incident),
         m.pc # "idle" => \A q \in Run : q # r => monitor[q].pc = "idle"
  PROVE  StatusInv'
<1>1. /\ monitor' \in [Run -> {NotRunning} \cup PersistRow \cup WriteRow] /\ monitor'[r] = m
      /\ \A q \in Run : q # r => monitor'[q] = monitor[q]
  BY DEF StatusInv, StatusType
<1>2. StatusType'
  BY <1>1 DEF StatusInv, StatusType
<1>3. \A p, q \in Run : monitor'[p].pc # "idle" /\ monitor'[q].pc # "idle" => p = q
  BY <1>1 DEF StatusInv
<1>4. \A q \in Run : Follows(monitor'[q], component, incident)
  BY <1>1 DEF StatusInv
<1> QED
  BY <1>2, <1>3, <1>4 DEF StatusInv

(* What an administrator writes is touched, and the health of a component   *)
(* is nobody's row.                                                         *)
LEMMA OthersWrite ==
  ASSUME StatusInv, UNCHANGED <<component, monitor>>, health'.up \in [Component -> BOOLEAN],
         incident' \in [Incident -> IncidentRow],
         \A i \in Incident, c \in Component : Untouched(incident'[i], c) => Untouched(incident[i], c)
  PROVE  StatusInv'
<1>1. StatusType'
  BY DEF StatusInv, StatusType
<1>2. ASSUME NEW r \in Run PROVE Follows(monitor[r], component, incident')
  <2>1. Follows(monitor[r], component, incident)
    BY DEF StatusInv
  <2>2. monitor[r].pc = "write" => monitor[r].at \in Component
    BY DEF StatusInv, StatusType, NotRunning, PersistRow, WriteRow
  <2> QED
    BY <2>1, <2>2 DEF Follows
<1>3. \A c \in Component : \A i, j \in Incident :
        Untouched(incident'[i], c) /\ Untouched(incident'[j], c) => i = j
  BY DEF StatusInv
<1> QED
  BY <1>1, <1>2, <1>3 DEF StatusInv

LEMMA EditedRow ==
  ASSUME NEW row \in IncidentRow, NEW input \in IncidentInput
  PROVE  Edited(row, input) \in IncidentRow /\ Edited(row, input).touched = TRUE
<1> DEFINE one == [row EXCEPT !.open = input.open]
           two == [one EXCEPT !.impact = input.impact]
           three == [two EXCEPT !.published = input.published]
           new == [three EXCEPT !.touched = TRUE]
<1>1. input.open \in BOOLEAN /\ input.impact \in Impact /\ input.published \in BOOLEAN
  BY DEF IncidentInput
<1>2. one \in IncidentRow
  BY <1>1 DEF IncidentRow
<1>3. Edited(row, input) = new
  BY DEF Edited
<1> HIDE DEF one
<1>4. two \in IncidentRow
  BY <1>1, <1>2 DEF IncidentRow
<1> HIDE DEF two
<1>5. three \in IncidentRow
  BY <1>1, <1>4 DEF IncidentRow
<1> HIDE DEF three
<1>6. new \in IncidentRow /\ new.touched = TRUE
  BY <1>5 DEF IncidentRow
<1> QED
  BY <1>3, <1>6

LEMMA AdministratorSteps ==
  ASSUME StatusInv, Create \/ \E i \in Incident : IncidentControl(i)
  PROVE  StatusInv'
<1>1. ASSUME NEW k, NEW row \in IncidentRow, NEW input \in IncidentInput,
             incident' = [incident EXCEPT ![k] = Edited(row, input)],
             UNCHANGED <<component, monitor, health>>
      PROVE  StatusInv'
  <2> DEFINE new == Edited(row, input)
  <2>1. new \in IncidentRow /\ new.touched = TRUE
    BY EditedRow
  <2>2. incident' = [incident EXCEPT ![k] = new]
    BY <1>1
  <2> HIDE DEF new
  <2>3. /\ incident' \in [Incident -> IncidentRow]
        /\ \A i \in Incident : incident'[i] = incident[i] \/ incident'[i] = new
    BY <2>1, <2>2 DEF StatusInv, StatusType
  <2>4. \A i \in Incident, c \in Component : Untouched(incident'[i], c) => Untouched(incident[i], c)
    BY <2>1, <2>3 DEF Untouched
  <2>5. health'.up \in [Component -> BOOLEAN]
    BY <1>1 DEF StatusInv, StatusType
  <2> QED
    BY <1>1, <2>3, <2>4, <2>5, OthersWrite
<1>2. CASE Create
  <2>1. PICK input \in IncidentInput : CreateIncident(input)
    BY <1>2 DEF Create
  <2> DEFINE row == [Unopened EXCEPT !.source = "manual"]
  <2>2. row \in IncidentRow
    BY DEF Unopened, IncidentRow, Impact
  <2>3. /\ incident' = [incident EXCEPT ![NextIncident] = Edited(row, input)]
        /\ UNCHANGED <<component, monitor, health>>
    BY <2>1 DEF CreateIncident
  <2> HIDE DEF row
  <2> QED
    BY <1>1, <2>2, <2>3
<1>3. ASSUME NEW i \in Incident, IncidentControl(i) PROVE StatusInv'
  <2>1. PICK input \in IncidentInput : UpdateIncident(i, input)
    BY <1>3 DEF IncidentControl
  <2>2. /\ incident' = [incident EXCEPT ![i] = Edited(incident[i], input)]
        /\ UNCHANGED <<component, monitor, health>>
    BY <2>1 DEF UpdateIncident
  <2>3. incident[i] \in IncidentRow
    BY DEF StatusInv, StatusType
  <2> QED
    BY <1>1, <2>2, <2>3
<1> QED
  BY <1>2, <1>3

LEMMA RunBeginStep ==
  ASSUME StatusInv, NEW r \in Run, RunBegin(r)
  PROVE  StatusInv'
<1> DEFINE m == [pc |-> "persist", todo |-> Component, rows |-> component, success |-> health.up]
<1>1. m \in PersistRow /\ m.pc = "persist" /\ m.rows = component
  BY DEF PersistRow, StatusInv, StatusType
<1>2. monitor' = [monitor EXCEPT ![r] = m] /\ UNCHANGED <<component, incident>> /\ health' = health
  BY DEF RunBegin
<1>3. \A q \in Run : monitor[q].pc = "idle"
  BY DEF RunBegin, LockAcquired
<1> HIDE DEF m
<1>4. Follows(m, component, incident)
  BY <1>1 DEF Follows
<1> QED
  BY <1>1, <1>2, <1>3, <1>4, RunMoves

LEMMA LatestOf ==
  ASSUME NEW c \in Component
  PROVE  /\ Latest(ActiveOf(c)) \in Incident \cup {NoIncident}
         /\ Latest(ActiveOf(c)) = NoIncident => ActiveOf(c) = {}
<1>1. ActiveOf(c) \subseteq 1..MaxIncidents /\ MaxIncidents \in Nat /\ NoIncident \notin Incident
  BY StatusAssumption DEF ActiveOf, Incident
<1>2. IsFiniteSet(1..MaxIncidents)
  BY <1>1, FS_Interval
<1>3. ASSUME ActiveOf(c) # {} PROVE Max(ActiveOf(c)) \in ActiveOf(c)
  <2>1. IsFiniteSet(ActiveOf(c)) /\ ActiveOf(c) \in SUBSET Int
    BY <1>1, <1>2, FS_Subset
  <2> QED
    BY <1>3, <2>1, MaxIsIn
<1> QED
  BY <1>1, <1>3 DEF Latest, ActiveOf, Incident

LEMMA PersistReadStep ==
  ASSUME StatusInv, NEW r \in Run, PersistRead(r)
  PROVE  StatusInv'
<1> DEFINE m == monitor[r]
           c == CHOOSE k \in m.todo : TRUE
           new == [pc |-> "write", todo |-> m.todo, rows |-> m.rows, success |-> m.success,
                   at |-> c, active |-> Latest(ActiveOf(c))]
<1>1. m \in PersistRow /\ m.pc = "persist" /\ m.todo # {}
  BY DEF PersistRead, StatusInv, StatusType, NotRunning, WriteRow
<1>2. monitor' = [monitor EXCEPT ![r] = new] /\ UNCHANGED <<component, incident>> /\ health' = health
  BY DEF PersistRead
<1>3. c \in m.todo /\ c \in Component
  BY <1>1 DEF PersistRow
<1>4. \A k \in m.todo : m.rows[k] = component[k]
  BY DEF StatusInv, Follows
<1>5. \A q \in Run : q # r => monitor[q].pc = "idle"
  BY <1>1 DEF StatusInv
<1> HIDE DEF c, m
<1>6. /\ Latest(ActiveOf(c)) \in Incident \cup {NoIncident}
      /\ Latest(ActiveOf(c)) = NoIncident => ActiveOf(c) = {}
  BY <1>3, LatestOf
<1>7. /\ new \in WriteRow /\ new.pc = "write" /\ new.todo = m.todo /\ new.rows = m.rows
      /\ new.at = c /\ new.active = Latest(ActiveOf(c))
  BY <1>1, <1>3, <1>6 DEF WriteRow, PersistRow
<1> HIDE DEF new
<1>8. ActiveOf(c) = {} => \A i \in Incident : ~Untouched(incident[i], c)
  BY DEF ActiveOf, Untouched
<1>9. Follows(new, component, incident)
  BY <1>3, <1>4, <1>6, <1>7, <1>8 DEF Follows
<1> QED
  BY <1>2, <1>5, <1>7, <1>9, RunMoves

(* The row the monitor writes keeps its account. *)
LEMMA WrittenRow ==
  ASSUME NEW old \in ComponentRow, Account(old), NEW b \in BOOLEAN
  PROVE  LET row == NextComponentState(old, b)
             new == [status |-> row.status, failures |-> row.failures,
                     successes |-> row.successes, checks |-> LatestChecks(old.checks, b)]
         IN  new \in ComponentRow /\ Account(new)
<1> DEFINE row == NextComponentState(old, b)
           checks == LatestChecks(old.checks, b)
           new == [status |-> row.status, failures |-> row.failures,
                   successes |-> row.successes, checks |-> checks]
<1>1. /\ old.checks \in Seq(BOOLEAN) /\ Len(old.checks) <= 3 /\ old.status \in Health
      /\ old.failures \in 0..3 /\ old.successes \in 0..3
      /\ old.failures = RunLength(old.checks, FALSE) /\ old.successes = RunLength(old.checks, TRUE)
  BY DEF ComponentRow, Account
<1>2. /\ checks \in Seq(BOOLEAN) /\ Len(checks) <= 3
      /\ RunLength(checks, b) = Up1(RunLength(old.checks, b))
      /\ \A d \in BOOLEAN : d # b => RunLength(checks, d) = 0
  BY <1>1, RunGrows
<1>3. \A n \in 0..3 : Up1(n) \in 0..3
  BY DEF Up1
<1>4. /\ row.failures = (IF b THEN 0 ELSE Up1(old.failures))
      /\ row.successes = (IF b THEN Up1(old.successes) ELSE 0)
      /\ row.status \in {"operational", "partial_outage", "degraded_performance", old.status}
  BY DEF NextComponentState
<1> HIDE DEF row, checks
<1>5. row.failures \in 0..3 /\ row.successes \in 0..3 /\ row.status \in Health
  <2>4. 0 \in 0..3
    OBVIOUS
  <2>5. Up1(old.failures) \in 0..3
    BY <1>1, <1>3, Zenon
  <2>6. Up1(old.successes) \in 0..3
    BY <1>1, <1>3, Zenon
  <2>1. 0 \in 0..3 /\ Up1(old.failures) \in 0..3 /\ Up1(old.successes) \in 0..3
    BY <2>4, <2>5, <2>6
  <2>2. row.failures \in 0..3 /\ row.successes \in 0..3
    BY <1>4, <2>1
  <2>3. row.status \in Health
    BY <1>1, <1>4 DEF Health
  <2> QED
    BY <2>2, <2>3
<1>6. row.failures = RunLength(checks, FALSE) /\ row.successes = RunLength(checks, TRUE)
  <2>1. CASE b = TRUE
    BY <1>1, <1>2, <1>4, <2>1
  <2>2. CASE b = FALSE
    BY <1>1, <1>2, <1>4, <2>2
  <2> QED
    BY <2>1, <2>2
<1>7. new \in ComponentRow /\ Account(new)
  BY <1>2, <1>5, <1>6 DEF ComponentRow, Account
<1> QED
  BY <1>7 DEF row, checks

LEMMA PersistWriteStep ==
  ASSUME StatusInv, NEW r \in Run, PersistWrite(r)
  PROVE  StatusInv'
<1> DEFINE m == monitor[r]
           c == m.at
           b == m.success[c]
           row == NextComponentState(component[c], b)
           new == [status |-> row.status, failures |-> row.failures,
                   successes |-> row.successes, checks |-> LatestChecks(component[c].checks, b)]
           opened == [Unopened EXCEPT !.source = "monitor", !.open = TRUE, !.component = c]
           left == [pc |-> "persist", todo |-> m.todo \ {c}, rows |-> m.rows, success |-> m.success]
           next == IF m.todo = {c} THEN NotRunning ELSE left
<1>1. m \in WriteRow /\ m.pc = "write" /\ c \in Component /\ b \in BOOLEAN
  BY DEF PersistWrite, StatusInv, StatusType, NotRunning, PersistRow, WriteRow
<1>2. /\ c \in m.todo /\ \A k \in m.todo : m.rows[k] = component[k]
      /\ m.active = NoIncident => \A i \in Incident : ~Untouched(incident[i], c)
  BY <1>1 DEF StatusInv, Follows
<1>3. \A q \in Run : q # r => monitor[q].pc = "idle"
  BY <1>1 DEF StatusInv
<1>4. component[c] \in ComponentRow /\ Account(component[c])
  BY <1>1 DEF StatusInv, StatusType
<1>5. m.rows[c] = component[c]
  BY <1>2
<1>6. component' = [component EXCEPT ![c] = new] /\ health' = health
  BY <1>5 DEF PersistWrite, LatestChecks
<1>7. monitor' = [monitor EXCEPT ![r] = next]
  BY DEF PersistWrite
<1>8. \/ m.active = NoIncident /\ incident' = [incident EXCEPT ![NextIncident] = opened]
      \/ incident' = [incident EXCEPT ![m.active].open = FALSE]
      \/ incident' = incident
  BY DEF PersistWrite, Opens
<1>9. new \in ComponentRow /\ Account(new)
  BY <1>1, <1>4, WrittenRow
<1> HIDE DEF new, row
<1>10. opened \in IncidentRow /\ \A k \in Component : Untouched(opened, k) => k = c
  <2> DEFINE one == [Unopened EXCEPT !.source = "monitor"]
             two == [one EXCEPT !.open = TRUE]
  <2>1. Unopened \in IncidentRow
    BY DEF Unopened, IncidentRow, Impact
  <2>2. one \in IncidentRow
    BY <2>1 DEF IncidentRow
  <2>3. opened = [two EXCEPT !.component = c]
    OBVIOUS
  <2> HIDE DEF one, c, opened
  <2>4. two \in IncidentRow
    BY <2>2 DEF IncidentRow
  <2> HIDE DEF two
  <2>5. opened \in IncidentRow /\ opened.component = c
    BY <1>1, <2>3, <2>4 DEF IncidentRow
  <2> QED
    BY <2>5 DEF Untouched
<1> HIDE DEF opened
<1>11. /\ incident' \in [Incident -> IncidentRow]
       /\ \/ /\ m.active = NoIncident
             /\ \A i \in Incident : incident'[i] = incident[i] \/ (i = NextIncident /\ incident'[i] = opened)
          \/ \A i \in Incident, k \in Component : Untouched(incident'[i], k) => Untouched(incident[i], k)
  <2>1. CASE m.active = NoIncident /\ incident' = [incident EXCEPT ![NextIncident] = opened]
    BY <1>10, <2>1 DEF StatusInv, StatusType
  <2>2. CASE incident' = [incident EXCEPT ![m.active].open = FALSE]
    <3> DEFINE closed == [incident[m.active] EXCEPT !.open = FALSE]
    <3>1. incident \in [Incident -> IncidentRow]
      BY DEF StatusInv, StatusType
    <3>2. CASE m.active \in Incident
      <4>1. incident' = [incident EXCEPT ![m.active] = closed]
        BY <2>2
      <4>2. closed \in IncidentRow /\ closed.open = FALSE
        BY <3>1, <3>2 DEF IncidentRow
      <4> HIDE DEF closed
      <4>3. /\ incident' \in [Incident -> IncidentRow]
            /\ \A i \in Incident : incident'[i] = incident[i] \/ incident'[i] = closed
        BY <3>1, <3>2, <4>1, <4>2
      <4> QED
        BY <4>2, <4>3 DEF Untouched
    <3>3. CASE m.active \notin Incident
      <4>1. incident' = incident
        BY <2>2, <3>1, <3>3
      <4> QED
        BY <3>1, <4>1
    <3> QED
      BY <3>2, <3>3
  <2>3. CASE incident' = incident
    BY <2>3 DEF StatusInv, StatusType
  <2> QED
    BY <1>8, <2>1, <2>2, <2>3
<1>12. \A k \in Component : \A i, j \in Incident :
         Untouched(incident'[i], k) /\ Untouched(incident'[j], k) => i = j
  BY <1>2, <1>10, <1>11 DEF StatusInv
<1>13. next \in {NotRunning} \cup PersistRow /\ next.todo = m.todo \ {c} /\ next.pc # "write"
        /\ (\A k \in next.todo : next.rows[k] = component[k])
  <2>1. NotRunning.todo = {} /\ NotRunning.pc = "idle"
    BY DEF NotRunning
  <2>2. /\ left \in PersistRow /\ left.todo = m.todo \ {c} /\ left.rows = m.rows
        /\ left.pc = "persist"
    BY <1>1 DEF WriteRow, PersistRow
  <2> HIDE DEF left, m, c
  <2> QED
    BY <1>2, <2>1, <2>2
<1> HIDE DEF next, b
<1>14. /\ component' \in [Component -> ComponentRow] /\ component'[c] = new
       /\ \A k \in Component : k # c => component'[k] = component[k]
  BY <1>1, <1>6, <1>9 DEF StatusInv, StatusType
<1>15. /\ monitor' \in [Run -> {NotRunning} \cup PersistRow \cup WriteRow]
       /\ monitor'[r] = next /\ \A q \in Run : q # r => monitor'[q] = monitor[q]
  BY <1>7, <1>13 DEF StatusInv, StatusType
<1>16. next.todo \subseteq Component /\ c \notin next.todo
  BY <1>1, <1>13 DEF WriteRow
<1>17. ASSUME NEW q \in Run PROVE Follows(monitor'[q], component', incident')
  <2>1. CASE q = r
    BY <1>13, <1>14, <1>15, <1>16, <2>1 DEF Follows
  <2>2. CASE q # r
    <3>1. monitor'[q] = NotRunning
      BY <1>3, <1>15, <2>2 DEF StatusInv, StatusType, PersistRow, WriteRow
    <3> QED
      BY <3>1 DEF Follows, NotRunning
  <2> QED
    BY <2>1, <2>2
<1>18. \A p, q \in Run : monitor'[p].pc # "idle" /\ monitor'[q].pc # "idle" => p = q
  BY <1>3, <1>15
<1>19. \A k \in Component : Account(component'[k])
  BY <1>9, <1>14 DEF StatusInv
<1>20. StatusType'
  BY <1>6, <1>11, <1>14, <1>15 DEF StatusInv, StatusType
<1> QED
  BY <1>12, <1>17, <1>18, <1>19, <1>20 DEF StatusInv

LEMMA StatusStep == StatusInv /\ [NextStatus]_statusVars => StatusInv'
<1> SUFFICES ASSUME StatusInv, [NextStatus]_statusVars PROVE StatusInv'
  OBVIOUS
<1>1. CASE UNCHANGED <<component, monitor, incident>> /\ health'.up \in [Component -> BOOLEAN]
  BY <1>1, OthersWrite DEF StatusInv, StatusType
<1>2. ASSUME NEW c \in Component, HealthChanges(c) PROVE StatusInv'
  <2>1. health'.up = [health.up EXCEPT ![c] = ~health.up[c]]
    BY <1>2 DEF HealthChanges
  <2>2. health.up \in [Component -> BOOLEAN]
    BY DEF StatusInv, StatusType
  <2> QED
    BY <1>1, <1>2, <2>1, <2>2 DEF HealthChanges
<1>3. CASE UNCHANGED statusVars \/ ReadComponents \/ LoadIncidents
  BY <1>1, <1>3 DEF statusVars, ReadComponents, LoadIncidents, StatusInv, StatusType
<1>4. ASSUME NEW r \in Run, RunAborts(r) PROVE StatusInv'
  <2>1. NotRunning.pc = "idle" /\ Follows(NotRunning, component, incident)
    BY DEF NotRunning, Follows
  <2> QED
    BY <1>4, <2>1, RunMoves DEF RunAborts
<1> QED
  BY <1>2, <1>3, <1>4, RunBeginStep, PersistReadStep, PersistWriteStep, AdministratorSteps
  DEF NextStatus

(* However runs overlap or abort, the counters of a component are what its  *)
(* latest checks say, and the monitor has one active incident of it unless  *)
(* an administrator wrote another (runStatusChecks,                         *)
(* synchronizeMonitorIncident).                                             *)
THEOREM MonitorKeepsOneAccount == SpecAdmin => []OneAccountEach
<1>1. InitAdmin => StatusInv
  BY StatusStarts DEF InitAdmin
<1>2. StatusInv /\ [NextAdmin]_adminVars => StatusInv'
  BY StatusStep DEF NextAdmin, adminVars
<1>3. StatusInv => OneAccountEach
  <2> SUFFICES ASSUME StatusInv, NEW c \in Component
               PROVE  /\ component[c].failures = Trailing(component[c].checks, FALSE)
                      /\ component[c].successes = Trailing(component[c].checks, TRUE)
                      /\ Cardinality({i \in ActiveOf(c) : ~incident[i].touched}) <= 1
    BY DEF OneAccountEach
  <2>1. component[c].checks \in Seq(BOOLEAN) /\ Account(component[c])
    BY DEF StatusInv, StatusType, ComponentRow
  <2>2. \A b \in BOOLEAN : Trailing(component[c].checks, b) = RunLength(component[c].checks, b)
    BY <2>1, TrailingRun DEF Account
  <2> DEFINE own == {i \in ActiveOf(c) : ~incident[i].touched}
  <2>3. \A i \in own : i \in Incident /\ Untouched(incident[i], c)
    BY DEF ActiveOf, Untouched, StatusInv, StatusType, IncidentRow
  <2>4. \A i, j \in own : i = j
    BY <2>3 DEF StatusInv
  <2> HIDE DEF own
  <2>5. own = {} \/ \E i : own = {i}
    BY <2>4
  <2>6. Cardinality(own) <= 1
    <3>1. CASE own = {}
      <4>1. Cardinality(own) = 0
        BY <3>1, FS_EmptySet
      <4> QED
        BY <4>1
    <3>2. ASSUME NEW i, own = {i} PROVE Cardinality(own) <= 1
      <4>1. Cardinality(own) = 1
        BY <3>2, FS_Singleton
      <4> QED
        BY <4>1
    <3> QED
      BY <2>5, <3>1, <3>2
  <2> QED
    BY <2>1, <2>2, <2>6 DEF Account, own
<1> QED
  BY <1>1, <1>2, <1>3, PTL DEF SpecAdmin
=============================================================================
