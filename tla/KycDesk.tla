------------------------------- MODULE KycDesk -------------------------------
(***************************************************************************)
(* The page reviewers work on, over KycCases.  The case that is selected   *)
(* and the case that is shown are two pieces of state: requests go to the  *)
(* first, and answers, in whatever order they arrive, set the second.      *)
(***************************************************************************)
EXTENDS KycCases

VARIABLES
  screen     \* each reviewer's page: selected, shown as it was loaded, loading,
             \* and the cases whose answers are on their way

deskVars == <<screen, kycVars>>

NothingShown == [case |-> NoCase, risk |-> "unrated"]

InitDesk ==
  /\ InitKyc
  /\ screen = [r \in Reviewer |-> [selected |-> NoCase, shown |-> NothingShown,
                                   loading |-> FALSE, answers |-> {}]]

Page(r, change) == screen' = [screen EXCEPT ![r] = change] /\ UNCHANGED kycVars

(* The queue lists every case that is open; opening one asks for it. *)
Queued == {c \in Case : case[c].open}
OpenCase(r, c) ==
  /\ c \in Queued
  /\ Page(r, [screen[r] EXCEPT !.selected = c, !.loading = TRUE, !.answers = @ \cup {c}])

(* An answer shows its case, whatever is selected by then; an error leaves  *)
(* the page as it was.  Either ends the loading.                           *)
Loaded(r, c) ==
  /\ c \in screen[r].answers
  /\ Page(r, [screen[r] EXCEPT !.shown = [case |-> c, risk |-> case[c].risk],
                               !.loading = FALSE, !.answers = @ \ {c}])
LoadFails(r, c) ==
  /\ c \in screen[r].answers
  /\ Page(r, [screen[r] EXCEPT !.loading = FALSE, !.answers = @ \ {c}])

Back(r) ==
  /\ screen[r].shown.case # NoCase
  /\ Page(r, [screen[r] EXCEPT !.selected = NoCase, !.shown = NothingShown])

(* apply: the request names the selected case, whatever case is shown, and *)
(* only a change of the rating names a risk.  The server reads the case.   *)
Apply(r, action, risk) ==
  LET c == screen[r].selected IN
  /\ c # NoCase
  /\ action # "risk_change" => risk = case[c].risk
  /\ ReviewRead(r, c, action, risk)
  /\ screen' = [screen EXCEPT ![r].loading = TRUE]

(* The rating and the reviewer are selects, enabled while a case is shown. *)
ChangeControl(r, action, risk) ==
  /\ screen[r].shown.case # NoCase
  /\ action \in {"risk_change", "assign"}
  /\ Apply(r, action, risk)

(* The decision form is enabled when nothing loads, and for the decisions   *)
(* on a case shown as critical only to administrators.                     *)
FormOffered(r, action) ==
  /\ screen[r].shown.case # NoCase
  /\ action \in Decision \cup {"note", "request_information"}
  /\ ~screen[r].loading
  /\ ~(screen[r].shown.risk = "critical" /\ r \notin Admin /\ action \in Decision)

Submit(r, action, risk) == FormOffered(r, action) /\ Apply(r, action, risk)

(* The decision is written, and the case is answered. *)
Applied(r) ==
  /\ ReviewWrite(r)
  /\ screen' = [screen EXCEPT ![r].answers = @ \cup {desk[r].case}]

NextDesk ==
  \/ \E c \in Case : IngestKycCase(c) /\ UNCHANGED screen
  \/ \E r \in Reviewer :
       \/ Back(r) \/ Applied(r)
       \/ \E c \in Case : OpenCase(r, c) \/ Loaded(r, c) \/ LoadFails(r, c)
       \/ \E action \in Action, risk \in Risk :
            ChangeControl(r, action, risk) \/ Submit(r, action, risk)

SpecDesk == InitDesk /\ [][NextDesk]_deskVars
=============================================================================
