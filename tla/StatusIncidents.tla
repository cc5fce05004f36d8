--------------------------- MODULE StatusIncidents ---------------------------
(***************************************************************************)
(* The status monitor and its incidents: runs of the monitor, by cron or   *)
(* from the console, probe the components and keep counters on which       *)
(* incidents are opened and resolved, while administrators edit them and   *)
(* the public feed is read.                                                *)
(***************************************************************************)
EXTENDS Naturals, Sequences, FiniteSets, FiniteSetsExt

CONSTANTS
  Component,     \* monitored components
  Run,           \* invocations of runStatusChecks that may overlap
  NoIncident,
  MaxIncidents,  \* bound: incidents, numbered as they are opened
  MaxOutages,    \* bound: times a component changes its health
  MaxAborts,     \* bound: runs that end in an exception or with their process
  MaxEdits       \* bound: incidents written from the console

ASSUME StatusAssumption ==
  /\ {MaxIncidents, MaxOutages, MaxAborts, MaxEdits} \subseteq Nat
  /\ NoIncident \notin 1..MaxIncidents

Incident == 1..MaxIncidents
Impact == {"minor", "major"}       \* two of the four, with the states they show
Rank == [operational |-> 0, unknown |-> 1, degraded_performance |-> 3, partial_outage |-> 4]
Shown == [minor |-> "degraded_performance", major |-> "partial_outage"]

VARIABLES
  health,     \* does each component answer, and how often that may change
  component,  \* operations.status_component, with its last three checks
  incident,   \* operations.status_incident, in the order of started_at
  monitor,    \* each run: the components it has yet to write, as it read them
  aborts, edits,
  feed        \* the public status as it was last read

statusVars == <<health, component, incident, monitor, aborts, edits, feed>>

Unopened == [source |-> "none", open |-> FALSE, impact |-> "major", published |-> TRUE,
             component |-> "none", touched |-> FALSE]
NotRunning == [pc |-> "idle", todo |-> {}]

InitStatus ==
  /\ health = [up |-> [c \in Component |-> TRUE], outages |-> 0]
  /\ component = [c \in Component |-> [status |-> "unknown", failures |-> 0,
                                       successes |-> 0, checks |-> <<>>]]
  /\ incident = [i \in Incident |-> Unopened]
  /\ monitor = [r \in Run |-> NotRunning]
  /\ aborts = 0 /\ edits = 0
  /\ feed = [components |-> [c \in Component |-> "unknown"], active |-> {}]

(* External: a component stops answering, or answers again. *)
HealthChanges(c) ==
  /\ health.outages < MaxOutages
  /\ health' = [up |-> [health.up EXCEPT ![c] = ~@], outages |-> health.outages + 1]
  /\ UNCHANGED <<component, incident, monitor, aborts, edits, feed>>
-----------------------------------------------------------------------------
(* nextComponentState.  The counters are only compared with 2 and 3, and    *)
(* stay at 3 here.                                                         *)
Up1(n) == IF n < 3 THEN n + 1 ELSE n
Recovers(row, successes) == row.status = "unknown" \/ successes >= 2

NextComponentState(row, success) ==
  LET successes == IF success THEN Up1(row.successes) ELSE 0
      failures == IF success THEN 0 ELSE Up1(row.failures)
  IN [status |-> IF success
        THEN IF Recovers(row, successes) THEN "operational" ELSE row.status
        ELSE IF failures >= 3 THEN "partial_outage"
        ELSE IF failures >= 2 THEN "degraded_performance" ELSE row.status,
      failures |-> failures, successes |-> successes]

FaultyLockAcquired == TRUE

(* pg_try_advisory_lock: a run that finds another is skipped. *)
LockAcquired == \A r \in Run : monitor[r].pc = "idle"

(* The rows are read, and all components are probed. *)
RunBegin(r) ==
  /\ monitor[r].pc = "idle" /\ LockAcquired
  /\ monitor' = [monitor EXCEPT ![r] = [pc |-> "persist", todo |-> Component,
       rows |-> component, success |-> health.up]]
  /\ UNCHANGED <<health, component, incident, aborts, edits, feed>>

(* The latest active incident of the monitor that names the component. *)
ActiveOf(c) == {i \in Incident : incident[i].source = "monitor" /\ incident[i].open
                                   /\ incident[i].component = c}
Latest(active) == IF active = {} THEN NoIncident ELSE Max(active)

(* persistResult for the first component left: the transaction looks for   *)
(* its incident ...                                                        *)
PersistRead(r) ==
  LET m == monitor[r]
      c == CHOOSE k \in m.todo : TRUE
  IN /\ m.pc = "persist" /\ m.todo # {}
     /\ monitor' = [monitor EXCEPT ![r] = [pc |-> "write", todo |-> m.todo, rows |-> m.rows,
          success |-> m.success, at |-> c, active |-> Latest(ActiveOf(c))]]
     /\ UNCHANGED <<health, component, incident, aborts, edits, feed>>

NextIncident == CHOOSE i \in Incident : incident[i].source = "none"
                  /\ \A j \in 1..(i - 1) : incident[j].source # "none"
CanOpen == \E i \in Incident : incident[i].source = "none"

Opens(m, row) == ~m.success[m.at] /\ row.failures >= 3 /\ m.active = NoIncident
FaultyCloses(m, row) == m.success[m.at] /\ row.successes = 2 /\ m.active # NoIncident
Closes(m, row) == m.success[m.at] /\ row.successes >= 2 /\ m.active # NoIncident

(* ... and writes the check, the counters derived from the row as the run  *)
(* read it, and the incident (synchronizeMonitorIncident).                 *)
PersistWrite(r) ==
  LET m == monitor[r]
      row == NextComponentState(m.rows[m.at], m.success[m.at])
      checks == Append(component[m.at].checks, m.success[m.at])
      last == IF Len(checks) > 3 THEN Tail(checks) ELSE checks
  IN /\ m.pc = "write"
     /\ component' = [component EXCEPT ![m.at] = [status |-> row.status,
          failures |-> row.failures, successes |-> row.successes, checks |-> last]]
     /\ Opens(m, row) => CanOpen
     /\ incident' = IF Opens(m, row)
          THEN [incident EXCEPT ![NextIncident] = [Unopened EXCEPT !.source = "monitor",
                                                     !.open = TRUE, !.component = m.at]]
          ELSE IF Closes(m, row) THEN [incident EXCEPT ![m.active].open = FALSE]
          ELSE incident
     /\ monitor' = [monitor EXCEPT ![r] = IF m.todo = {m.at} THEN NotRunning
          ELSE [pc |-> "persist", todo |-> m.todo \ {m.at}, rows |-> m.rows,
                success |-> m.success]]
     /\ UNCHANGED <<health, aborts, edits, feed>>

(* An exception rolls the transaction back, keeps what was committed for    *)
(* other components, and releases the lock; so does the end of the process. *)
RunAborts(r) ==
  /\ monitor[r].pc # "idle" /\ aborts < MaxAborts
  /\ aborts' = aborts + 1
  /\ monitor' = [monitor EXCEPT ![r] = NotRunning]
  /\ UNCHANGED <<health, component, incident, edits, feed>>
-----------------------------------------------------------------------------
(* parseIncidentInput: what an incident may say; resolved is not open.     *)
IncidentInput == [open : BOOLEAN, impact : Impact, published : BOOLEAN]
Edited(row, input) ==
  [row EXCEPT !.open = input.open, !.impact = input.impact,
              !.published = input.published, !.touched = TRUE]

(* createIncident: manual incidents name components, which the monitor does *)
(* not ask them about.                                                     *)
CreateIncident(input) ==
  /\ edits < MaxEdits /\ edits' = edits + 1 /\ CanOpen
  /\ incident' = [incident EXCEPT ![NextIncident] =
       Edited([Unopened EXCEPT !.source = "manual"], input)]
  /\ UNCHANGED <<health, component, monitor, aborts, feed>>

UpdateIncident(i, input) ==
  /\ edits < MaxEdits /\ edits' = edits + 1
  /\ incident[i].source # "none"
  /\ incident' = [incident EXCEPT ![i] = Edited(@, input)]
  /\ UNCHANGED <<health, component, monitor, aborts, feed>>

(* The console creates no resolved incident. *)
Create == \E input \in IncidentInput : input.open /\ CreateIncident(input)

(* The form of an incident keeps the state it had when the form was first  *)
(* shown, although the list is refreshed: sent much later, it reopens what *)
(* was resolved since and takes back what others wrote.                    *)
IncidentControl(i) == \E input \in IncidentInput : UpdateIncident(i, input)
-----------------------------------------------------------------------------
(* getStatus reads components and incidents with two queries at a time. *)
ReadComponents ==
  /\ feed' = [feed EXCEPT !.components = [c \in Component |-> component[c].status]]
  /\ UNCHANGED <<health, component, incident, monitor, aborts, edits>>

LoadIncidents ==
  /\ feed' = [feed EXCEPT !.active = {[impact |-> incident[i].impact, source |-> incident[i].source] :
       i \in {j \in Incident : incident[j].open /\ incident[j].published}}]
  /\ UNCHANGED <<health, component, incident, monitor, aborts, edits>>

(* overallState: the worst of what is observed. *)
OverallState ==
  LET observed == {feed.components[c] : c \in Component}
                    \cup {Shown[a.impact] : a \in feed.active} \cup {"operational"}
  IN CHOOSE s \in observed : \A t \in observed : Rank[t] <= Rank[s]

NextStatus ==
  \/ \E c \in Component : HealthChanges(c)
  \/ \E r \in Run : RunBegin(r) \/ PersistRead(r) \/ PersistWrite(r) \/ RunAborts(r)
  \/ Create \/ \E i \in Incident : IncidentControl(i)
  \/ ReadComponents \/ LoadIncidents

(* Cron invokes the monitor every minute, a run goes on unless it aborts,  *)
(* and the feed is read for as long as somebody looks.                     *)
FairStatus ==
  /\ WF_statusVars(\E r \in Run : RunBegin(r))
  /\ \A r \in Run : WF_statusVars(PersistRead(r)) /\ WF_statusVars(PersistWrite(r))
  /\ WF_statusVars(ReadComponents) /\ WF_statusVars(LoadIncidents)
-----------------------------------------------------------------------------
Trailing(checks, success) ==
  Cardinality({k \in DOMAIN checks : \A j \in k..Len(checks) : checks[j] = success})

(* However runs overlap or abort, the monitor keeps one account of a        *)
(* component: its counters are what the latest recorded checks say, none    *)
(* counted twice or forgotten (runStatusChecks, docs/DEPLOYMENT.md:179),    *)
(* and it has one active incident, unless an administrator brought another  *)
(* one back (synchronizeMonitorIncident).                                   *)
OneAccountEach ==
  \A c \in Component :
    /\ component[c].failures = Trailing(component[c].checks, FALSE)
    /\ component[c].successes = Trailing(component[c].checks, TRUE)
    /\ Cardinality({i \in ActiveOf(c) : ~incident[i].touched}) <= 1

(* The public status follows the health of the components: an outage that  *)
(* lasts is shown and has an incident, and when all is well again, the     *)
(* monitor's incidents end, whatever was edited or aborted meanwhile, and  *)
(* only what administrators keep published remains.                        *)
StatusFollowsHealth ==
  /\ \A c \in Component : <>[]~health.up[c] =>
       <>[](OverallState = "partial_outage" /\ ActiveOf(c) # {})
  /\ <>[](\A c \in Component : health.up[c]) =>
       <>[](/\ \A c \in Component : ActiveOf(c) = {}
            /\ OverallState # "operational" => feed.active # {})
=============================================================================
