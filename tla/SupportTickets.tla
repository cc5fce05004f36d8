---------------------------- MODULE SupportTickets ----------------------------
(***************************************************************************)
(* The support desk: tickets that visitors file and answer with an access  *)
(* key, and that operators change and answer.  A public reply looks at the *)
(* ticket again under its locks; an operator's request acts on what it     *)
(* read before its transaction.                                            *)
(***************************************************************************)
EXTENDS Naturals, Sequences, FiniteSets

CONSTANTS
  Ticket,         \* bound: the tickets of one reporter
  Visitor,        \* public replies in progress
  Operator,       \* operators of the desk, one request each at a time
  TicketLimit,    \* ticketCreationLimit, within TicketWindow
  TicketWindow,
  ReplyLimit,     \* customerMessageLimit, within ReplyWindow
  ReplyWindow,
  MaxThread,      \* bound: messages of one ticket
  LastInstant     \* bound: instants

(* The first message of a ticket counts as a reply. *)
ASSUME SupportAssumption ==
  /\ {TicketLimit, TicketWindow, ReplyLimit, ReplyWindow, MaxThread, LastInstant} \subseteq Nat
  /\ ReplyLimit > 0

TicketStatus == {"open", "in_progress", "waiting_customer", "resolved", "closed"}
TicketPriority == {"normal", "urgent"}      \* two of the four; they order the queue
NotWriting == [kind |-> "none"]

VARIABLES
  ticket,     \* support.ticket with its messages and its queued notices
  replying,   \* the transaction of each public reply
  editing,    \* the request of each operator: the ticket as it was read
  migrated,   \* migration 015 made the key of a notice mandatory
  instant

supportVars == <<ticket, replying, editing, migrated, instant>>

(* Nothing reads the time of an operator's message. *)
Said(by, at) == [by |-> by, at |-> at]
NoTicket == [status |-> "unfiled", priority |-> "normal", thread |-> <<>>, notices |-> 0]

InitSupport ==
  /\ ticket = [t \in Ticket |-> NoTicket]
  /\ replying = [v \in Visitor |-> NotWriting]
  /\ editing = [o \in Operator |-> NotWriting]
  /\ migrated = FALSE /\ instant = 0

PassTime ==
  /\ instant < LastInstant /\ instant' = instant + 1
  /\ UNCHANGED <<ticket, replying, editing, migrated>>

Filed(t) == ticket[t].status # "unfiled"

(* The insert names no key, so from migration 015 on the transaction fails. *)
QueueNotification(row) == [row EXCEPT !.notices = @ + 1]
MayNotify == ~migrated

(* The deployment applies migration 015 to a running desk. *)
Migrate ==
  /\ ~migrated /\ migrated' = TRUE
  /\ UNCHANGED <<ticket, replying, editing, instant>>

(* createTicket, serialized by the reporter's advisory lock. *)
CreateTicket(t) ==
  /\ ~Filed(t) /\ MayNotify
  /\ Cardinality({u \in Ticket : Filed(u) /\ ticket[u].thread[1].at + TicketWindow > instant})
       < TicketLimit
  /\ \E priority \in TicketPriority : ticket' = [ticket EXCEPT ![t] =
       QueueNotification([NoTicket EXCEPT !.status = "open", !.priority = priority,
                                          !.thread = <<Said("customer", instant)>>])]
  /\ UNCHANGED <<replying, editing, migrated, instant>>
-----------------------------------------------------------------------------
(* addCustomerReply: the tracker offers no form for a closed ticket, and a  *)
(* first look at the row refuses one; then the transaction begins.          *)
ReplyBegin(v, t) ==
  /\ replying[v] = NotWriting
  /\ Filed(t) /\ ticket[t].status # "closed"
  /\ replying' = [replying EXCEPT ![v] =
       [kind |-> "waits", ticket |-> t, began |-> instant]]
  /\ UNCHANGED <<ticket, editing, migrated, instant>>

FaultyLocked(t) == FALSE

(* The advisory lock and the lock of the row, until the end. *)
Locked(t) == \E v \in Visitor : replying[v].kind = "inserts" /\ replying[v].ticket = t

FaultyAccepts(t) == TRUE
Accepts(t) == ticket[t].status # "closed"

(* The customer's messages in the window that ends when the reply began,   *)
(* and those of transactions that began later and were faster.             *)
Recent(m, began) == m.by = "customer" /\ m.at + ReplyWindow > began
RecentReplies(t, began) ==
  Cardinality({k \in DOMAIN ticket[t].thread : Recent(ticket[t].thread[k], began)})

ReplyCount(v) ==
  LET r == replying[v] IN
  /\ r.kind = "waits" /\ ~Locked(r.ticket)
  /\ replying' = [replying EXCEPT ![v] =
       IF Accepts(r.ticket) /\ RecentReplies(r.ticket, r.began) < ReplyLimit
         THEN [r EXCEPT !.kind = "inserts"] ELSE NotWriting]
  /\ UNCHANGED <<ticket, editing, migrated, instant>>

Replied(row, began) ==
  [row EXCEPT !.thread = Append(@, Said("customer", began)),
              !.status = IF @ = "waiting_customer" THEN "in_progress" ELSE @]
ReplyInsert(v) ==
  LET r == replying[v] IN
  /\ r.kind = "inserts" /\ Len(ticket[r.ticket].thread) < MaxThread
  /\ ticket' = [ticket EXCEPT ![r.ticket] = Replied(@, r.began)]
  /\ replying' = [replying EXCEPT ![v] = NotWriting]
  /\ UNCHANGED <<editing, migrated, instant>>

(* A statement fails or the process ends: the transaction is rolled back. *)
ReplyFails(v) ==
  /\ replying[v] # NotWriting
  /\ replying' = [replying EXCEPT ![v] = NotWriting]
  /\ UNCHANGED <<ticket, editing, migrated, instant>>
-----------------------------------------------------------------------------
Edit(o, e) ==
  /\ editing[o] = NotWriting
  /\ editing' = [editing EXCEPT ![o] = e]
  /\ UNCHANGED <<ticket, replying, migrated, instant>>

(* updateTicket keeps what it read of whatever the desk does not change. *)
UpdateRead(o, t) ==
  /\ Filed(t)
  /\ \/ \E s \in TicketStatus \ {ticket[t].status} :
          Edit(o, [kind |-> "update", ticket |-> t, status |-> s,
                   priority |-> ticket[t].priority])
     \/ \E p \in TicketPriority \ {ticket[t].priority} :
          Edit(o, [kind |-> "update", ticket |-> t, status |-> ticket[t].status,
                   priority |-> p])

(* addAdminReply, to the customer or as an internal note. *)
AnswerRead(o, t, kind) ==
  /\ Filed(t) /\ ticket[t].status # "closed"
  /\ Edit(o, [kind |-> kind, ticket |-> t])

FaultyAnswered(row, kind) ==
  QueueNotification([row EXCEPT !.thread = Append(@, Said(kind, 0))])
Answered(row, kind) ==
  IF kind = "note" THEN [row EXCEPT !.thread = Append(@, Said(kind, 0))]
  ELSE QueueNotification(
         [row EXCEPT !.thread = Append(@, Said(kind, 0)),
                     !.status = IF @ = "open" THEN "in_progress" ELSE @])

Updated(row, e) == [row EXCEPT !.status = e.status, !.priority = e.priority]

(* The transaction of either, when no reply holds the row. *)
EditWrite(o) ==
  LET e == editing[o] IN
  /\ e # NotWriting /\ ~Locked(e.ticket)
  /\ \/ /\ e.kind = "update"
        /\ ticket' = [ticket EXCEPT ![e.ticket] = Updated(@, e)]
     \/ /\ e.kind \in {"note", "admin"} /\ Len(ticket[e.ticket].thread) < MaxThread
        /\ e.kind = "admin" => MayNotify
        /\ ticket' = [ticket EXCEPT ![e.ticket] = Answered(@, e.kind)]
  /\ editing' = [editing EXCEPT ![o] = NotWriting]
  /\ UNCHANGED <<replying, migrated, instant>>

EditFails(o) ==
  /\ editing[o] # NotWriting
  /\ editing' = [editing EXCEPT ![o] = NotWriting]
  /\ UNCHANGED <<ticket, replying, migrated, instant>>

NextSupport ==
  \/ PassTime \/ Migrate
  \/ \E t \in Ticket :
       \/ CreateTicket(t)
       \/ \E v \in Visitor : ReplyBegin(v, t)
       \/ \E o \in Operator :
            \/ UpdateRead(o, t)
            \/ \E kind \in {"note", "admin"} : AnswerRead(o, t, kind)
  \/ \E v \in Visitor : ReplyCount(v) \/ ReplyInsert(v) \/ ReplyFails(v)
  \/ \E o \in Operator : EditWrite(o) \/ EditFails(o)
-----------------------------------------------------------------------------
Spoken(t, by) ==
  Cardinality({k \in DOMAIN ticket[t].thread : ticket[t].thread[k].by = by})

(* A ticket an operator has closed hears no more of its customer, however  *)
(* long a reply that began before has waited (addCustomerReply).           *)
ClosedIsQuiet ==
  [][\A t \in Ticket : ticket[t].status = "closed" =>
       Spoken(t, "customer")' = Spoken(t, "customer")]_supportVars

(* apps/admin/README.md:39: notices are created in the same transaction as *)
(* the events a customer sees, under either schema: one for the ticket and *)
(* one for every public answer, none for a note.                           *)
NoticesMatch ==
  \A t \in Ticket : Filed(t) => ticket[t].notices = 1 + Spoken(t, "admin")

(* docs/RELEASE_CHECKLIST.md:100: the limits are serialized in PostgreSQL: *)
(* in no window does a ticket get more replies than its limit, however     *)
(* they overlap.                                                           *)
RepliesWithinLimit ==
  \A t \in Ticket, start \in 0..LastInstant :
    Cardinality({k \in DOMAIN ticket[t].thread :
                   LET m == ticket[t].thread[k] IN
                   m.by = "customer" /\ m.at \in start..(start + ReplyWindow - 1)})
      <= ReplyLimit
=============================================================================
