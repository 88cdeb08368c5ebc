----------------------------- MODULE CrmEvents -----------------------------
(***************************************************************************)
(* The handlers the outbox relay runs for CRM events (crm/handlers.py):    *)
(* they copy an account's name to its contact and stamp when the contact   *)
(* was last spoken to.  The relay delivers an event at least once and in   *)
(* no order, and two pollers run handlers at the same time; each run loads *)
(* the contact without a lock and writes the columns it changed.           *)
(*                                                                         *)
(* One account and a contact linked to it.  A name is the number of the    *)
(* renaming, an activity's time the number of the activity.                *)
(***************************************************************************)
EXTENDS Naturals, RowFlush

CONSTANTS
  Pollers,
  MaxNames, MaxActivities, MaxEdits,   \* bounds on renamings, activities and edits
  Nameless,                            \* a company left empty
  Own,                                 \* a company a person typed
  NoRun                                \* null

ASSUME EventsAssumption ==
  /\ {MaxNames, MaxActivities, MaxEdits} \subseteq Nat
  /\ Nameless # Own /\ Nameless \notin Nat /\ Own \notin Nat
  /\ NoRun \notin Pollers

VARIABLES
  accountName,     \* accounts.name
  person,          \* the contacts row
  spoken,          \* time of the last outward activity
  edits,           \* edits of the contact so far
  toDispatch,      \* events not yet marked processed
  running,         \* handler runs
  collided       \* the contact was once written from an outdated load

eventVars == <<accountName, person, spoken, edits, toDispatch, running, collided>>

Times == 0..MaxActivities

ContactColumns == [company : (1..MaxNames) \cup {Nameless, Own}, last_contact_at : Times]

CrmEvent == [type : {"contact.updated", "account.updated", "activity.logged"},
             at : 0..(MaxActivities + MaxNames + MaxEdits)]

EventsTypeOK ==
  /\ accountName \in 1..MaxNames /\ person \in ContactColumns
  /\ spoken \in Times /\ edits \in 0..MaxEdits
  /\ toDispatch \subseteq CrmEvent /\ collided \in BOOLEAN

(* contact.created has just been committed.                                 *)
EventsInit ==
  /\ accountName = 1
  /\ person = [company |-> Nameless, last_contact_at |-> 0]
  /\ spoken = 0 /\ edits = 0
  /\ toDispatch = {[type |-> "contact.updated", at |-> 0]}
  /\ running = [p \in Pollers |-> NoRun]
  /\ collided = FALSE

-----------------------------------------------------------------------------
Emitted(type, at) == toDispatch' = toDispatch \cup {[type |-> type, at |-> at]}

RenameAccount ==
  /\ accountName < MaxNames
  /\ accountName' = accountName + 1
  /\ Emitted("account.updated", accountName')
  /\ UNCHANGED <<person, spoken, edits, running, collided>>

Others(p) == [o \in Pollers |-> IF o # p /\ running[o] # NoRun
                                  THEN Outdate(running[o], {"contact"}) ELSE running[o]]

(* ContactService.update of the company.                                    *)
EditContact(company) ==
  /\ edits < MaxEdits
  /\ edits' = edits + 1
  /\ person' = [person EXCEPT !.company = company]
  /\ Emitted("contact.updated", edits')
  /\ running' = Others(NoRun)
  /\ UNCHANGED <<accountName, spoken, collided>>

(* log_activity: only a call, an e-mail, a meeting or a message counts.     *)
log_activity(outward) ==
  /\ spoken < MaxActivities
  /\ spoken' = (IF outward THEN spoken + 1 ELSE spoken)
  /\ IF outward THEN Emitted("activity.logged", spoken') ELSE UNCHANGED toDispatch
  /\ UNCHANGED <<accountName, person, edits, running, collided>>

-----------------------------------------------------------------------------
(* What each handler makes of the contact it loaded.                        *)
sync_contact_company(e) ==
  IF person.company = Nameless THEN [person EXCEPT !.company = accountName] ELSE person

propagate_account_rename_Empty(e) ==
  IF person.company = Nameless THEN [person EXCEPT !.company = accountName] ELSE person

propagate_account_rename(e) == [person EXCEPT !.company = accountName]

stamp_last_contact_at_Any(e) == [person EXCEPT !.last_contact_at = e.at]

stamp_last_contact_at(e) ==
  IF person.last_contact_at >= e.at THEN person ELSE [person EXCEPT !.last_contact_at = e.at]

handlers_for(e) ==
  CASE e.type = "contact.updated" -> sync_contact_company(e)
    [] e.type = "account.updated" -> propagate_account_rename(e)
    [] e.type = "activity.logged" -> stamp_last_contact_at(e)

(* A poller holds the event's outbox row while it runs the handler.         *)
RunHandler(p, e) ==
  /\ running[p] = NoRun
  /\ ~\E o \in Pollers : running[o] # NoRun /\ running[o].event = e
  /\ running' = [running EXCEPT ![p] =
                   [event |-> e, writes |-> Write("contact", person, handlers_for(e)), stale |-> {}]]
  /\ UNCHANGED <<accountName, person, spoken, edits, toDispatch, collided>>

Changes(r) == r.writes["contact"].old # r.writes["contact"].new

(* The handler's transaction commits; the poller then marks the event, or   *)
(* dies before it does and the event is delivered again.                    *)
FinishHandler(p, marked) ==
  /\ running[p] # NoRun
  /\ LET r == running[p]
     IN  /\ person' = Commit([contact |-> person], r).contact
         /\ running' = [(IF Changes(r) THEN Others(p) ELSE running) EXCEPT ![p] = NoRun]
         /\ collided' = (collided \/ (Changes(r) /\ r.stale # {}))
         /\ toDispatch' = IF marked THEN toDispatch \ {r.event} ELSE toDispatch
  /\ UNCHANGED <<accountName, spoken, edits>>

EventsNext ==
  \/ RenameAccount
  \/ \E company \in {Nameless, Own} : EditContact(company)
  \/ \E outward \in BOOLEAN : log_activity(outward)
  \/ \E p \in Pollers :
       \/ \E e \in toDispatch : RunHandler(p, e)
       \/ \E marked \in BOOLEAN : FinishHandler(p, marked)

EventsSpec == EventsInit /\ [][EventsNext]_eventVars

-----------------------------------------------------------------------------
(* Once every event has been handled, in whatever order and however often,  *)
(* the contact shows its account's present name or one a person typed, and  *)
(* the last time it was spoken to; unless handler runs, or a run and an     *)
(* edit, collided on the row.                                               *)
HandlersConverge ==
  (toDispatch = {} /\ ~collided /\ \A p \in Pollers : running[p] = NoRun) =>
     person.company \in {accountName, Own} /\ person.last_contact_at = spoken
=============================================================================
