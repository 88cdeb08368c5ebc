----------------------------- MODULE Messaging -----------------------------
(***************************************************************************)
(* WhatsApp conversations of one tenant: inbound messages, replies and     *)
(* delivery receipts (application/communications/inbound.py,               *)
(* whatsapp_ingest.py, whatsapp_reply.py, application/leads/               *)
(* first_response.py, application/crm/inbox.py).                           *)
(*                                                                         *)
(* A request is one webhook event, reply or captured lead.  Requests are   *)
(* numbered in the order their transactions start, which is the order of   *)
(* created_at (now()) of the rows they insert, so the rows a request       *)
(* writes carry its number.  Transactions are READ COMMITTED and lock      *)
(* nothing they read; the ORM writes only the columns it changed.          *)
(***************************************************************************)
EXTENDS Naturals, FiniteSets

CONSTANTS
  Inbound,       \* provider ids of the customers' messages
  Phones,
  From,          \* [Inbound -> Phones]
  None,
  MaxRequests,   \* bound on requests, repeated deliveries included
  MaxLost        \* bound on requests that die

Requests == 1..MaxRequests
Receipts == {"sent", "delivered", "read", "failed"}

ASSUME MessagingAssumption ==
  /\ From \in [Inbound -> Phones]
  /\ MaxRequests \in Nat /\ MaxLost \in Nat
  /\ None \notin Phones \cup Inbound
  /\ Inbound \cap (Nat \cup (Requests \X Receipts)) = {} /\ None \notin Nat

Statuses == Receipts \cup {"pending", "none"}
Steps == {"idle", "cache", "find", "lead", "send", "thread", "commit", "mark", "done"}

VARIABLES
  cache,         \* Redis keys of handled events
  leadPhone,     \* leads.phone, None: no such lead
  answeredBy,    \* lead -> the reply that set first_response_at
  announced,     \* lead -> lead.first_response_recorded events
  threadLead,    \* conversations.lead_id, None: no such conversation
  open,          \* conversations.status = "active"
  unread,        \* conversations.unread_count
  rowOf,         \* inbound message row -> its external_id
  rowThread,     \* message row -> its conversation, None: no such row
  rowStatus,     \* outbound message row -> its status, "none": no such row
  kind, about, receipt,                    \* what a request is
  at, lead, thread, seenUnread, seenOpen, seenStatus,  \* where it is, what it read
  outcome,       \* reply -> what the provider's answer meant
  late,          \* deliveries that began when their message was on record
  lost           \* requests that died

database == <<leadPhone, answeredBy, announced, threadLead, open, unread,
              rowOf, rowThread, rowStatus>>
request == <<kind, about, receipt>>
locals == <<lead, thread, seenUnread, seenOpen, seenStatus>>
vars == <<cache, database, request, at, locals, outcome, late, lost>>

DatabaseTypes ==
  /\ leadPhone \in [Requests -> Phones \cup {None}]
  /\ answeredBy \in [Requests -> Requests \cup {None}]
  /\ announced \in [Requests -> Nat]
  /\ threadLead \in [Requests -> Requests \cup {None}]
  /\ open \in [Requests -> BOOLEAN]
  /\ unread \in [Requests -> Nat]
  /\ rowOf \in [Requests -> Inbound \cup {None}]
  /\ rowThread \in [Requests -> Requests \cup {None}]
  /\ rowStatus \in [Requests -> Statuses]

RequestTypes ==
  /\ cache \subseteq Inbound \cup (Requests \X Receipts)
  /\ kind \in [Requests -> {"none", "capture", "inbound", "reply", "receipt"}]
  /\ about \in [Requests -> Inbound \cup Requests \cup {None}]
  /\ receipt \in [Requests -> Receipts \cup {"none"}]
  /\ at \in [Requests -> Steps]
  /\ outcome \in [Requests -> {"none", "sent", "pending", "failed"}]
  /\ late \subseteq Requests /\ lost \subseteq Requests

LocalTypes ==
  /\ lead \in [Requests -> Requests \cup {None}]
  /\ thread \in [Requests -> Requests \cup {None}]
  /\ seenUnread \in [Requests -> Nat]
  /\ seenOpen \in [Requests -> BOOLEAN]
  /\ seenStatus \in [Requests -> Statuses]

(* Redis, the tables and the requests hold what their types allow.          *)
TypeOK == DatabaseTypes /\ RequestTypes /\ LocalTypes

Init ==
  /\ cache = {} /\ late = {} /\ lost = {}
  /\ leadPhone = [n \in Requests |-> None] /\ answeredBy = [n \in Requests |-> None]
  /\ announced = [n \in Requests |-> 0] /\ threadLead = [n \in Requests |-> None]
  /\ open = [n \in Requests |-> FALSE] /\ unread = [n \in Requests |-> 0]
  /\ rowOf = [n \in Requests |-> None] /\ rowThread = [n \in Requests |-> None]
  /\ rowStatus = [n \in Requests |-> "none"] /\ kind = [n \in Requests |-> "none"]
  /\ about = [n \in Requests |-> None] /\ receipt = [n \in Requests |-> "none"]
  /\ at = [n \in Requests |-> "idle"] /\ lead = [n \in Requests |-> None]
  /\ thread = [n \in Requests |-> None] /\ seenUnread = [n \in Requests |-> 0]
  /\ seenOpen = [n \in Requests |-> FALSE] /\ seenStatus = [n \in Requests |-> "none"]
  /\ outcome = [n \in Requests |-> "none"]

-----------------------------------------------------------------------------
OnRecord(m) == \E n \in Requests : rowOf[n] = m

(* The next request, in the order transactions start.                       *)
Begin(n, k, a, r, step) ==
  /\ at[n] = "idle"
  /\ \A j \in 1..(n - 1) : at[j] # "idle"
  /\ kind' = [kind EXCEPT ![n] = k]
  /\ about' = [about EXCEPT ![n] = a]
  /\ receipt' = [receipt EXCEPT ![n] = r]
  /\ at' = [at EXCEPT ![n] = step]

(* The provider delivers a customer's message, perhaps again.               *)
DeliverMessage(n, m) ==
  /\ Begin(n, "inbound", m, "none", "cache")
  /\ late' = IF OnRecord(m) THEN late \cup {n} ELSE late
  /\ UNCHANGED <<cache, database, locals, outcome, lost>>

(* It reports on a message it accepted, in any order and perhaps again.     *)
DeliverReceipt(n, r, s) ==
  /\ outcome[r] = "sent"
  /\ Begin(n, "receipt", r, s, "cache")
  /\ UNCHANGED <<cache, database, locals, outcome, late, lost>>

(* A user answers a lead they can see.                                      *)
StartReply(n, l) ==
  /\ leadPhone[l] # None
  /\ Begin(n, "reply", l, "none", "send")
  /\ UNCHANGED <<cache, database, locals, outcome, late, lost>>

(* A lead is entered by hand or by a form; duplicates are only advised of.  *)
Capture(n, p) ==
  /\ Begin(n, "capture", None, "none", "done")
  /\ leadPhone' = [leadPhone EXCEPT ![n] = p]
  /\ UNCHANGED <<cache, answeredBy, announced, threadLead, open, unread, rowOf, rowThread,
                 rowStatus, locals, outcome, late, lost>>

Key(n) == IF kind[n] = "inbound" THEN about[n] ELSE <<about[n], receipt[n]>>

Goto(n, step) == at' = [at EXCEPT ![n] = step]

CheckCache_Claims(n) ==
  /\ at[n] = "cache"
  /\ Goto(n, IF Key(n) \in cache THEN "done" ELSE "find")
  /\ cache' = cache \cup {Key(n)}
  /\ UNCHANGED <<database, request, locals, outcome, late, lost>>

(* The fast path: a key in Redis drops the event.                           *)
CheckCache(n) ==
  /\ at[n] = "cache"
  /\ Goto(n, IF Key(n) \in cache THEN "done" ELSE "find")
  /\ UNCHANGED <<cache, database, request, locals, outcome, late, lost>>

AlreadyIngested_Never(n) == FALSE

AlreadyIngested(n) == OnRecord(about[n])

FindMessage(n) ==
  /\ at[n] = "find" /\ kind[n] = "inbound"
  /\ Goto(n, IF AlreadyIngested(n) THEN "done" ELSE "lead")
  /\ UNCHANGED <<cache, database, request, locals, outcome, late, lost>>

(* The most recently created of the rows, None if there are none.          *)
IsLatest(x, rows) == IF rows = {} THEN x = None ELSE x \in rows /\ \A y \in rows : y <= x

SamePerson_Any(n) == {k \in Requests : leadPhone[k] # None}

SamePerson(n) == {k \in Requests : leadPhone[k] = From[about[n]]}

(* _find_lead_by_phone; None: a lead will be created.                       *)
FindLead(n) ==
  /\ at[n] = "lead"
  /\ \E l \in Requests \cup {None} :
       /\ IsLatest(l, SamePerson(n))
       /\ lead' = [lead EXCEPT ![n] = l]
  /\ Goto(n, "thread")
  /\ UNCHANGED <<cache, database, request, thread, seenUnread, seenOpen, seenStatus, outcome,
                 late, lost>>

(* The provider call, outside any transaction.  A network error or an open  *)
(* circuit leaves the message pending.                                      *)
Send(n, o) ==
  /\ at[n] = "send"
  /\ outcome' = [outcome EXCEPT ![n] = o]
  /\ lead' = [lead EXCEPT ![n] = about[n]]
  /\ Goto(n, "thread")
  /\ UNCHANGED <<cache, database, request, thread, seenUnread, seenOpen, seenStatus, late, lost>>

FreshUnread_One == 1

(* unread_count of a new conversation.                                      *)
FreshUnread == 0

(* conversation_for loads the lead's latest thread.                         *)
FindThread(n) ==
  /\ at[n] = "thread"
  /\ \E t \in Requests \cup {None} :
       /\ IsLatest(t, {k \in Requests : lead[n] # None /\ threadLead[k] = lead[n]})
       /\ thread' = [thread EXCEPT ![n] = t]
       /\ seenUnread' = [seenUnread EXCEPT ![n] = IF t = None THEN FreshUnread ELSE unread[t]]
       /\ seenOpen' = [seenOpen EXCEPT ![n] = IF t = None THEN TRUE ELSE open[t]]
  /\ Goto(n, "commit")
  /\ UNCHANGED <<cache, database, request, lead, seenStatus, outcome, late, lost>>

Forget(n) ==
  /\ lead' = [lead EXCEPT ![n] = None]
  /\ thread' = [thread EXCEPT ![n] = None]
  /\ seenUnread' = [seenUnread EXCEPT ![n] = 0]
  /\ seenOpen' = [seenOpen EXCEPT ![n] = FALSE]
  /\ seenStatus' = [seenStatus EXCEPT ![n] = "none"]

LeadOf(n) == IF lead[n] = None THEN n ELSE lead[n]
ThreadOf(n) == IF thread[n] = None THEN n ELSE thread[n]

(* conversation_for's writes: a new active thread, or a closed one, as it   *)
(* was loaded, reopened.                                                    *)
UseThread(n) ==
  /\ threadLead' = [threadLead EXCEPT ![ThreadOf(n)] = LeadOf(n)]
  /\ open' = [open EXCEPT ![ThreadOf(n)] = IF thread[n] = None \/ ~seenOpen[n] THEN TRUE ELSE @]
  /\ rowThread' = [rowThread EXCEPT ![n] = ThreadOf(n)]

(* The transaction of ingest_inbound_message; first response is asked for   *)
(* and refused (outcome "received").                                        *)
RecordMessage(n) ==
  /\ at[n] = "commit" /\ kind[n] = "inbound"
  /\ leadPhone' = [leadPhone EXCEPT ![n] = IF lead[n] = None THEN From[about[n]] ELSE @]
  /\ UseThread(n)
  /\ unread' = [unread EXCEPT ![ThreadOf(n)] = seenUnread[n] + 1]
  /\ rowOf' = [rowOf EXCEPT ![n] = about[n]]
  /\ Goto(n, "mark")
  /\ Forget(n)
  /\ UNCHANGED <<cache, answeredBy, announced, rowStatus, request, outcome, late, lost>>

(* qualifies_as_first_response of an outbound message.                      *)
Qualifies_Any(o) == TRUE

Qualifies(o) == o = "sent"

(* The conditional UPDATE of record_first_response finds a row.             *)
Answers_Unconditional(n) == Qualifies(outcome[n])

Answers(n) == Qualifies(outcome[n]) /\ answeredBy[LeadOf(n)] = None

RowStatus_Bounced(o) == IF o = "failed" THEN "bounced" ELSE o

(* The status a reply is stored with.                                       *)
RowStatus(o) == o

(* The transaction of reply, after the provider's answer.                   *)
RecordReply(n) ==
  /\ at[n] = "commit" /\ kind[n] = "reply"
  /\ UseThread(n)
  /\ rowStatus' = [rowStatus EXCEPT ![n] = RowStatus(outcome[n])]
  /\ answeredBy' = [answeredBy EXCEPT ![LeadOf(n)] = IF Answers(n) THEN n ELSE @]
  /\ announced' = [announced EXCEPT ![LeadOf(n)] = IF Answers(n) THEN @ + 1 ELSE @]
  /\ Goto(n, "done")
  /\ Forget(n)
  /\ UNCHANGED <<cache, leadPhone, unread, rowOf, request, outcome, late, lost>>

(* ingest_status_update loads the message; one not yet on record is         *)
(* refused.                                                                 *)
FindRow(n) ==
  /\ at[n] = "find" /\ kind[n] = "receipt"
  /\ seenStatus' = [seenStatus EXCEPT ![n] = rowStatus[about[n]]]
  /\ Goto(n, IF rowStatus[about[n]] = "none" THEN "done" ELSE "commit")
  /\ UNCHANGED <<cache, database, request, lead, thread, seenUnread, seenOpen, outcome, late,
                 lost>>

rank == [pending |-> 0, sent |-> 1, delivered |-> 2, read |-> 3, failed |-> 0, none |-> 0]

(* The status the callback writes, judged by the status it loaded.          *)
Moves(seen, s) == IF s = "failed" THEN seen # "failed" ELSE rank[s] > rank[seen]

Written_Read(s) == IF s = "delivered" THEN "read" ELSE s

Written(s) == s

RecordReceipt(n) ==
  /\ at[n] = "commit" /\ kind[n] = "receipt"
  /\ rowStatus' = [rowStatus EXCEPT ![about[n]] =
                     IF Moves(seenStatus[n], receipt[n]) THEN Written(receipt[n]) ELSE @]
  /\ Goto(n, "mark")
  /\ Forget(n)
  /\ UNCHANGED <<cache, leadPhone, answeredBy, announced, threadLead, open, unread, rowOf,
                 rowThread, request, outcome, late, lost>>

(* The event is remembered once it is on record.                            *)
Mark(n) ==
  /\ at[n] = "mark"
  /\ cache' = cache \cup {Key(n)}
  /\ Goto(n, "done")
  /\ UNCHANGED <<database, request, locals, outcome, late, lost>>

(* Redis restarts empty, or the keys' time is up.                           *)
Evict ==
  /\ cache # {}
  /\ cache' = {}
  /\ UNCHANGED <<database, request, at, locals, outcome, late, lost>>

(* A request dies; its open transaction is rolled back.                     *)
Lose(n) ==
  /\ at[n] \notin {"idle", "done"}
  /\ Cardinality(lost) < MaxLost
  /\ lost' = lost \cup {n}
  /\ Goto(n, "done")
  /\ Forget(n)
  /\ UNCHANGED <<cache, database, request, outcome, late>>

(* update_conversation: somebody resolves, archives or reopens the thread.  *)
UpdateThread(t, active) ==
  /\ threadLead[t] # None /\ open[t] # active
  /\ open' = [open EXCEPT ![t] = active]
  /\ UNCHANGED <<cache, leadPhone, answeredBy, announced, threadLead, unread, rowOf, rowThread,
                 rowStatus, request, at, locals, outcome, late, lost>>

MarkRead(t) ==
  /\ unread[t] > 0
  /\ unread' = [unread EXCEPT ![t] = 0]
  /\ UNCHANGED <<cache, leadPhone, answeredBy, announced, threadLead, open, rowOf, rowThread,
                 rowStatus, request, at, locals, outcome, late, lost>>

Progress(n) ==
  \/ CheckCache(n) \/ FindMessage(n) \/ FindLead(n) \/ FindThread(n) \/ RecordMessage(n)
  \/ \E o \in {"sent", "pending", "failed"} : Send(n, o)
  \/ RecordReply(n) \/ FindRow(n) \/ RecordReceipt(n) \/ Mark(n)

Next ==
  \/ \E n \in Requests :
       \/ \E m \in Inbound : DeliverMessage(n, m)
       \/ \E r \in Requests, s \in Receipts : DeliverReceipt(n, r, s)
       \/ \E l \in Requests : StartReply(n, l)
       \/ \E p \in Phones : Capture(n, p)
       \/ Progress(n) \/ Lose(n) \/ MarkRead(n)
       \/ \E active \in BOOLEAN : UpdateThread(n, active)
  \/ Evict

Spec == Init /\ [][Next]_vars

-----------------------------------------------------------------------------
(* What is acknowledged is on record: a delivery that ended without dying   *)
(* left its message in the database, whatever Redis held or forgot and      *)
(* whoever died before (inbound.py:60-77).                                  *)
NothingDropped ==
  \A n \in Requests :
    kind[n] = "inbound" /\ at[n] = "done" /\ n \notin lost => OnRecord(about[n])

(* A redelivery that begins when its message is on record writes nothing,   *)
(* also when Redis lost its keys (whatsapp_ingest.py:102-107).              *)
LateChangesNothing == \A n \in late : rowOf[n] = None

(* Every message is filed under a lead with the sender's number, however    *)
(* lookups and inserts of several customers interleave                      *)
(* (whatsapp_ingest.py:301-333).                                            *)
FiledUnderSender ==
  \A n \in Requests : rowOf[n] # None =>
    leadPhone[threadLead[rowThread[n]]] = From[rowOf[n]]

ReplyOnRecord(n, l) ==
  outcome[n] = "sent" /\ rowThread[n] # None /\ threadLead[rowThread[n]] = l

(* A lead counts as answered exactly when a reply that the provider         *)
(* accepted is on record in one of its threads (first_response.py:3-6).     *)
AnsweredForReal ==
  \A l \in Requests :
    /\ answeredBy[l] # None => ReplyOnRecord(answeredBy[l], l)
    /\ (\E n \in Requests : ReplyOnRecord(n, l)) => answeredBy[l] # None

(* However many users reply at once, one reply is the first and one event   *)
(* announces it (first_response.py:10-14).                                  *)
AnsweredOnce ==
  \A l \in Requests : announced[l] = IF answeredBy[l] = None THEN 0 ELSE 1

(* No delivery is invented: a reply's status is the provider's answer or    *)
(* one the provider reported (whatsapp_ingest.py:407-409).                  *)
StatusWasReported ==
  \A r \in Requests :
    \/ rowStatus[r] \in {"none", outcome[r]}
    \/ \E n \in Requests : kind[n] = "receipt" /\ about[n] = r /\ receipt[n] = rowStatus[r]

(* The unread counter never counts messages the thread does not have, even  *)
(* when concurrent updates overwrite each other (whatsapp_ingest.py:376).   *)
UnreadIsBacked ==
  \A t \in Requests :
    unread[t] <= Cardinality({n \in Requests : rowThread[n] = t /\ rowOf[n] # None})

(* The inbox shows what was sent: messages under their sender, answers that *)
(* were given, delivery states that were reported and an unread counter     *)
(* that counts, whatever is redelivered, reordered or overwritten.          *)
InboxIsTrue ==
  /\ LateChangesNothing /\ FiledUnderSender /\ AnsweredForReal
  /\ StatusWasReported /\ UnreadIsBacked

(* The same event twice changes nothing (whatsapp_ingest.py:22).            *)
RecordedOnce ==
  \A n, k \in Requests : rowOf[n] # None /\ rowOf[n] = rowOf[k] => n = k
=============================================================================
