-------------------------- MODULE MessagingProofs --------------------------
(* WhatsApp conversations for every set of messages and numbers and every   *)
(* bound on requests and losses.                                            *)
EXTENDS Messaging, FiniteSetTheorems, TLAPS

(* A request takes the steps of its kind and is about the right thing.      *)
RequestInv ==
  \A n \in Requests :
    /\ at[n] = "idle" <=> kind[n] = "none"
    /\ kind[n] = "inbound" =>
         /\ about[n] \in Inbound
         /\ at[n] \in {"cache", "find", "lead", "thread", "commit", "mark", "done"}
    /\ kind[n] = "receipt" =>
         /\ about[n] \in Requests /\ receipt[n] \in Receipts
         /\ at[n] \in {"cache", "find", "commit", "mark", "done"}
         /\ at[n] = "commit" => rowStatus[about[n]] # "none"
    /\ kind[n] = "reply" =>
         about[n] \in Requests /\ at[n] \in {"send", "thread", "commit", "done"}
    /\ kind[n] = "capture" => at[n] = "done"

(* A request that has not committed has written no message.                 *)
RowInv ==
  \A n \in Requests : at[n] \notin {"mark", "done"} => rowOf[n] = None /\ rowStatus[n] = "none"

(* What is remembered, or about to be, is on record.                        *)
RecordInv ==
  /\ \A m \in Inbound : m \in cache => OnRecord(m)
  /\ \A n \in Requests : kind[n] = "inbound" /\ at[n] = "mark" => OnRecord(about[n])
  /\ \A n \in late :
       kind[n] = "inbound" /\ OnRecord(about[n]) /\ at[n] \in {"cache", "find", "done"}

(* The inductive invariant.                                                 *)
MessagingInv ==
  /\ TypeOK /\ RequestInv /\ RowInv /\ RecordInv
  /\ NothingDropped /\ LateChangesNothing /\ AnsweredOnce /\ StatusWasReported

(* A message is recorded (whatsapp_ingest.py:265).                          *)
LEMMA RecordMessageStep ==
  ASSUME MessagingInv, NEW n \in Requests, RecordMessage(n)
  PROVE  MessagingInv'
<1> USE DEF MessagingInv, TypeOK
<1>1. LeadOf(n) \in Requests /\ ThreadOf(n) \in Requests
  BY Zenon DEF LocalTypes, LeadOf, ThreadOf
<1>2. /\ threadLead' \in [Requests -> Requests \cup {None}]
      /\ rowThread' \in [Requests -> Requests \cup {None}]
  BY Zenon, <1>1 DEF RecordMessage, UseThread, DatabaseTypes
<1>3. open' \in [Requests -> BOOLEAN]
  <2>1. open \in [Requests -> BOOLEAN] /\ open[ThreadOf(n)] \in BOOLEAN
    BY Zenon, <1>1 DEF DatabaseTypes
  <2>2. PICK b \in BOOLEAN : open' = [open EXCEPT ![ThreadOf(n)] = b]
    BY Zenon, <2>1 DEF RecordMessage, UseThread
  <2> QED
    BY Zenon, <2>1, <2>2
<1>4. LocalTypes'
  <2>1. seenOpen' \in [Requests -> BOOLEAN]
    BY Zenon DEF RecordMessage, Forget, LocalTypes
  <2> QED
    BY Zenon, <2>1 DEF RecordMessage, Forget, LocalTypes, Statuses
<1>5. /\ UNCHANGED <<cache, answeredBy, announced, rowStatus, request, outcome, late, lost>>
      /\ about[n] \in Inbound /\ From[about[n]] \in Phones
      /\ kind[n] = "inbound" /\ at[n] = "commit" /\ rowOf[n] = None
  BY Zenon, MessagingAssumption DEF RecordMessage, RequestInv, RowInv
<1>6. /\ rowOf'[n] = about[n] /\ at'[n] = "mark"
      /\ \A k \in Requests \ {n} : rowOf'[k] = rowOf[k] /\ at'[k] = at[k]
  BY Zenon DEF RecordMessage, Goto, DatabaseTypes, RequestTypes
<1>7. DatabaseTypes' /\ RequestTypes'
  <2>1. /\ leadPhone' \in [Requests -> Phones \cup {None}]
        /\ rowOf' \in [Requests -> Inbound \cup {None}]
        /\ unread' \in [Requests -> Nat]
        /\ at' \in [Requests -> Steps]
    BY <1>1, <1>5 DEF RecordMessage, Goto, DatabaseTypes, RequestTypes, LocalTypes, Steps
  <2> QED
    BY Zenon, <1>2, <1>3, <1>5, <2>1 DEF DatabaseTypes, RequestTypes, request
<1>8. RequestInv' /\ RowInv'
  BY <1>5, <1>6 DEF request, RequestInv, RowInv
<1>9. RecordInv' /\ NothingDropped' /\ LateChangesNothing'
  <2>1. OnRecord(about[n])' /\ n \notin late
    BY Zenon, <1>5, <1>6 DEF OnRecord, RecordInv, request
  <2>2. \A m \in Inbound : OnRecord(m) => OnRecord(m)'
    BY Zenon, <1>5, <1>6, MessagingAssumption DEF OnRecord
  <2>3. \A k \in Requests : kind[k] = "inbound" => about[k] \in Inbound
    BY Zenon DEF RequestInv
  <2> QED
    BY Zenon, <1>5, <1>6, <2>1, <2>2, <2>3 DEF RequestTypes, request, RecordInv, NothingDropped,
       LateChangesNothing
<1>10. AnsweredOnce' /\ StatusWasReported'
  BY Zenon, <1>5 DEF request, AnsweredOnce, StatusWasReported
<1> QED
  BY Zenon, <1>4, <1>7, <1>8, <1>9, <1>10

(* A reply is recorded and, if the provider took it and it is the first,    *)
(* answers its lead (whatsapp_reply.py:98, first_response.py:70).           *)
LEMMA RecordReplyStep ==
  ASSUME MessagingInv, NEW n \in Requests, RecordReply(n)
  PROVE  MessagingInv'
<1> USE DEF MessagingInv, TypeOK
<1>1. LeadOf(n) \in Requests /\ ThreadOf(n) \in Requests
  BY Zenon DEF LocalTypes, LeadOf, ThreadOf
<1>2. /\ threadLead' \in [Requests -> Requests \cup {None}]
      /\ rowThread' \in [Requests -> Requests \cup {None}]
  BY Zenon, <1>1 DEF RecordReply, UseThread, DatabaseTypes
<1>3. open' \in [Requests -> BOOLEAN]
  <2>1. open \in [Requests -> BOOLEAN] /\ open[ThreadOf(n)] \in BOOLEAN
    BY Zenon, <1>1 DEF DatabaseTypes
  <2>2. PICK b \in BOOLEAN : open' = [open EXCEPT ![ThreadOf(n)] = b]
    BY Zenon, <2>1 DEF RecordReply, UseThread
  <2> QED
    BY Zenon, <2>1, <2>2
<1>4. LocalTypes'
  <2>1. seenOpen' \in [Requests -> BOOLEAN]
    BY Zenon DEF RecordReply, Forget, LocalTypes
  <2> QED
    BY Zenon, <2>1 DEF RecordReply, Forget, LocalTypes, Statuses
<1>5. /\ UNCHANGED <<cache, leadPhone, unread, rowOf, request, outcome, late, lost>>
      /\ kind[n] = "reply" /\ at[n] = "commit" /\ n # None /\ rowStatus[n] = "none"
  BY MessagingAssumption DEF RecordReply, Requests, RowInv
<1>6. /\ rowStatus'[n] = outcome[n] /\ at'[n] = "done"
      /\ \A k \in Requests \ {n} : rowStatus'[k] = rowStatus[k] /\ at'[k] = at[k]
  BY Zenon DEF RecordReply, RowStatus, Goto, DatabaseTypes, RequestTypes
<1>7. DatabaseTypes' /\ RequestTypes'
  <2>1. /\ answeredBy' \in [Requests -> Requests \cup {None}]
        /\ announced' \in [Requests -> Nat]
        /\ rowStatus' \in [Requests -> Statuses]
        /\ at' \in [Requests -> Steps]
    BY <1>1 DEF RecordReply, RowStatus, Goto, DatabaseTypes, RequestTypes, Steps, Statuses,
       Receipts
  <2> QED
    BY Zenon, <1>2, <1>3, <1>5, <2>1 DEF DatabaseTypes, RequestTypes, request
<1>8. RequestInv' /\ RowInv'
  BY <1>5, <1>6 DEF request, RequestInv, RowInv
<1>9. RecordInv' /\ NothingDropped' /\ LateChangesNothing'
  BY <1>5, <1>6 DEF RequestTypes, request, OnRecord, RecordInv, NothingDropped,
     LateChangesNothing
<1>10. AnsweredOnce'
  BY <1>1, <1>5 DEF RecordReply, Answers, DatabaseTypes, AnsweredOnce
<1>11. StatusWasReported'
  BY <1>5, <1>6 DEF request, StatusWasReported
<1> QED
  BY Zenon, <1>4, <1>7, <1>8, <1>9, <1>10, <1>11

(* A callback writes the status it reports (whatsapp_ingest.py:448).        *)
LEMMA RecordReceiptStep ==
  ASSUME MessagingInv, NEW n \in Requests, RecordReceipt(n)
  PROVE  MessagingInv'
<1> USE DEF MessagingInv, TypeOK
<1>1. /\ UNCHANGED <<cache, leadPhone, answeredBy, announced, threadLead, open, unread, rowOf,
                     rowThread, request, outcome, late, lost>>
      /\ kind[n] = "receipt" /\ about[n] \in Requests /\ receipt[n] \in Receipts
  BY Zenon DEF RecordReceipt, RequestInv
<1>2. rowStatus' = rowStatus \/ rowStatus' = [rowStatus EXCEPT ![about[n]] = receipt[n]]
  BY Zenon, <1>1 DEF RecordReceipt, Written, DatabaseTypes
<1>3. rowStatus' \in [Requests -> Statuses]
  BY Zenon, <1>1, <1>2 DEF DatabaseTypes, Statuses
<1>4. at'[n] = "mark" /\ \A k \in Requests \ {n} : at'[k] = at[k]
  BY Zenon DEF RecordReceipt, Goto, RequestTypes
<1>5. TypeOK'
  BY <1>1, <1>3 DEF RecordReceipt, Goto, Forget, DatabaseTypes, RequestTypes, LocalTypes, request,
     Steps, Statuses
<1>6. RequestInv'
  BY <1>1, <1>2, <1>4 DEF DatabaseTypes, request, Receipts, RequestInv
<1>7. RowInv'
  BY <1>1, <1>2, <1>4 DEF RecordReceipt, RequestInv, DatabaseTypes, RowInv
<1>8. RecordInv' /\ LateChangesNothing' /\ NothingDropped'
  BY <1>1, <1>4 DEF RequestTypes, request, OnRecord, RecordInv, LateChangesNothing,
     NothingDropped
<1>9. AnsweredOnce' /\ StatusWasReported'
  BY <1>1, <1>2 DEF DatabaseTypes, request, AnsweredOnce, StatusWasReported
<1> QED
  BY Zenon, <1>5, <1>6, <1>7, <1>8, <1>9

(* A new webhook event or reply (inbound.py:43, whatsapp_reply.py:44).      *)
LEMMA BeginStep ==
  ASSUME MessagingInv, NEW n \in Requests,
         \/ \E m \in Inbound : DeliverMessage(n, m)
         \/ \E r \in Requests, s \in Receipts : DeliverReceipt(n, r, s)
         \/ \E l \in Requests : StartReply(n, l)
  PROVE  MessagingInv'
<1> USE DEF MessagingInv, TypeOK
<1>1. /\ UNCHANGED <<cache, database, locals, outcome, lost>>
      /\ at[n] = "idle" /\ kind[n] = "none"
  BY Zenon DEF DeliverMessage, DeliverReceipt, StartReply, Begin, RequestInv
<1>2. DatabaseTypes' /\ LocalTypes' /\ AnsweredOnce'
  BY Zenon, <1>1 DEF DatabaseTypes, database, LocalTypes, locals, AnsweredOnce
<1>3. RequestTypes'
  BY <1>1 DEF DeliverMessage, DeliverReceipt, StartReply, Begin, RequestTypes, Steps
<1>4. RequestInv'
  <2>1. \A k \in Requests \ {n} :
          /\ at'[k] = at[k] /\ kind'[k] = kind[k]
          /\ about'[k] = about[k] /\ receipt'[k] = receipt[k]
    BY DEF DeliverMessage, DeliverReceipt, StartReply, Begin, RequestTypes
  <2>2. \/ kind'[n] = "inbound" /\ about'[n] \in Inbound /\ at'[n] = "cache"
        \/ /\ kind'[n] = "receipt" /\ about'[n] \in Requests
           /\ receipt'[n] \in Receipts /\ at'[n] = "cache"
        \/ kind'[n] = "reply" /\ about'[n] \in Requests /\ at'[n] = "send"
    BY DEF DeliverMessage, DeliverReceipt, StartReply, Begin, RequestTypes
  <2> QED
    BY <1>1, <2>1, <2>2 DEF database, RequestInv
<1>5. RowInv' /\ StatusWasReported'
  BY <1>1 DEF DeliverMessage, DeliverReceipt, StartReply, Begin, RequestTypes, database, RowInv,
     StatusWasReported
<1>6. RecordInv' /\ LateChangesNothing' /\ NothingDropped'
  BY <1>1 DEF DeliverMessage, DeliverReceipt, StartReply, Begin, RequestTypes, database, OnRecord,
     RecordInv, LateChangesNothing, RowInv, NothingDropped
<1> QED
  BY Zenon, <1>2, <1>3, <1>4, <1>5, <1>6

(* A captured lead is a new row (leads/service.py:108).                     *)
LEMMA CaptureStep ==
  ASSUME MessagingInv, NEW n \in Requests, NEW p \in Phones, Capture(n, p)
  PROVE  MessagingInv'
<1> USE DEF MessagingInv, TypeOK
<1>1. /\ UNCHANGED <<cache, answeredBy, announced, threadLead, open, unread, rowOf, rowThread,
                     rowStatus, locals, outcome, late, lost>>
      /\ at[n] = "idle" /\ kind[n] = "none"
  BY Zenon DEF Capture, Begin, RequestInv
<1>2. /\ at'[n] = "done" /\ kind'[n] = "capture"
      /\ \A k \in Requests \ {n} :
           /\ at'[k] = at[k] /\ kind'[k] = kind[k]
           /\ about'[k] = about[k] /\ receipt'[k] = receipt[k]
  BY Zenon DEF Capture, Begin, RequestTypes
<1>3. TypeOK'
  BY Zenon, <1>1 DEF Capture, Begin, DatabaseTypes, RequestTypes, LocalTypes, locals, Steps
<1>4. RequestInv' /\ RowInv'
  BY <1>1, <1>2 DEF RequestInv, RowInv
<1>5. RecordInv' /\ LateChangesNothing' /\ NothingDropped'
  BY <1>1, <1>2 DEF RequestTypes, OnRecord, RecordInv, LateChangesNothing, NothingDropped
<1>6. AnsweredOnce' /\ StatusWasReported'
  BY <1>1, <1>2 DEF AnsweredOnce, StatusWasReported
<1> QED
  BY Zenon, <1>3, <1>4, <1>5, <1>6

(* The provider answers a reply that is not on record yet                   *)
(* (whatsapp_reply.py:83).                                                  *)
LEMMA SendStep ==
  ASSUME MessagingInv, NEW n \in Requests, NEW o \in {"sent", "pending", "failed"}, Send(n, o)
  PROVE  MessagingInv'
<1> USE DEF MessagingInv, TypeOK
<1>1. /\ UNCHANGED <<cache, database, request, late, lost>>
      /\ kind[n] = "reply" /\ about[n] \in Requests /\ rowStatus[n] = "none"
  BY Zenon DEF Send, RequestInv, RowInv, RequestTypes
<1>2. /\ at'[n] = "thread" /\ at[n] = "send"
      /\ \A k \in Requests \ {n} : at'[k] = at[k] /\ outcome'[k] = outcome[k]
  BY Zenon DEF Send, Goto, RequestTypes
<1>3. DatabaseTypes' /\ AnsweredOnce'
  BY Zenon, <1>1 DEF DatabaseTypes, database, AnsweredOnce
<1>4. RequestTypes' /\ LocalTypes'
  BY Zenon, <1>1 DEF Send, Goto, RequestTypes, LocalTypes, request, Steps
<1>5. RequestInv' /\ RowInv'
  BY <1>1, <1>2 DEF database, request, RequestInv, RowInv
<1>6. RecordInv' /\ LateChangesNothing' /\ NothingDropped'
  BY <1>1, <1>2 DEF RequestTypes, database, request, OnRecord, RecordInv, LateChangesNothing,
     NothingDropped
<1>7. StatusWasReported'
  BY Zenon, <1>1, <1>2 DEF database, request, StatusWasReported
<1> QED
  BY Zenon, <1>3, <1>4, <1>5, <1>6, <1>7

(* Of a step that writes no table, only the requests' own state is in       *)
(* question.                                                                *)
LEMMA QuietStep ==
  ASSUME MessagingInv, UNCHANGED <<database, request, outcome, late>>,
         \A k \in Requests : at[k] \in {"mark", "done"} => at'[k] \in {"mark", "done"},
         RequestTypes', LocalTypes', RequestInv', RecordInv', NothingDropped'
  PROVE  MessagingInv'
<1>1. DatabaseTypes'
  BY Zenon DEF MessagingInv, TypeOK, DatabaseTypes, database
<1>2. RowInv' /\ LateChangesNothing' /\ AnsweredOnce'
  BY Zenon DEF MessagingInv, database, RowInv, LateChangesNothing, AnsweredOnce
<1>3. StatusWasReported'
  BY Zenon DEF MessagingInv, database, request, StatusWasReported
<1> QED
  BY Zenon, <1>1, <1>2, <1>3 DEF MessagingInv, TypeOK

(* Looking up the thread (whatsapp_ingest.py:214).                          *)
LEMMA FindThreadStep ==
  ASSUME MessagingInv, NEW n \in Requests, FindThread(n)
  PROVE  MessagingInv'
<1> USE DEF MessagingInv, TypeOK
<1>1. /\ UNCHANGED <<database, request, outcome, late>>
      /\ \A k \in Requests : at[k] \in {"mark", "done"} => at'[k] \in {"mark", "done"}
  BY Zenon DEF FindThread, Goto, RequestTypes
<1>2. RequestTypes' /\ LocalTypes'
  <2>1. PICK t \in Requests \cup {None} :
          /\ thread' = [thread EXCEPT ![n] = t]
          /\ seenUnread' = [seenUnread EXCEPT ![n] = IF t = None THEN FreshUnread ELSE unread[t]]
          /\ seenOpen' = [seenOpen EXCEPT ![n] = IF t = None THEN TRUE ELSE open[t]]
    BY Zenon DEF FindThread
  <2>2. (IF t = None THEN FreshUnread ELSE unread[t]) \in Nat
    BY Zenon DEF DatabaseTypes, FreshUnread
  <2>3. (IF t = None THEN TRUE ELSE open[t]) \in BOOLEAN
    BY Zenon DEF DatabaseTypes
  <2>4. thread' \in [Requests -> Requests \cup {None}] /\ seenUnread' \in [Requests -> Nat]
    BY Zenon, <2>1, <2>2 DEF LocalTypes
  <2>5. seenOpen' \in [Requests -> BOOLEAN]
    BY Zenon, <2>1, <2>3 DEF LocalTypes
  <2>6. RequestTypes'
    BY Zenon, <1>1 DEF FindThread, Goto, RequestTypes, request, Steps
  <2> QED
    BY Zenon, <2>4, <2>5, <2>6 DEF FindThread, LocalTypes
<1>3. RequestInv'
  BY <1>1 DEF FindThread, Goto, RequestTypes, database, request, RequestInv
<1>4. RecordInv' /\ NothingDropped'
  BY <1>1 DEF FindThread, Goto, RequestTypes, database, request, OnRecord, RecordInv,
     NothingDropped, RequestInv
<1> QED
  BY Zenon, <1>1, <1>2, <1>3, <1>4, QuietStep

(* A receipt finds its message or is refused (whatsapp_ingest.py:430).      *)
LEMMA FindRowStep ==
  ASSUME MessagingInv, NEW n \in Requests, FindRow(n)
  PROVE  MessagingInv'
<1> USE DEF MessagingInv, TypeOK
<1>1. /\ UNCHANGED <<database, request, outcome, late>>
      /\ \A k \in Requests : at[k] \in {"mark", "done"} => at'[k] \in {"mark", "done"}
  BY Zenon DEF FindRow, Goto, RequestTypes
<1>2. RequestTypes' /\ LocalTypes'
  BY <1>1 DEF FindRow, Goto, RequestTypes, request, Steps, LocalTypes, locals, DatabaseTypes,
     RequestInv
<1>3. RequestInv'
  BY <1>1 DEF FindRow, Goto, RequestTypes, database, request, RequestInv
<1>4. RecordInv' /\ NothingDropped'
  BY <1>1 DEF FindRow, Goto, RequestTypes, database, request, OnRecord, RecordInv, NothingDropped
<1> QED
  BY Zenon, <1>1, <1>2, <1>3, <1>4, QuietStep

(* An event is remembered (inbound.py:77).                                  *)
LEMMA MarkStep ==
  ASSUME MessagingInv, NEW n \in Requests, Mark(n)
  PROVE  MessagingInv'
<1> USE DEF MessagingInv, TypeOK
<1>1. /\ UNCHANGED <<database, request, outcome, late>>
      /\ \A k \in Requests : at[k] \in {"mark", "done"} => at'[k] \in {"mark", "done"}
  BY Zenon DEF Mark, Goto, RequestTypes
<1>2. RequestTypes' /\ LocalTypes'
  BY <1>1 DEF Mark, Goto, RequestTypes, request, Steps, LocalTypes, locals, Key, RequestInv
<1>3. RequestInv'
  BY <1>1 DEF Mark, Goto, RequestTypes, database, request, RequestInv
<1>4. RecordInv' /\ NothingDropped'
  <2>1. kind[n] = "inbound" \/ kind[n] = "receipt"
    BY Zenon DEF Mark, RequestInv, RequestTypes
  <2>2. CASE kind[n] = "inbound"
    BY <1>1, <2>2 DEF Mark, Goto, RequestTypes, database, request, OnRecord, RecordInv,
       NothingDropped, Key
  <2>3. CASE kind[n] = "receipt"
    <3>1. Key(n) \in Requests \X Receipts
      BY Zenon, <2>3 DEF Key, RequestInv
    <3>2. Key(n) \notin Inbound
      BY Zenon, <3>1, MessagingAssumption
    <3> QED
      BY <1>1, <2>3, <3>2 DEF Mark, Goto, RequestTypes, database, request, OnRecord, RecordInv,
         NothingDropped
  <2> QED
    BY Zenon, <2>1, <2>2, <2>3
<1> QED
  BY Zenon, <1>1, <1>2, <1>3, <1>4, QuietStep

(* A request dies and forgets what it read.                                 *)
LEMMA LoseStep ==
  ASSUME MessagingInv, NEW n \in Requests, Lose(n)
  PROVE  MessagingInv'
<1> USE DEF MessagingInv, TypeOK
<1>1. /\ UNCHANGED <<database, request, outcome, late>>
      /\ \A k \in Requests : at[k] \in {"mark", "done"} => at'[k] \in {"mark", "done"}
  BY Zenon DEF Lose, Goto, RequestTypes
<1>2. RequestTypes' /\ LocalTypes'
  BY <1>1 DEF Lose, Goto, RequestTypes, request, Steps, LocalTypes, locals, Forget, Statuses
<1>3. RequestInv'
  BY <1>1 DEF Lose, Goto, RequestTypes, database, request, RequestInv
<1>4. RecordInv' /\ NothingDropped'
  BY <1>1 DEF Lose, Goto, RequestTypes, database, request, OnRecord, RecordInv, NothingDropped
<1> QED
  BY Zenon, <1>1, <1>2, <1>3, <1>4, QuietStep

(* Looking up the lead (whatsapp_ingest.py:301).                            *)
LEMMA FindLeadStep ==
  ASSUME MessagingInv, NEW n \in Requests, FindLead(n)
  PROVE  MessagingInv'
<1> USE DEF MessagingInv, TypeOK
<1>1. /\ UNCHANGED <<database, request, outcome, late>>
      /\ \A k \in Requests : at[k] \in {"mark", "done"} => at'[k] \in {"mark", "done"}
  BY Zenon DEF FindLead, Goto, RequestTypes
<1>2. RequestTypes' /\ LocalTypes'
  BY <1>1 DEF FindLead, Goto, RequestTypes, request, Steps, LocalTypes, locals
<1>3. RequestInv'
  BY <1>1 DEF FindLead, Goto, RequestTypes, database, request, RequestInv
<1>4. RecordInv' /\ NothingDropped'
  BY <1>1 DEF FindLead, Goto, RequestTypes, database, request, OnRecord, RecordInv,
     NothingDropped, RequestInv
<1> QED
  BY Zenon, <1>1, <1>2, <1>3, <1>4, QuietStep

(* A key that is found stands for a message on record (inbound.py:60).      *)
LEMMA CheckCacheStep ==
  ASSUME MessagingInv, NEW n \in Requests, CheckCache(n)
  PROVE  MessagingInv'
<1> USE DEF MessagingInv, TypeOK
<1>1. /\ UNCHANGED <<database, request, outcome, late>>
      /\ \A k \in Requests : at[k] \in {"mark", "done"} => at'[k] \in {"mark", "done"}
  BY Zenon DEF CheckCache, Goto, RequestTypes
<1>2. RequestTypes' /\ LocalTypes'
  BY Zenon, <1>1 DEF CheckCache, Goto, RequestTypes, request, Steps, LocalTypes, locals
<1>3. RequestInv'
  BY <1>1 DEF CheckCache, Goto, RequestTypes, database, request, RequestInv
<1>4. RecordInv' /\ NothingDropped'
  BY <1>1 DEF CheckCache, Goto, RequestTypes, database, request, OnRecord, RecordInv,
     NothingDropped, Key, RequestInv
<1> QED
  BY Zenon, <1>1, <1>2, <1>3, <1>4, QuietStep

(* A message that is found ends the delivery (whatsapp_ingest.py:298).      *)
LEMMA FindMessageStep ==
  ASSUME MessagingInv, NEW n \in Requests, FindMessage(n)
  PROVE  MessagingInv'
<1> USE DEF MessagingInv, TypeOK
<1>1. /\ UNCHANGED <<database, request, outcome, late>>
      /\ \A k \in Requests : at[k] \in {"mark", "done"} => at'[k] \in {"mark", "done"}
  BY Zenon DEF FindMessage, Goto, RequestTypes
<1>2. RequestTypes' /\ LocalTypes'
  BY Zenon, <1>1 DEF FindMessage, Goto, RequestTypes, request, Steps, LocalTypes, locals
<1>3. RequestInv'
  BY <1>1 DEF FindMessage, Goto, RequestTypes, database, request, RequestInv
<1>4. RecordInv' /\ NothingDropped'
  BY <1>1 DEF FindMessage, Goto, RequestTypes, database, request, OnRecord, RecordInv,
     NothingDropped, AlreadyIngested
<1> QED
  BY Zenon, <1>1, <1>2, <1>3, <1>4, QuietStep

(* Closing, reopening or reading a thread (inbox.py:436, 503).              *)
LEMMA InboxStep ==
  ASSUME MessagingInv, NEW t \in Requests,
         MarkRead(t) \/ \E active \in BOOLEAN : UpdateThread(t, active)
  PROVE  MessagingInv'
<1> USE DEF MessagingInv, TypeOK
<1>1. UNCHANGED <<cache, leadPhone, answeredBy, announced, threadLead, rowOf, rowThread,
   rowStatus,
                  request, at, locals, outcome, late, lost>>
  BY Zenon DEF UpdateThread, MarkRead
<1>2. open' \in [Requests -> BOOLEAN] /\ unread' \in [Requests -> Nat]
  <2>1. ASSUME NEW active \in BOOLEAN, UpdateThread(t, active)
        PROVE  open' \in [Requests -> BOOLEAN] /\ unread' \in [Requests -> Nat]
    <3>1. unread' \in [Requests -> Nat]
      BY Zenon, <2>1 DEF UpdateThread, DatabaseTypes
    <3> QED
      BY Zenon, <2>1, <3>1 DEF UpdateThread, DatabaseTypes
  <2>2. CASE MarkRead(t)
    BY Zenon, <2>2 DEF MarkRead, DatabaseTypes
  <2> QED
    BY Zenon, <2>1, <2>2
<1>3. TypeOK'
  BY Zenon, <1>1, <1>2 DEF DatabaseTypes, RequestTypes, LocalTypes, request, locals
<1>4. RequestInv' /\ RowInv' /\ AnsweredOnce' /\ StatusWasReported'
  BY <1>1 DEF request, RequestInv, RowInv, AnsweredOnce, StatusWasReported
<1>5. RecordInv' /\ NothingDropped' /\ LateChangesNothing'
  BY Zenon, <1>1 DEF request, OnRecord, RecordInv, NothingDropped, LateChangesNothing
<1> QED
  BY Zenon, <1>3, <1>4, <1>5

(* Redis forgets.                                                           *)
LEMMA EvictStep ==
  ASSUME MessagingInv, Evict
  PROVE  MessagingInv'
<1>1. UNCHANGED <<database, request, at, locals, outcome, late, lost>> /\ cache' = {}
  BY Zenon DEF Evict
<1>2. RequestTypes' /\ LocalTypes'
  BY Zenon, <1>1 DEF MessagingInv, TypeOK, RequestTypes, LocalTypes, request, locals
<1>3. RequestInv' /\ RecordInv' /\ NothingDropped'
  BY Zenon, <1>1 DEF MessagingInv, RequestInv, database, request, OnRecord, RecordInv,
     NothingDropped
<1> QED
  BY Zenon, <1>1, <1>2, <1>3, QuietStep

(* The inductive invariant holds in every behaviour, for every set of       *)
(* messages and every bound on requests and losses.                         *)
THEOREM MessagingInvariant == Spec => []MessagingInv
<1>1. Init => MessagingInv
  <2> SUFFICES ASSUME Init PROVE MessagingInv
    OBVIOUS
  <2>1. TypeOK
    BY Zenon DEF Init, TypeOK, DatabaseTypes, RequestTypes, LocalTypes, Steps, Statuses
  <2>2. RequestInv /\ RowInv /\ RecordInv
    BY Zenon DEF Init, RequestInv, RowInv, RecordInv
  <2>3. NothingDropped /\ LateChangesNothing /\ AnsweredOnce /\ StatusWasReported
    BY Zenon DEF Init, NothingDropped, LateChangesNothing, AnsweredOnce, StatusWasReported
  <2> QED
    BY Zenon, <2>1, <2>2, <2>3 DEF MessagingInv
<1>2. MessagingInv /\ [Next]_vars => MessagingInv'
  <2> SUFFICES ASSUME MessagingInv, [Next]_vars PROVE MessagingInv'
    OBVIOUS
  <2>1. ASSUME NEW n \in Requests,
               \/ \E m \in Inbound : DeliverMessage(n, m)
               \/ \E r \in Requests, s \in Receipts : DeliverReceipt(n, r, s)
               \/ \E l \in Requests : StartReply(n, l)
        PROVE  MessagingInv'
    BY Zenon, <2>1, BeginStep
  <2>2. ASSUME NEW n \in Requests, NEW p \in Phones, Capture(n, p) PROVE MessagingInv'
    BY Zenon, <2>2, CaptureStep
  <2>3. ASSUME NEW n \in Requests, Progress(n) PROVE MessagingInv'
    BY Zenon, <2>3, CheckCacheStep, FindMessageStep, FindLeadStep, FindThreadStep,
       RecordMessageStep,
       SendStep, RecordReplyStep, FindRowStep, RecordReceiptStep, MarkStep DEF Progress
  <2>4. ASSUME NEW n \in Requests, Lose(n) PROVE MessagingInv'
    BY Zenon, <2>4, LoseStep
  <2>5. ASSUME NEW t \in Requests,
               MarkRead(t) \/ \E active \in BOOLEAN : UpdateThread(t, active)
        PROVE  MessagingInv'
    BY Zenon, <2>5, InboxStep
  <2>6. CASE Evict
    BY Zenon, <2>6, EvictStep
  <2>7. CASE UNCHANGED vars
    <3>1. UNCHANGED <<cache, database, request, at, locals, outcome, late, lost>>
      BY Zenon, <2>7 DEF vars
    <3>2. RequestTypes' /\ LocalTypes'
      BY Zenon, <3>1 DEF MessagingInv, TypeOK, RequestTypes, LocalTypes, request, locals
    <3>3. RequestInv' /\ RecordInv' /\ NothingDropped'
      BY Zenon, <3>1 DEF MessagingInv, RequestInv, database, request, RecordInv, OnRecord,
         NothingDropped
    <3> QED
      BY Zenon, <3>1, <3>2, <3>3, QuietStep
  <2> QED
    BY Zenon, <2>1, <2>2, <2>3, <2>4, <2>5, <2>6, <2>7 DEF Next
<1> QED
  BY <1>1, <1>2, PTL DEF Spec

(* Every variable keeps its type.                                           *)
THEOREM TypeCorrect == Spec => []TypeOK
<1>1. MessagingInv => TypeOK
  BY Zenon DEF MessagingInv
<1> QED
  BY <1>1, MessagingInvariant, PTL

(* What the webhook acknowledges without dying is in the database,          *)
(* whatever Redis forgets (inbound.py:60-77).                               *)
THEOREM AcknowledgedIsRecorded == Spec => []NothingDropped
<1>1. MessagingInv => NothingDropped
  BY Zenon DEF MessagingInv
<1> QED
  BY <1>1, MessagingInvariant, PTL

(* A redelivery that begins after its message is on record writes nothing   *)
(* (whatsapp_ingest.py:298).                                                *)
THEOREM RedeliveryIsIdle == Spec => []LateChangesNothing
<1>1. MessagingInv => LateChangesNothing
  BY Zenon DEF MessagingInv
<1> QED
  BY <1>1, MessagingInvariant, PTL

(* The first response is announced once (application/leads/                 *)
(* first_response.py:70).                                                   *)
THEOREM FirstAnswerOnce == Spec => []AnsweredOnce
<1>1. MessagingInv => AnsweredOnce
  BY Zenon DEF MessagingInv
<1> QED
  BY <1>1, MessagingInvariant, PTL

(* Every status is the provider's answer or one of its reports              *)
(* (whatsapp_ingest.py:404).                                                *)
THEOREM StatusIsReported == Spec => []StatusWasReported
<1>1. MessagingInv => StatusWasReported
  BY Zenon DEF MessagingInv
<1> QED
  BY <1>1, MessagingInvariant, PTL
-----------------------------------------------------------------------------
(* Messages are filed under their sender and answers are real: leads and    *)
(* threads are written once, by the request whose number they carry, and a  *)
(* request holds only a lead of its sender and a thread of that lead.       *)
Committing(n) == at[n] = "commit" /\ kind[n] \in {"inbound", "reply"}

WritesOnce ==
  \A n \in Requests :
    at[n] \notin {"mark", "done"} =>
      leadPhone[n] = None /\ threadLead[n] = None /\ rowThread[n] = None
InThread ==
  \A n \in Requests :
    /\ rowThread[n] # None => threadLead[rowThread[n]] # None
    /\ rowOf[n] # None => rowThread[n] # None
OutcomeOfReply == \A n \in Requests : outcome[n] # "none" => kind[n] = "reply"
LeadOfSender ==
  \A n \in Requests : at[n] \in {"thread", "commit"} =>
    /\ kind[n] = "inbound" /\ lead[n] # None => leadPhone[lead[n]] = From[about[n]]
    /\ kind[n] = "reply" => lead[n] = about[n]
ThreadOfLead ==
  \A n \in Requests :
    Committing(n) /\ thread[n] # None => lead[n] # None /\ threadLead[thread[n]] = lead[n]

FiledInv ==
  /\ WritesOnce /\ InThread /\ OutcomeOfReply /\ LeadOfSender /\ ThreadOfLead
  /\ FiledUnderSender /\ AnsweredForReal

(* What the arguments below need of the types and the assumptions.          *)
LEMMA InboxTypes ==
  ASSUME MessagingInv
  PROVE  /\ None \notin Requests /\ None \notin Phones /\ None \notin Inbound
         /\ From \in [Inbound -> Phones]
         /\ rowThread \in [Requests -> Requests \cup {None}]
         /\ threadLead \in [Requests -> Requests \cup {None}]
         /\ lead \in [Requests -> Requests \cup {None}]
         /\ thread \in [Requests -> Requests \cup {None}]
         /\ rowOf \in [Requests -> Inbound \cup {None}]
         /\ answeredBy \in [Requests -> Requests \cup {None}]
         /\ leadPhone \in [Requests -> Phones \cup {None}]
         /\ at \in [Requests -> Steps]
         /\ kind \in [Requests -> {"none", "capture", "inbound", "reply", "receipt"}]
         /\ seenUnread \in [Requests -> Nat]
<1>1. None \notin Requests /\ None \notin Phones /\ None \notin Inbound
  BY MessagingAssumption DEF Requests
<1> QED
  BY Zenon, <1>1, MessagingAssumption DEF MessagingInv, TypeOK, DatabaseTypes, LocalTypes,
     RequestTypes

(* Both recording transactions put the row in a thread of its lead and      *)
(* leave the other threads alone.                                           *)
LEMMA UseThreadFiles ==
  ASSUME MessagingInv, FiledInv, NEW n \in Requests, Committing(n), UseThread(n)
  PROVE  /\ ThreadOf(n) \in Requests /\ LeadOf(n) \in Requests
         /\ rowThread[n] = None /\ rowThread'[n] = ThreadOf(n)
         /\ threadLead'[ThreadOf(n)] = LeadOf(n)
         /\ \A k \in Requests \ {n} : rowThread'[k] = rowThread[k]
         /\ \A t \in Requests : threadLead[t] # None => threadLead'[t] = threadLead[t]
         /\ \A t \in Requests \ {n} : threadLead'[t] = threadLead[t]
<1>1. /\ ThreadOf(n) \in Requests /\ LeadOf(n) \in Requests
      /\ threadLead \in [Requests -> Requests \cup {None}]
      /\ rowThread \in [Requests -> Requests \cup {None}]
  BY Zenon, InboxTypes DEF ThreadOf, LeadOf
<1>2. /\ threadLead' = [threadLead EXCEPT ![ThreadOf(n)] = LeadOf(n)]
      /\ rowThread' = [rowThread EXCEPT ![n] = ThreadOf(n)]
  BY Zenon DEF UseThread
<1>3. rowThread[n] = None /\ threadLead[n] = None
  BY Zenon DEF FiledInv, WritesOnce, Committing
<1>4. thread[n] # None => threadLead[ThreadOf(n)] = LeadOf(n)
  BY Zenon DEF FiledInv, ThreadOfLead, ThreadOf, LeadOf
<1>5. thread[n] = None => ThreadOf(n) = n
  BY Zenon DEF ThreadOf
<1> QED
  BY Zenon, <1>1, <1>2, <1>3, <1>4, <1>5

(* The lead of a new thread has the sender's number, and no row moves.      *)
LEMMA MessageIsFiled ==
  ASSUME MessagingInv, FiledInv, NEW n \in Requests, RecordMessage(n)
  PROVE  FiledInv'
<1>1. Committing(n) /\ UseThread(n) /\ kind[n] = "inbound" /\ about[n] \in Inbound
  BY Zenon DEF RecordMessage, Committing, MessagingInv, RequestInv
<1>2. /\ ThreadOf(n) \in Requests /\ LeadOf(n) \in Requests
      /\ rowThread[n] = None /\ rowThread'[n] = ThreadOf(n)
      /\ threadLead'[ThreadOf(n)] = LeadOf(n)
      /\ \A k \in Requests \ {n} : rowThread'[k] = rowThread[k]
      /\ \A t \in Requests : threadLead[t] # None => threadLead'[t] = threadLead[t]
      /\ \A t \in Requests \ {n} : threadLead'[t] = threadLead[t]
  BY Zenon, <1>1, UseThreadFiles
<1>3. leadPhone[n] = None /\ outcome[n] = "none"
  BY Zenon, <1>1 DEF FiledInv, WritesOnce, OutcomeOfReply, Committing
<1>4. /\ leadPhone'[LeadOf(n)] = From[about[n]]
      /\ \A l \in Requests : leadPhone[l] # None => leadPhone'[l] = leadPhone[l]
      /\ \A l \in Requests \ {n} : leadPhone'[l] = leadPhone[l]
  <2>1. leadPhone' = [leadPhone EXCEPT ![n] = IF lead[n] = None THEN From[about[n]] ELSE @]
    BY DEF RecordMessage
  <2>2. lead[n] # None => leadPhone[lead[n]] = From[about[n]]
    BY Zenon, <1>1 DEF FiledInv, LeadOfSender, Committing
  <2> QED
    BY Zenon, <1>2, <1>3, <2>1, <2>2, InboxTypes DEF LeadOf
<1>5. /\ rowOf'[n] = about[n] /\ at'[n] = "mark" /\ lead'[n] = None /\ thread'[n] = None
      /\ \A k \in Requests \ {n} :
           rowOf'[k] = rowOf[k] /\ at'[k] = at[k] /\ lead'[k] = lead[k] /\ thread'[k] = thread[k]
      /\ kind' = kind /\ about' = about /\ outcome' = outcome /\ answeredBy' = answeredBy
  BY Zenon, InboxTypes DEF RecordMessage, Goto, Forget, request
<1>6. WritesOnce'
  BY <1>2, <1>4, <1>5 DEF FiledInv, WritesOnce
<1>7. InThread'
  BY <1>2, <1>5, InboxTypes DEF FiledInv, InThread
<1>8. OutcomeOfReply'
  BY Zenon, <1>5 DEF FiledInv, OutcomeOfReply
<1>9. LeadOfSender'
  <2> SUFFICES ASSUME NEW k \in Requests, at'[k] \in {"thread", "commit"}
               PROVE  /\ kind[k] = "inbound" /\ lead'[k] # None =>
                           leadPhone'[lead'[k]] = From[about[k]]
                      /\ kind[k] = "reply" => lead'[k] = about[k]
    BY Zenon, <1>5 DEF LeadOfSender
  <2>1. k # n /\ lead'[k] = lead[k] /\ at[k] \in {"thread", "commit"}
    BY Zenon, <1>5
  <2>2. kind[k] = "reply" => lead[k] = about[k]
    BY Zenon, <2>1 DEF FiledInv, LeadOfSender
  <2>3. ASSUME kind[k] = "inbound", lead[k] # None
        PROVE  leadPhone'[lead[k]] = From[about[k]]
    <3>1. about[k] \in Inbound
      BY Zenon, <2>3 DEF MessagingInv, RequestInv
    <3>2. leadPhone[lead[k]] = From[about[k]]
      BY Zenon, <2>1, <2>3 DEF FiledInv, LeadOfSender
    <3> QED
      BY <1>4, <2>3, <3>1, <3>2, InboxTypes
  <2> QED
    BY Zenon, <2>1, <2>2, <2>3
<1>10. ThreadOfLead'
  BY <1>2, <1>5, InboxTypes DEF FiledInv, ThreadOfLead, Committing
<1>11. FiledUnderSender'
  <2> SUFFICES ASSUME NEW k \in Requests, rowOf'[k] # None
               PROVE  leadPhone'[threadLead'[rowThread'[k]]] = From[rowOf'[k]]
    BY Zenon DEF FiledUnderSender
  <2>1. CASE k = n
    BY Zenon, <1>2, <1>4, <1>5, <2>1
  <2>2. CASE k # n
    <3>1. /\ rowOf'[k] = rowOf[k] /\ rowThread'[k] = rowThread[k] /\ rowThread[k] \in Requests
          /\ threadLead[rowThread[k]] \in Requests
      BY <1>2, <1>5, <2>2, InboxTypes DEF FiledInv, InThread
    <3>2. leadPhone[threadLead[rowThread[k]]] = From[rowOf[k]] /\ From[rowOf[k]] \in Phones
      BY Zenon, <3>1, InboxTypes DEF FiledInv, FiledUnderSender
    <3>3. threadLead'[rowThread[k]] = threadLead[rowThread[k]]
      BY Zenon, <1>2, <3>1, InboxTypes
    <3> QED
      BY Zenon, <1>4, <3>1, <3>2, <3>3, InboxTypes
  <2> QED
    BY Zenon, <2>1, <2>2
<1>12. \A k, l \in Requests : ReplyOnRecord(k, l)' <=> ReplyOnRecord(k, l)
  <2> SUFFICES ASSUME NEW k \in Requests, NEW l \in Requests
               PROVE  ReplyOnRecord(k, l)' <=> ReplyOnRecord(k, l)
    OBVIOUS
  <2>1. CASE k = n
    BY Zenon, <1>3, <1>5, <2>1 DEF ReplyOnRecord
  <2>2. CASE k # n
    BY <1>2, <1>5, <2>2, InboxTypes DEF ReplyOnRecord, FiledInv, InThread
  <2> QED
    BY Zenon, <2>1, <2>2
<1>13. AnsweredForReal'
  BY Zenon, <1>5, <1>12, InboxTypes DEF FiledInv, AnsweredForReal
<1> QED
  BY Zenon, <1>6, <1>7, <1>8, <1>9, <1>10, <1>11, <1>13 DEF FiledInv

(* A reply counts as the first answer exactly when none was recorded yet.   *)
LEMMA ReplyIsFiled ==
  ASSUME MessagingInv, FiledInv, NEW n \in Requests, RecordReply(n)
  PROVE  FiledInv'
<1>1. Committing(n) /\ UseThread(n) /\ kind[n] = "reply"
  BY Zenon DEF RecordReply, Committing
<1>2. /\ ThreadOf(n) \in Requests /\ LeadOf(n) \in Requests
      /\ rowThread[n] = None /\ rowThread'[n] = ThreadOf(n)
      /\ threadLead'[ThreadOf(n)] = LeadOf(n)
      /\ \A k \in Requests \ {n} : rowThread'[k] = rowThread[k]
      /\ \A t \in Requests : threadLead[t] # None => threadLead'[t] = threadLead[t]
      /\ \A t \in Requests \ {n} : threadLead'[t] = threadLead[t]
  BY Zenon, <1>1, UseThreadFiles
<1>3. /\ at'[n] = "done" /\ lead'[n] = None /\ thread'[n] = None
      /\ \A k \in Requests \ {n} :
           at'[k] = at[k] /\ lead'[k] = lead[k] /\ thread'[k] = thread[k]
      /\ kind' = kind /\ about' = about /\ outcome' = outcome
      /\ leadPhone' = leadPhone /\ rowOf' = rowOf
  BY Zenon, InboxTypes DEF RecordReply, Goto, Forget, request
<1>4. rowOf[n] = None
  BY Zenon, <1>1 DEF MessagingInv, RowInv, Committing
<1>5. WritesOnce'
  BY Zenon, <1>2, <1>3 DEF FiledInv, WritesOnce
<1>6. InThread'
  BY <1>2, <1>3, InboxTypes DEF FiledInv, InThread
<1>7. OutcomeOfReply' /\ LeadOfSender'
  BY Zenon, <1>3 DEF FiledInv, OutcomeOfReply, LeadOfSender
<1>8. ThreadOfLead'
  BY <1>2, <1>3, InboxTypes DEF FiledInv, ThreadOfLead, Committing
<1>9. FiledUnderSender'
  BY <1>2, <1>3, <1>4, InboxTypes DEF FiledInv, InThread, FiledUnderSender
<1>10. \A k, l \in Requests :
         ReplyOnRecord(k, l)' <=> ReplyOnRecord(k, l) \/ (k = n /\ l = LeadOf(n) /\ outcome[n] = "sent")
  <2> SUFFICES ASSUME NEW k \in Requests, NEW l \in Requests
               PROVE  ReplyOnRecord(k, l)' <=>
                        ReplyOnRecord(k, l) \/ (k = n /\ l = LeadOf(n) /\ outcome[n] = "sent")
    OBVIOUS
  <2>1. CASE k = n
    BY <1>2, <1>3, <2>1, InboxTypes DEF ReplyOnRecord
  <2>2. CASE k # n
    BY SMTT(30), <1>2, <1>3, <2>2, InboxTypes DEF ReplyOnRecord, FiledInv, InThread
  <2> QED
    BY Zenon, <2>1, <2>2
<1>11. AnsweredForReal'
  <2>1. answeredBy' = [answeredBy EXCEPT ![LeadOf(n)] =
                         IF outcome[n] = "sent" /\ answeredBy[LeadOf(n)] = None THEN n ELSE @]
    BY Zenon DEF RecordReply, Answers, Qualifies
  <2>2. /\ \A l \in Requests \ {LeadOf(n)} : answeredBy'[l] = answeredBy[l]
        /\ answeredBy'[LeadOf(n)] = IF outcome[n] = "sent" /\ answeredBy[LeadOf(n)] = None
                                      THEN n ELSE answeredBy[LeadOf(n)]
    BY Zenon, <1>2, <2>1, InboxTypes
  <2> QED
    BY <1>2, <1>10, <2>2, InboxTypes DEF FiledInv, AnsweredForReal
<1> QED
  BY Zenon, <1>5, <1>6, <1>7, <1>8, <1>9, <1>11 DEF FiledInv

(* Of a step that files nothing, only what the requests hold is in question. *)
LEMMA FiledElsewhere ==
  ASSUME MessagingInv, FiledInv, LeadOfSender', ThreadOfLead',
         UNCHANGED <<leadPhone, answeredBy, threadLead, rowOf, rowThread, kind, about>>,
         \A n \in Requests : at[n] \in {"mark", "done"} => at'[n] \in {"mark", "done"},
         \A n \in Requests : outcome'[n] = outcome[n] \/ (kind[n] = "reply" /\ rowThread[n] = None)
  PROVE  FiledInv'
<1>1. WritesOnce' /\ InThread'
  BY Zenon DEF FiledInv, WritesOnce, InThread
<1>2. OutcomeOfReply'
  BY Zenon DEF FiledInv, OutcomeOfReply
<1>3. FiledUnderSender'
  BY Zenon DEF FiledInv, FiledUnderSender
<1>4. \A n, l \in Requests : ReplyOnRecord(n, l)' <=> ReplyOnRecord(n, l)
  BY Zenon, InboxTypes DEF ReplyOnRecord
<1>5. AnsweredForReal'
  BY Zenon, <1>4, InboxTypes DEF FiledInv, AnsweredForReal
<1> QED
  BY Zenon, <1>1, <1>2, <1>3, <1>5 DEF FiledInv

(* A request holds a lead of its sender, and a thread of its lead.          *)
LEMMA LookupsAreFiled ==
  ASSUME MessagingInv, FiledInv, NEW n \in Requests, FindLead(n) \/ FindThread(n)
  PROVE  FiledInv'
<1>1. CASE FindLead(n)
  <2>1. PICK l \in Requests \cup {None} :
          IsLatest(l, SamePerson(n)) /\ lead' = [lead EXCEPT ![n] = l]
    BY Zenon, <1>1 DEF FindLead
  <2>2. l # None => leadPhone[l] = From[about[n]]
    BY Zenon, <2>1 DEF IsLatest, SamePerson
  <2>3. /\ at[n] = "lead" /\ lead'[n] = l /\ at'[n] = "thread"
        /\ \A k \in Requests \ {n} : lead'[k] = lead[k] /\ at'[k] = at[k]
        /\ UNCHANGED <<leadPhone, answeredBy, threadLead, rowOf, rowThread, kind, about, outcome,
                       thread>>
    BY Zenon, <1>1, <2>1, InboxTypes DEF FindLead, Goto, request, database
  <2>4. kind[n] # "reply"
    BY Zenon, <2>3 DEF MessagingInv, RequestInv
  <2>5. LeadOfSender'
    BY Zenon, <2>2, <2>3, <2>4 DEF FiledInv, LeadOfSender
  <2>6. ThreadOfLead'
    BY Zenon, <2>3 DEF FiledInv, ThreadOfLead, Committing
  <2> QED
    BY Zenon, <2>3, <2>5, <2>6, FiledElsewhere
<1>2. CASE FindThread(n)
  <2>1. PICK t \in Requests \cup {None} :
          /\ IsLatest(t, {k \in Requests : lead[n] # None /\ threadLead[k] = lead[n]})
          /\ thread' = [thread EXCEPT ![n] = t]
    BY Zenon, <1>2 DEF FindThread
  <2>2. t # None => lead[n] # None /\ threadLead[t] = lead[n]
    BY Zenon, <2>1 DEF IsLatest
  <2>3. /\ at[n] = "thread" /\ thread'[n] = t /\ at'[n] = "commit"
        /\ \A k \in Requests \ {n} : thread'[k] = thread[k] /\ at'[k] = at[k]
        /\ UNCHANGED <<leadPhone, answeredBy, threadLead, rowOf, rowThread, kind, about, outcome,
                       lead>>
    BY Zenon, <1>2, <2>1, InboxTypes DEF FindThread, Goto, request, database
  <2>4. LeadOfSender'
    BY Zenon, <2>3 DEF FiledInv, LeadOfSender
  <2>5. ThreadOfLead'
    BY Zenon, <2>2, <2>3 DEF FiledInv, ThreadOfLead, Committing
  <2> QED
    BY Zenon, <2>3, <2>4, <2>5, FiledElsewhere
<1> QED
  BY Zenon, <1>1, <1>2

(* The provider's answer comes before the reply is on record.               *)
LEMMA SendIsFiled ==
  ASSUME MessagingInv, FiledInv, NEW n \in Requests, NEW o \in {"sent", "pending", "failed"},
         Send(n, o)
  PROVE  FiledInv'
<1>1. /\ at[n] = "send" /\ lead'[n] = about[n] /\ at'[n] = "thread"
      /\ \A k \in Requests \ {n} :
           lead'[k] = lead[k] /\ at'[k] = at[k] /\ outcome'[k] = outcome[k]
      /\ UNCHANGED <<leadPhone, answeredBy, threadLead, rowOf, rowThread, kind, about, thread>>
  BY Zenon, InboxTypes DEF Send, Goto, request, database, MessagingInv, TypeOK, RequestTypes,
     LocalTypes
<1>2. kind[n] = "reply"
  BY <1>1 DEF MessagingInv, RequestInv, TypeOK, RequestTypes
<1>3. rowThread[n] = None
  BY Zenon, <1>1 DEF FiledInv, WritesOnce
<1>4. LeadOfSender'
  BY Zenon, <1>1, <1>2 DEF FiledInv, LeadOfSender
<1>5. ThreadOfLead'
  BY Zenon, <1>1 DEF FiledInv, ThreadOfLead, Committing
<1> QED
  BY Zenon, <1>1, <1>2, <1>3, <1>4, <1>5, FiledElsewhere

(* A request that begins holds nothing yet.                                 *)
LEMMA BeginIsFiled ==
  ASSUME MessagingInv, FiledInv, NEW n \in Requests,
         \/ \E m \in Inbound : DeliverMessage(n, m)
         \/ \E r \in Requests, s \in Receipts : DeliverReceipt(n, r, s)
         \/ \E l \in Requests : StartReply(n, l)
  PROVE  FiledInv'
<1>1. /\ at[n] = "idle" /\ at'[n] \in {"cache", "send"}
      /\ \A k \in Requests \ {n} : at'[k] = at[k] /\ kind'[k] = kind[k] /\ about'[k] = about[k]
      /\ UNCHANGED <<database, locals, outcome>>
  BY InboxTypes DEF DeliverMessage, DeliverReceipt, StartReply, Begin, MessagingInv, TypeOK,
     RequestTypes
<1>2. outcome[n] = "none"
  BY Zenon, <1>1 DEF MessagingInv, RequestInv, FiledInv, OutcomeOfReply
<1>3. WritesOnce' /\ InThread'
  BY Zenon, <1>1 DEF FiledInv, WritesOnce, InThread, database
<1>4. OutcomeOfReply' /\ LeadOfSender' /\ ThreadOfLead'
  BY <1>1, <1>2 DEF FiledInv, OutcomeOfReply, LeadOfSender, ThreadOfLead, Committing, database,
     locals
<1>5. FiledUnderSender' /\ AnsweredForReal'
  BY Zenon, <1>1 DEF FiledInv, FiledUnderSender, AnsweredForReal, ReplyOnRecord, database
<1> QED
  BY Zenon, <1>3, <1>4, <1>5 DEF FiledInv

(* A captured lead is new, so no message was filed under it.                *)
LEMMA CaptureIsFiled ==
  ASSUME MessagingInv, FiledInv, NEW n \in Requests, NEW p \in Phones, Capture(n, p)
  PROVE  FiledInv'
<1>1. /\ at[n] = "idle" /\ at'[n] = "done"
      /\ \A k \in Requests \ {n} : /\ at'[k] = at[k] /\ kind'[k] = kind[k] /\ about'[k] = about[k]
                                   /\ leadPhone'[k] = leadPhone[k]
      /\ UNCHANGED <<answeredBy, threadLead, rowOf, rowThread, locals, outcome>>
  BY Zenon, InboxTypes DEF Capture, Begin, MessagingInv, TypeOK, RequestTypes
<1>2. leadPhone[n] = None
  BY Zenon, <1>1 DEF FiledInv, WritesOnce
<1>3. \A l \in Requests : leadPhone[l] # None => leadPhone'[l] = leadPhone[l]
  BY Zenon, <1>1, <1>2
<1>4. outcome[n] = "none"
  BY Zenon, <1>1 DEF MessagingInv, RequestInv, FiledInv, OutcomeOfReply
<1>5. WritesOnce' /\ InThread' /\ OutcomeOfReply'
  BY Zenon, <1>1, <1>4 DEF FiledInv, WritesOnce, InThread, OutcomeOfReply
<1>6. LeadOfSender'
  <2> SUFFICES ASSUME NEW k \in Requests \ {n}, at[k] \in {"thread", "commit"}
               PROVE  /\ kind[k] = "inbound" /\ lead[k] # None =>
                           leadPhone'[lead[k]] = From[about[k]]
                      /\ kind[k] = "reply" => lead[k] = about[k]
    BY <1>1 DEF LeadOfSender, locals
  <2>1. kind[k] = "inbound" => about[k] \in Inbound
    BY Zenon DEF MessagingInv, RequestInv
  <2>2. /\ kind[k] = "inbound" /\ lead[k] # None => leadPhone[lead[k]] = From[about[k]]
        /\ kind[k] = "reply" => lead[k] = about[k]
    BY Zenon DEF FiledInv, LeadOfSender
  <2> QED
    BY <1>3, <2>1, <2>2, InboxTypes
<1>7. ThreadOfLead'
  BY Zenon, <1>1 DEF FiledInv, ThreadOfLead, Committing, locals
<1>8. FiledUnderSender'
  <2> SUFFICES ASSUME NEW k \in Requests, rowOf[k] # None
               PROVE  leadPhone'[threadLead[rowThread[k]]] = From[rowOf[k]]
    BY Zenon, <1>1 DEF FiledUnderSender
  <2>1. rowThread[k] \in Requests /\ threadLead[rowThread[k]] \in Requests
    BY Zenon, InboxTypes DEF FiledInv, InThread
  <2>2. leadPhone[threadLead[rowThread[k]]] = From[rowOf[k]] /\ From[rowOf[k]] \in Phones
    BY Zenon, InboxTypes DEF FiledInv, FiledUnderSender
  <2> QED
    BY Zenon, <1>3, <2>1, <2>2, InboxTypes
<1>9. AnsweredForReal'
  BY Zenon, <1>1 DEF FiledInv, AnsweredForReal, ReplyOnRecord
<1> QED
  BY Zenon, <1>5, <1>6, <1>7, <1>8, <1>9 DEF FiledInv

(* The steps that look up, remember, forget or note a status.               *)
LEMMA QuietIsFiled ==
  ASSUME MessagingInv, FiledInv, NEW n \in Requests,
         \/ CheckCache(n) \/ FindMessage(n) \/ FindRow(n)
         \/ RecordReceipt(n) \/ Mark(n) \/ Lose(n)
  PROVE  FiledInv'
<1>1. UNCHANGED <<leadPhone, answeredBy, threadLead, rowOf, rowThread, kind, about, outcome>>
  BY Zenon DEF CheckCache, FindMessage, FindRow, RecordReceipt, Mark, Lose, database, request
<1>2. \A k \in Requests \ {n} : lead'[k] = lead[k] /\ thread'[k] = thread[k]
  BY Zenon, InboxTypes DEF CheckCache, FindMessage, FindRow, RecordReceipt, Mark, Lose, Forget,
     locals
<1>3. /\ \A k \in Requests \ {n} : at'[k] = at[k]
      /\ at[n] \in {"mark", "done"} => at'[n] \in {"mark", "done"}
      /\ at'[n] \in {"find", "lead", "done", "mark"} \/ (at'[n] = "commit" /\ kind[n] = "receipt")
  BY Zenon, InboxTypes DEF CheckCache, FindMessage, FindRow, RecordReceipt, Mark, Lose, Goto
<1>4. LeadOfSender'
  BY <1>1, <1>2, <1>3 DEF FiledInv, LeadOfSender
<1>5. ThreadOfLead'
  BY Zenon, <1>1, <1>2, <1>3 DEF FiledInv, ThreadOfLead, Committing
<1>6. \A k \in Requests : at[k] \in {"mark", "done"} => at'[k] \in {"mark", "done"}
  BY Zenon, <1>3
<1> QED
  BY Zenon, <1>1, <1>4, <1>5, <1>6, FiledElsewhere

(* The inbox's own actions file nothing.                                    *)
LEMMA OthersAreFiled ==
  ASSUME MessagingInv, FiledInv,
         \/ Evict \/ UNCHANGED vars
         \/ \E t \in Requests : MarkRead(t) \/ \E active \in BOOLEAN : UpdateThread(t, active)
  PROVE  FiledInv'
<1>1. UNCHANGED <<leadPhone, answeredBy, threadLead, rowOf, rowThread, kind, about, at, lead,
                  thread, outcome>>
  BY Zenon DEF Evict, vars, MarkRead, UpdateThread, database, request, locals
<1>2. LeadOfSender' /\ ThreadOfLead'
  BY Zenon, <1>1 DEF FiledInv, LeadOfSender, ThreadOfLead, Committing
<1> QED
  BY Zenon, <1>1, <1>2, FiledElsewhere

(* The counter of a thread, and what a request read of it, are bounded by   *)
(* the customers' messages on record in it.                                 *)
Received(t) == {n \in Requests : rowThread[n] = t /\ rowOf[n] # None}

UnreadInv ==
  /\ \A t \in Requests : unread[t] <= Cardinality(Received(t))
  /\ \A n \in Requests : Committing(n) /\ thread[n] = None => seenUnread[n] = 0
  /\ \A n, t \in Requests :
       Committing(n) /\ thread[n] = t => seenUnread[n] <= Cardinality(Received(t))

(* Sets of requests are finite, so they can be counted.                     *)
LEMMA RequestSets ==
  ASSUME NEW S \in SUBSET Requests
  PROVE  IsFiniteSet(S) /\ Cardinality(S) \in Nat
<1>1. IsFiniteSet(Requests)
  BY FS_Interval, MessagingAssumption DEF Requests
<1> QED
  BY Zenon, <1>1, FS_Subset, FS_CardinalityType

(* One more request is one more to count.                                   *)
LEMMA OneMore ==
  ASSUME NEW S \in SUBSET Requests, NEW n \in Requests, n \notin S
  PROVE  Cardinality(S \cup {n}) = Cardinality(S) + 1
BY Zenon, RequestSets, FS_AddElement

(* The counter grows by at most the message that is recorded with it.       *)
LEMMA MessageIsCounted ==
  ASSUME MessagingInv, FiledInv, UnreadInv, NEW n \in Requests, RecordMessage(n)
  PROVE  UnreadInv'
<1> USE DEF MessagingInv, TypeOK
<1>1. Committing(n) /\ UseThread(n) /\ about[n] \in Inbound /\ None \notin Inbound
  BY Zenon, MessagingAssumption DEF RecordMessage, Committing, RequestInv
<1>2. rowOf[n] = None /\ None \notin Requests
  BY <1>1, MessagingAssumption DEF Committing, RowInv, Requests
<1>3. /\ ThreadOf(n) \in Requests /\ rowThread'[n] = ThreadOf(n)
      /\ \A k \in Requests \ {n} : rowThread'[k] = rowThread[k]
  BY Zenon, <1>1, UseThreadFiles
<1> DEFINE h == ThreadOf(n)
           before(t) == Cardinality(Received(t))
<1>4. /\ rowOf'[n] = about[n] /\ at'[n] = "mark"
      /\ \A k \in Requests \ {n} :
           /\ rowOf'[k] = rowOf[k] /\ at'[k] = at[k]
           /\ thread'[k] = thread[k] /\ seenUnread'[k] = seenUnread[k]
      /\ kind' = kind
      /\ unread'[h] = seenUnread[n] + 1
      /\ \A t \in Requests \ {h} : unread'[t] = unread[t]
  BY Zenon, <1>3 DEF RecordMessage, Goto, Forget, request, DatabaseTypes, RequestTypes, LocalTypes
<1>5. \A t \in Requests : Received(t) \in SUBSET Requests
  BY Zenon DEF Received
<1>6. \A t \in Requests : Received(t)' = IF t = h THEN Received(t) \cup {n} ELSE Received(t)
  BY <1>1, <1>2, <1>3, <1>4 DEF Received
<1>7. n \notin Received(h)
  BY Zenon, <1>2 DEF Received
<1>8. \A t \in Requests : Cardinality(Received(t)') = IF t = h THEN before(t) + 1 ELSE before(t)
  BY Zenon, <1>3, <1>5, <1>6, <1>7, OneMore
<1>9. \A t \in Requests : before(t) \in Nat
  BY Zenon, <1>5, RequestSets
<1>10. seenUnread \in [Requests -> Nat] /\ thread \in [Requests -> Requests \cup {None}]
  BY Zenon DEF LocalTypes
<1> HIDE DEF before
<1>11. seenUnread[n] <= before(h)
  <2>1. CASE thread[n] = None
    BY <1>1, <1>3, <1>9, <2>1 DEF UnreadInv
  <2>2. CASE thread[n] # None
    <3>1. thread[n] = h /\ h \in Requests
      BY Zenon, <1>3, <2>2 DEF ThreadOf
    <3> QED
      BY Zenon, <1>1, <3>1 DEF UnreadInv, before
  <2> QED
    BY Zenon, <2>1, <2>2
<1>12. \A t \in Requests : unread'[t] <= Cardinality(Received(t)')
  <2>1. \A t \in Requests : unread[t] <= before(t)
    BY Zenon DEF UnreadInv, before
  <2> QED
    BY SMTT(30), <1>3, <1>4, <1>8, <1>9, <1>10, <1>11, <2>1
<1>13. \A k \in Requests : Committing(k)' => k # n /\ Committing(k)
  BY Zenon, <1>4 DEF Committing
<1>14. \A k, t \in Requests :
         Committing(k)' /\ thread'[k] = t => seenUnread'[k] <= Cardinality(Received(t)')
  <2>1. \A k, t \in Requests : Committing(k) /\ thread[k] = t => seenUnread[k] <= before(t)
    BY Zenon DEF UnreadInv, before
  <2> QED
    BY <1>4, <1>8, <1>9, <1>10, <1>13, <2>1
<1>15. \A k \in Requests : Committing(k)' /\ thread'[k] = None => seenUnread'[k] = 0
  BY Zenon, <1>4, <1>13 DEF UnreadInv
<1> QED
  BY Zenon, <1>12, <1>14, <1>15 DEF UnreadInv

(* A reply adds no customer's message and leaves the counter alone.         *)
LEMMA ReplyIsCounted ==
  ASSUME MessagingInv, FiledInv, UnreadInv, NEW n \in Requests, RecordReply(n)
  PROVE  UnreadInv'
<1> USE DEF MessagingInv, TypeOK
<1>1. Committing(n) /\ UseThread(n) /\ rowOf[n] = None
  BY Zenon DEF RecordReply, Committing, RowInv
<1>2. \A k \in Requests \ {n} : rowThread'[k] = rowThread[k]
  BY Zenon, <1>1, UseThreadFiles
<1>3. /\ at'[n] = "done" /\ rowOf' = rowOf /\ unread' = unread /\ kind' = kind
      /\ \A k \in Requests \ {n} :
           at'[k] = at[k] /\ thread'[k] = thread[k] /\ seenUnread'[k] = seenUnread[k]
  BY Zenon DEF RecordReply, Goto, Forget, request, RequestTypes, LocalTypes
<1>4. \A t \in Requests : Received(t)' = Received(t)
  BY Zenon, <1>1, <1>2, <1>3 DEF Received
<1>5. \A k \in Requests : Committing(k)' => k # n /\ Committing(k)
  BY Zenon, <1>3 DEF Committing
<1> QED
  BY Zenon, <1>3, <1>4, <1>5 DEF UnreadInv

(* Of a step that stores no message, only the counters are in question.     *)
LEMMA CountedElsewhere ==
  ASSUME UnreadInv, UNCHANGED <<rowOf, rowThread>>,
         \A t \in Requests : unread'[t] = unread[t] \/ unread'[t] = 0,
         \A n \in Requests : Committing(n)' =>
           \/ Committing(n) /\ thread'[n] = thread[n] /\ seenUnread'[n] = seenUnread[n]
           \/ thread'[n] = None /\ seenUnread'[n] = 0
           \/ thread'[n] # None /\ seenUnread'[n] = unread[thread'[n]],
         None \notin Requests
  PROVE  UnreadInv'
<1>1. \A t \in Requests : Received(t)' = Received(t) /\ Received(t) \in SUBSET Requests
  BY Zenon DEF Received
<1>2. \A t \in Requests : Cardinality(Received(t)) \in Nat
  BY Zenon, <1>1, RequestSets
<1>3. \A t \in Requests : Cardinality(Received(t)') = Cardinality(Received(t))
  BY Zenon, <1>1
<1> DEFINE before(t) == Cardinality(Received(t))
<1>4. /\ \A t \in Requests : before(t) \in Nat /\ unread[t] <= before(t)
      /\ \A n \in Requests : Committing(n) /\ thread[n] = None => seenUnread[n] = 0
      /\ \A n, t \in Requests : Committing(n) /\ thread[n] = t => seenUnread[n] <= before(t)
  BY Zenon, <1>2 DEF UnreadInv
<1>5. \A t \in Requests : Cardinality(Received(t)') = before(t)
  BY Zenon, <1>3
<1> HIDE DEF before
<1>6. /\ \A t \in Requests : unread'[t] <= before(t)
      /\ \A n \in Requests : Committing(n)' /\ thread'[n] = None => seenUnread'[n] = 0
      /\ \A n, t \in Requests : Committing(n)' /\ thread'[n] = t => seenUnread'[n] <= before(t)
  BY <1>4
<1> QED
  BY Zenon, <1>5, <1>6 DEF UnreadInv

(* A request that begins reads no counter.                                  *)
LEMMA BeginsAreCounted ==
  ASSUME MessagingInv, UnreadInv, NEW n \in Requests,
         \/ \E m \in Inbound : DeliverMessage(n, m)
         \/ \E r \in Requests, s \in Receipts : DeliverReceipt(n, r, s)
         \/ \E l \in Requests : StartReply(n, l)
         \/ \E p \in Phones : Capture(n, p)
  PROVE  UnreadInv'
<1>1. UNCHANGED <<rowOf, rowThread, unread>>
  BY Zenon DEF DeliverMessage, DeliverReceipt, StartReply, Capture, database
<1>2. \A k \in Requests \ {n} :
        /\ at'[k] = at[k] /\ kind'[k] = kind[k]
        /\ thread'[k] = thread[k] /\ seenUnread'[k] = seenUnread[k]
  BY InboxTypes DEF DeliverMessage, DeliverReceipt, StartReply, Capture, Begin, locals
<1>3. ~Committing(n)'
  BY InboxTypes DEF DeliverMessage, DeliverReceipt, StartReply, Capture, Begin, locals, Committing
<1>4. \A k \in Requests : Committing(k)' =>
        Committing(k) /\ thread'[k] = thread[k] /\ seenUnread'[k] = seenUnread[k]
  BY Zenon, <1>2, <1>3 DEF Committing
<1> QED
  BY Zenon, <1>1, <1>4, CountedElsewhere, InboxTypes

(* The look-ups before the thread read no counter, nor does the provider.   *)
LEMMA LookupsAreCounted ==
  ASSUME MessagingInv, UnreadInv, NEW n \in Requests,
         \/ CheckCache(n) \/ FindMessage(n) \/ FindLead(n) \/ FindRow(n)
         \/ \E o \in {"sent", "pending", "failed"} : Send(n, o)
  PROVE  UnreadInv'
<1>1. UNCHANGED <<rowOf, rowThread, unread>>
  BY Zenon DEF CheckCache, FindMessage, FindLead, FindRow, Send, database
<1>2. \A k \in Requests \ {n} :
        /\ at'[k] = at[k] /\ kind'[k] = kind[k]
        /\ thread'[k] = thread[k] /\ seenUnread'[k] = seenUnread[k]
  BY SMTT(30), InboxTypes DEF CheckCache, FindMessage, FindLead, FindRow, Send, Goto, request,
     locals
<1>3. ~Committing(n)'
  BY InboxTypes DEF CheckCache, FindMessage, FindLead, FindRow, Send, Goto, request, locals,
     Committing
<1>4. \A k \in Requests : Committing(k)' =>
        Committing(k) /\ thread'[k] = thread[k] /\ seenUnread'[k] = seenUnread[k]
  BY Zenon, <1>2, <1>3 DEF Committing
<1> QED
  BY Zenon, <1>1, <1>4, CountedElsewhere, InboxTypes

(* A status, a mark or a loss touches no counter.                           *)
LEMMA EndsAreCounted ==
  ASSUME MessagingInv, UnreadInv, NEW n \in Requests,
         RecordReceipt(n) \/ Mark(n) \/ Lose(n)
  PROVE  UnreadInv'
<1>1. UNCHANGED <<rowOf, rowThread, unread>>
  BY Zenon DEF RecordReceipt, Mark, Lose, database
<1>2. \A k \in Requests \ {n} :
        /\ at'[k] = at[k] /\ kind'[k] = kind[k]
        /\ thread'[k] = thread[k] /\ seenUnread'[k] = seenUnread[k]
  BY SMTT(30), InboxTypes DEF RecordReceipt, Mark, Lose, Goto, Forget, request, locals
<1>3. ~Committing(n)'
  BY InboxTypes DEF RecordReceipt, Mark, Lose, Goto, Forget, request, locals, Committing
<1>4. \A k \in Requests : Committing(k)' =>
        Committing(k) /\ thread'[k] = thread[k] /\ seenUnread'[k] = seenUnread[k]
  BY Zenon, <1>2, <1>3 DEF Committing
<1> QED
  BY Zenon, <1>1, <1>4, CountedElsewhere, InboxTypes

(* What conversation_for reads of the counter was bounded when it was read. *)
LEMMA ThreadIsCounted ==
  ASSUME MessagingInv, UnreadInv, NEW n \in Requests, FindThread(n)
  PROVE  UnreadInv'
<1> USE DEF MessagingInv, TypeOK
<1>1. PICK t \in Requests \cup {None} :
        /\ thread' = [thread EXCEPT ![n] = t]
        /\ seenUnread' = [seenUnread EXCEPT ![n] = IF t = None THEN FreshUnread ELSE unread[t]]
  BY Zenon DEF FindThread
<1>2. /\ thread'[n] = t /\ seenUnread'[n] = (IF t = None THEN 0 ELSE unread[t])
      /\ \A k \in Requests \ {n} : thread'[k] = thread[k] /\ seenUnread'[k] = seenUnread[k]
  BY Zenon, <1>1 DEF LocalTypes, FreshUnread
<1>3. /\ \A k \in Requests \ {n} : at'[k] = at[k]
      /\ UNCHANGED <<kind, rowOf, rowThread, unread>>
  BY Zenon DEF FindThread, Goto, request, database, RequestTypes
<1>4. \A k \in Requests : Committing(k)' =>
        \/ Committing(k) /\ thread'[k] = thread[k] /\ seenUnread'[k] = seenUnread[k]
        \/ thread'[k] = None /\ seenUnread'[k] = 0
        \/ thread'[k] # None /\ seenUnread'[k] = unread[thread'[k]]
  BY Zenon, <1>2, <1>3 DEF Committing
<1>5. None \notin Requests
  BY MessagingAssumption DEF Requests
<1> QED
  BY Zenon, <1>3, <1>4, <1>5, CountedElsewhere

(* Reading a thread sets its counter to zero.                               *)
LEMMA InboxIsCounted ==
  ASSUME MessagingInv, UnreadInv,
         \/ Evict \/ UNCHANGED vars
         \/ \E t \in Requests : MarkRead(t) \/ \E active \in BOOLEAN : UpdateThread(t, active)
  PROVE  UnreadInv'
<1>1. /\ UNCHANGED <<rowOf, rowThread, request, at, locals>>
      /\ \A t \in Requests : unread'[t] = unread[t] \/ unread'[t] = 0
  BY Zenon DEF Evict, vars, MarkRead, UpdateThread, database, MessagingInv, TypeOK, DatabaseTypes
<1>2. \A k \in Requests : Committing(k)' =>
        Committing(k) /\ thread'[k] = thread[k] /\ seenUnread'[k] = seenUnread[k]
  BY Zenon, <1>1 DEF Committing, request, locals
<1>3. None \notin Requests
  BY MessagingAssumption DEF Requests
<1> QED
  BY Zenon, <1>1, <1>2, <1>3, CountedElsewhere

(* For any number of requests, however they interleave, die and repeat: the *)
(* inbox is true.  Messages are under their sender, leads count as answered *)
(* exactly when they were, no status is invented, no counter exceeds the    *)
(* messages of its thread (whatsapp_ingest.py:301-376, first_response.py).  *)
THEOREM InboxStaysTrue == Spec => []InboxIsTrue
<1>1. Init => FiledInv
  <2> SUFFICES ASSUME Init PROVE FiledInv
    OBVIOUS
  <2>1. WritesOnce /\ InThread /\ OutcomeOfReply /\ LeadOfSender /\ ThreadOfLead
    BY DEF Init, WritesOnce, InThread, OutcomeOfReply, LeadOfSender, ThreadOfLead, Committing
  <2>2. FiledUnderSender /\ AnsweredForReal
    BY MessagingAssumption DEF Init, FiledUnderSender, AnsweredForReal, ReplyOnRecord, Requests
  <2> QED
    BY Zenon, <2>1, <2>2 DEF FiledInv
<1>2. Init => UnreadInv
  <2> SUFFICES ASSUME Init PROVE UnreadInv
    OBVIOUS
  <2>1. \A t \in Requests : Received(t) \in SUBSET Requests /\ unread[t] = 0
    BY Zenon DEF Received, Init
  <2>2. \A t \in Requests : 0 <= Cardinality(Received(t))
    BY <2>1, RequestSets
  <2> QED
    BY Zenon, <2>1, <2>2 DEF UnreadInv, Init, Committing
<1>3. MessagingInv /\ FiledInv /\ UnreadInv /\ [Next]_vars => FiledInv' /\ UnreadInv'
  <2> SUFFICES ASSUME MessagingInv, FiledInv, UnreadInv, [Next]_vars
               PROVE  FiledInv' /\ UnreadInv'
    OBVIOUS
  <2>1. ASSUME NEW n \in Requests, RecordMessage(n) PROVE FiledInv' /\ UnreadInv'
    BY Zenon, <2>1, MessageIsFiled, MessageIsCounted
  <2>2. ASSUME NEW n \in Requests, RecordReply(n) PROVE FiledInv' /\ UnreadInv'
    BY Zenon, <2>2, ReplyIsFiled, ReplyIsCounted
  <2>3. ASSUME NEW n \in Requests,
               \/ \E m \in Inbound : DeliverMessage(n, m)
               \/ \E r \in Requests, s \in Receipts : DeliverReceipt(n, r, s)
               \/ \E l \in Requests : StartReply(n, l)
        PROVE  FiledInv' /\ UnreadInv'
    BY Zenon, <2>3, BeginIsFiled, BeginsAreCounted
  <2>4. ASSUME NEW n \in Requests, NEW p \in Phones, Capture(n, p)
        PROVE  FiledInv' /\ UnreadInv'
    BY Zenon, <2>4, CaptureIsFiled, BeginsAreCounted
  <2>5. ASSUME NEW n \in Requests,
               CheckCache(n) \/ FindMessage(n) \/ FindRow(n) \/ RecordReceipt(n) \/ Mark(n)
                 \/ Lose(n)
        PROVE  FiledInv' /\ UnreadInv'
    BY Zenon, <2>5, QuietIsFiled, LookupsAreCounted, EndsAreCounted
  <2>6. ASSUME NEW n \in Requests, NEW o \in {"sent", "pending", "failed"}, Send(n, o)
        PROVE  FiledInv' /\ UnreadInv'
    BY Zenon, <2>6, SendIsFiled, LookupsAreCounted
  <2>7. ASSUME NEW n \in Requests, FindLead(n) PROVE FiledInv' /\ UnreadInv'
    BY Zenon, <2>7, LookupsAreFiled, LookupsAreCounted
  <2>8. ASSUME NEW n \in Requests, FindThread(n) PROVE FiledInv' /\ UnreadInv'
    BY Zenon, <2>8, LookupsAreFiled, ThreadIsCounted
  <2>9. CASE Evict \/ UNCHANGED vars
          \/ \E t \in Requests : MarkRead(t) \/ \E active \in BOOLEAN : UpdateThread(t, active)
    BY Zenon, <2>9, OthersAreFiled, InboxIsCounted
  <2> QED
    BY Zenon, <2>1, <2>2, <2>3, <2>4, <2>5, <2>6, <2>7, <2>8, <2>9 DEF Next, Progress
<1>4. FiledInv /\ UnreadInv => FiledUnderSender /\ AnsweredForReal /\ UnreadIsBacked
  BY Zenon DEF FiledInv, UnreadInv, UnreadIsBacked, Received
<1> QED
  BY <1>1, <1>2, <1>3, <1>4, MessagingInvariant, RedeliveryIsIdle, StatusIsReported, PTL
     DEF Spec, InboxIsTrue
=============================================================================
