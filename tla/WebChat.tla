------------------------------ MODULE WebChat ------------------------------
(***************************************************************************)
(* The website chat (communications/webchat.py) and the inbox's operations *)
(* on its threads (crm/inbox.py): the tenant's one widget, the sessions    *)
(* strangers open through it, and the conversation of each, which visitors *)
(* and agents write without locks.  A session and its conversation share   *)
(* an id here.  A session that expired is one that ended.                  *)
(***************************************************************************)
EXTENDS Naturals, FiniteSets, RowFlush

CONSTANTS
  Chats,         \* sessions, each with its conversation
  ChatRequests,  \* requests in flight at a time
  MaxKeys,       \* bound on public keys
  MaxPosts,      \* bound on messages in a conversation
  MAX_MESSAGES_PER_SESSION,
  NoChat         \* null

ASSUME ChatAssumption == MAX_MESSAGES_PER_SESSION \in Nat \ {0} /\ IsFiniteSet(ChatRequests)

CONVERSATION_STATUSES == {"active", "resolved", "archived", "spam"}

VARIABLES
  widgets,     \* webchat_widgets of the tenant
  chatRow,     \* conversations and webchat_sessions
  posted,      \* messages by the visitor, by anyone
  unseen,      \* messages since the thread was last marked read
  waiting,     \* threads the customer wrote to after their status was last set
  chatReq,     \* requests in flight
  chatTaint    \* threads once written from an outdated load

chatVars == <<widgets, chatRow, posted, unseen, waiting, chatReq, chatTaint>>

WebchatWidget == [key : 1..MaxKeys, has_origins : BOOLEAN, is_active : BOOLEAN]

ChatRow == [session : {"none", "live", "ended"}, status : CONVERSATION_STATUSES,
            unread_count : 0..MaxPosts, automation_stopped : BOOLEAN]

ChatTypeOK ==
  /\ widgets \subseteq WebchatWidget
  /\ chatRow \in [Chats -> ChatRow]
  /\ posted \in [Chats -> [visitor : 0..MaxPosts, all : 0..MaxPosts]]
  /\ unseen \in [Chats -> 0..MaxPosts]
  /\ waiting \cup chatTaint \subseteq Chats

ChatInit ==
  /\ widgets = {}
  /\ chatRow = [c \in Chats |-> [session |-> "none", status |-> "active", unread_count |-> 0,
                                 automation_stopped |-> FALSE]]
  /\ posted = [c \in Chats |-> [visitor |-> 0, all |-> 0]]
  /\ unseen = [c \in Chats |-> 0]
  /\ waiting = {} /\ chatTaint = {}
  /\ chatReq = [q \in ChatRequests |-> NoChat]

-----------------------------------------------------------------------------
Pause(q, r) == chatReq' = [chatReq EXCEPT ![q] = r]

(* configure_widget: load or make, set what the request names, and refuse   *)
(* to activate without origins.  A field left out keeps its value.          *)
LoadWidget(q, origins, active) ==
  /\ chatReq[q] = NoChat
  /\ LET old == IF widgets = {} THEN NoChat ELSE CHOOSE w \in widgets : TRUE
         base == IF old = NoChat THEN [key |-> 1, has_origins |-> FALSE, is_active |-> FALSE] ELSE old
         new == [base EXCEPT !.has_origins = IF origins = NoChat THEN @ ELSE origins,
                             !.is_active = IF active = NoChat THEN @ ELSE active]
     IN /\ active = TRUE => new.has_origins
        /\ Pause(q, [op |-> "widget", old |-> old, new |-> new])
  /\ UNCHANGED <<widgets, chatRow, posted, unseen, waiting, chatTaint>>

(* rotate_public_key: a new key is another one.                             *)
LoadRotation(q) ==
  /\ chatReq[q] = NoChat
  /\ \E w \in widgets : \E k \in 1..MaxKeys \ {w.key} :
       Pause(q, [op |-> "widget", old |-> w, new |-> [w EXCEPT !.key = k]])
  /\ UNCHANGED <<widgets, chatRow, posted, unseen, waiting, chatTaint>>

(* UniqueConstraint widget_one_per_tenant                                   *)
widget_one_per_tenant_None == TRUE

widget_one_per_tenant == widgets = {}

configure_widget(q) ==
  /\ chatReq[q] # NoChat /\ chatReq[q].op = "widget"
  /\ LET r == chatReq[q] IN
       widgets' = IF r.old = NoChat
                    THEN widgets \cup (IF widget_one_per_tenant THEN {r.new} ELSE {})
                    ELSE {Flush(w, r.old, r.new) : w \in widgets}
  /\ Pause(q, NoChat)
  /\ UNCHANGED <<chatRow, posted, unseen, waiting, chatTaint>>

(* An empty allow-list serves nobody.                                       *)
origin_allowed(w) == w.has_origins

(* _widget_by_key                                                           *)
Served(key) == \E w \in widgets : w.key = key /\ w.is_active /\ origin_allowed(w)

(* start_session looks the widget up, then inserts session and thread.      *)
FindWidget(q, c, key) ==
  /\ chatReq[q] = NoChat
  /\ chatRow[c].session = "none"
  /\ ~\E p \in ChatRequests : chatReq[p] # NoChat /\ chatReq[p].op = "start" /\ chatReq[p].chat = c
  /\ Served(key)
  /\ Pause(q, [op |-> "start", chat |-> c])
  /\ UNCHANGED <<widgets, chatRow, posted, unseen, waiting, chatTaint>>

start_session(q) ==
  /\ chatReq[q] # NoChat /\ chatReq[q].op = "start"
  /\ chatRow' = [chatRow EXCEPT ![chatReq[q].chat].session = "live"]
  /\ Pause(q, NoChat)
  /\ UNCHANGED <<widgets, posted, unseen, waiting, chatTaint>>

-----------------------------------------------------------------------------
(* A request that has loaded a thread: what it will write, and the message  *)
(* it will insert, if any.                                                  *)
LoadThread(q, c, op, new) ==
  /\ chatReq[q] = NoChat
  /\ chatRow[c].session # "none"
  /\ Pause(q, [op |-> op, chat |-> c, writes |-> Write(c, chatRow[c], new), stale |-> {}])
  /\ UNCHANGED <<widgets, chatRow, posted, unseen, waiting, chatTaint>>

Room(c) == posted[c].all + Cardinality({q \in ChatRequests :
             chatReq[q] # NoChat /\ chatReq[q].op \in {"post", "receive", "send"}}) < MaxPosts

resolve(c) == chatRow[c].session = "live"

(* The limit counts the messages of both sides.                             *)
Admitted_Unlimited(c) == TRUE

Admitted(c) == posted[c].all < MAX_MESSAGES_PER_SESSION

post_visitor_message(q, c) ==
  /\ Room(c)
  /\ resolve(c) /\ Admitted(c)
  /\ LoadThread(q, c, "post", [chatRow[c] EXCEPT !.unread_count = @ + 1])

(* A customer writing again reopens a thread that is not spam.              *)
Reopens_Never(status) == status

Reopens(status) == IF status \in {"resolved", "archived"} THEN "active" ELSE status

receive(q, c) ==
  /\ Room(c)
  /\ LoadThread(q, c, "receive",
       [chatRow[c] EXCEPT !.unread_count = @ + 1, !.status = Reopens(@)])

(* send on this channel, which needs no consent.                            *)
send(q, c) ==
  /\ Room(c)
  /\ LoadThread(q, c, "send", [chatRow[c] EXCEPT !.automation_stopped = TRUE])

update_conversation(q, c, status, expected) ==
  /\ BumpVersion(expected)
  /\ LoadThread(q, c, "update", [chatRow[c] EXCEPT !.status = status])

mark_read(q, c) == LoadThread(q, c, "read", [chatRow[c] EXCEPT !.unread_count = 0])

(* end_session writes the session, and not its conversation.                *)
end_session(c) ==
  /\ resolve(c)
  /\ chatRow' = [chatRow EXCEPT ![c].session = "ended"]
  /\ UNCHANGED <<widgets, posted, unseen, waiting, chatReq, chatTaint>>

Count(c, op) ==
  CASE op = "post" -> [posted[c] EXCEPT !.visitor = @ + 1, !.all = @ + 1]
    [] op \in {"receive", "send"} -> [posted[c] EXCEPT !.all = @ + 1]
    [] OTHER -> posted[c]

CommitThread(q) ==
  /\ chatReq[q] # NoChat
  /\ chatReq[q].op \in {"post", "receive", "send", "update", "read"}
  /\ LET r == chatReq[q]
         c == r.chat
     IN /\ chatRow' = Commit(chatRow, r)
        /\ posted' = [posted EXCEPT ![c] = Count(c, r.op)]
        /\ unseen' = [unseen EXCEPT ![c] = CASE r.op \in {"post", "receive"} -> @ + 1
                                             [] r.op = "read" -> 0
                                             [] OTHER -> @]
        /\ waiting' = CASE r.op = "receive" -> waiting \cup {c}
                        [] r.op = "update" -> waiting \ {c}
                        [] OTHER -> waiting
        /\ chatTaint' = chatTaint \cup r.stale
        /\ chatReq' = [p \in ChatRequests |->
             IF p = q THEN NoChat
             ELSE IF chatReq[p] # NoChat /\ chatReq[p].op \notin {"widget", "start"}
                    THEN Outdate(chatReq[p], {c}) ELSE chatReq[p]]
  /\ UNCHANGED widgets

(* The widget's settings, the visitor's surface and the agent's inbox.      *)
WidgetRoutes(q) ==
  \/ \E origins, active \in BOOLEAN \cup {NoChat} : LoadWidget(q, origins, active)
  \/ LoadRotation(q) \/ configure_widget(q)

VisitorRoutes(q) ==
  \/ \E c \in Chats : \/ post_visitor_message(q, c) \/ end_session(c)
                      \/ \E key \in 1..MaxKeys : FindWidget(q, c, key)
  \/ start_session(q)

InboxRoutes(q) ==
  \E c \in Chats :
    \/ receive(q, c) \/ send(q, c) \/ mark_read(q, c)
    \/ \E s \in {"resolved", "spam"} : update_conversation(q, c, s, "current")

ChatNext == \E q \in ChatRequests : WidgetRoutes(q) \/ VisitorRoutes(q) \/ InboxRoutes(q) \/ CommitThread(q)

ChatSpec == ChatInit /\ [][ChatNext]_chatVars

-----------------------------------------------------------------------------
(* The tenant has one widget.  Visitors exceed the message limit by no more *)
(* than their requests in flight less one.  A thread no request wrote from  *)
(* an outdated load shows as unread just what came in since it was last     *)
(* read, and is open while a message received since its status was set      *)
(* waits (the comment in receive).                                          *)
ChatIsKept ==
  /\ Cardinality(widgets) <= 1
  /\ \A c \in Chats :
       posted[c].visitor <= MAX_MESSAGES_PER_SESSION + Cardinality(ChatRequests) - 1
  /\ \A c \in Chats \ chatTaint :
       /\ chatRow[c].unread_count = unseen[c]
       /\ c \in waiting => chatRow[c].status \in {"active", "spam"}
=============================================================================
