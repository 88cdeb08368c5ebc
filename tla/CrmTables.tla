----------------------------- MODULE CrmTables -----------------------------
(***************************************************************************)
(* Accounts, contacts, tasks and notes (crm/service.py, crm/tasks.py,      *)
(* crm/timeline.py): create and update under concurrent requests, and the  *)
(* optimistic version of the shared repository (repositories/base.py).     *)
(***************************************************************************)
EXTENDS Naturals, FiniteSets, RowFlush

CONSTANTS
  Accounts, Contacts, Tasks, Notes,  \* ids
  Names,        \* account names, without case
  Users,        \* who sends a request
  CrmRequests,  \* requests in flight at a time
  NoRow         \* null

Records == Accounts \cup Contacts \cup Tasks \cup Notes

(* Four tables.                                                             *)
ASSUME CrmAssumption ==
  /\ Accounts \cap Contacts = {} /\ (Accounts \cup Contacts) \cap Tasks = {}
  /\ (Accounts \cup Contacts \cup Tasks) \cap Notes = {}

VARIABLES
  crm,         \* the rows
  crmReq,      \* requests in flight
  crmTaint     \* rows once written from an outdated load

crmVars == <<crm, crmReq, crmTaint>>

AccountRow == [exists : BOOLEAN, name : Names \cup {NoRow}]
ContactRow == [exists : BOOLEAN, account_id : Accounts \cup {NoRow}]
TaskRow == [exists : BOOLEAN, completed_at : BOOLEAN,
            status : {"open", "in_progress", "completed", "cancelled"}]
NoteRow == [exists : BOOLEAN, created_by : Users \cup {NoRow}, is_pinned : BOOLEAN,
            updated_by : Users \cup {NoRow}]

CrmTypeOK ==
  /\ \A r \in Records : crm[r] \in (CASE r \in Accounts -> AccountRow
                                      [] r \in Contacts -> ContactRow
                                      [] r \in Tasks -> TaskRow
                                      [] OTHER -> NoteRow)
  /\ crmTaint \subseteq Records

Absent(r) ==
  CASE r \in Accounts -> [exists |-> FALSE, name |-> NoRow]
    [] r \in Contacts -> [exists |-> FALSE, account_id |-> NoRow]
    [] r \in Tasks -> [exists |-> FALSE, status |-> "open", completed_at |-> FALSE]
    [] OTHER -> [exists |-> FALSE, created_by |-> NoRow, updated_by |-> NoRow, is_pinned |-> FALSE]

CrmInit ==
  /\ crm = [r \in Records |-> Absent(r)]
  /\ crmReq = [q \in CrmRequests |-> NoRow]
  /\ crmTaint = {}

-----------------------------------------------------------------------------
(* get_scoped_or_404 before a write, a fresh id before an insert.           *)
LoadRow(q, r, expected, new) ==
  /\ crmReq[q] = NoRow
  /\ BumpVersion(expected)
  /\ crmReq' = [crmReq EXCEPT ![q] =
       Load(r, crm[r], new)]
  /\ UNCHANGED <<crm, crmTaint>>

Exists(r) == crm[r].exists

FreshId(r) ==
  /\ ~crm[r].exists
  /\ ~\E q \in CrmRequests : crmReq[q] # NoRow /\ r \in Dirty(crmReq[q])

(* The name is looked up before the insert, for a typed answer.             *)
CreateAccount(q, a, name) ==
  /\ FreshId(a)
  /\ ~\E b \in Accounts : Exists(b) /\ crm[b].name = name
  /\ LoadRow(q, a, "none", [crm[a] EXCEPT !.exists = TRUE, !.name = name])

UpdateAccount(q, a, name, expected) ==
  /\ Exists(a)
  /\ LoadRow(q, a, expected, [crm[a] EXCEPT !.name = name])

assert_account_exists(a) == a = NoRow \/ a \in {b \in Accounts : Exists(b)}

CreateContact(q, c, a) ==
  /\ FreshId(c)
  /\ assert_account_exists(a)
  /\ LoadRow(q, c, "none", [crm[c] EXCEPT !.exists = TRUE, !.account_id = a])

(* account_id null unlinks.                                                 *)
UpdateContact(q, c, a, expected) ==
  /\ Exists(c)
  /\ assert_account_exists(a)
  /\ LoadRow(q, c, expected, [crm[c] EXCEPT !.account_id = a])

(* _assert_parent_visible reads the parent in a session of its own.         *)
CreateTask(q, t, parent) ==
  /\ FreshId(t) /\ Exists(parent)
  /\ LoadRow(q, t, "none", [crm[t] EXCEPT !.exists = TRUE])

(* The server keeps the completion time; cancelling leaves it.              *)
CompletionTime_Sticky(status, completed_at) == status = "completed" \/ completed_at

CompletionTime(status, completed_at) ==
  CASE status = "completed" -> TRUE
    [] status \in {"open", "in_progress"} -> FALSE
    [] OTHER -> completed_at

UpdateTask(q, t, status, expected) ==
  /\ Exists(t)
  /\ LoadRow(q, t, expected,
       [crm[t] EXCEPT !.status = status, !.completed_at = CompletionTime(status, @)])

AddNote(q, n, who, parent) ==
  /\ FreshId(n) /\ Exists(parent)
  /\ LoadRow(q, n, "none", [crm[n] EXCEPT !.exists = TRUE, !.created_by = who])

(* Author only.                                                             *)
update_note(q, n, who, pinned, expected) ==
  /\ Exists(n)
  /\ crm[n].created_by = who
  /\ LoadRow(q, n, expected, [crm[n] EXCEPT !.is_pinned = pinned, !.updated_by = who])

(* uq_accounts_tenant_name_active                                           *)
NameTaken_Never(table) == FALSE

NameTaken(table) ==
  \E a, b \in Accounts : a # b /\ table[a].exists /\ table[b].exists /\ table[a].name = table[b].name

CommitRow(q) ==
  /\ crmReq[q] # NoRow
  /\ LET r == crmReq[q]
         after == Commit(crm, r)
     IN IF NameTaken(after)
          THEN crmReq' = [crmReq EXCEPT ![q] = NoRow] /\ UNCHANGED <<crm, crmTaint>>
          ELSE /\ crm' = after
               /\ crmTaint' = crmTaint \cup r.stale
               /\ crmReq' = [p \in CrmRequests |->
                    IF p = q \/ crmReq[p] = NoRow THEN NoRow ELSE Outdate(crmReq[p], Dirty(r))]

(* The write routes of /accounts and /contacts.                             *)
DirectoryRoutes(q) ==
  \/ \E a \in Accounts, name \in Names :
       CreateAccount(q, a, name) \/ UpdateAccount(q, a, name, "current")
  \/ \E c \in Contacts, a \in Accounts \cup {NoRow} :
       CreateContact(q, c, a) \/ UpdateContact(q, c, a, "current")

(* The write routes of /tasks and of the timelines.                         *)
WorkRoutes(q) ==
  \/ \E t \in Tasks, s \in {"open", "completed", "cancelled"} :
       UpdateTask(q, t, s, "current") \/ \E c \in Contacts : CreateTask(q, t, c)
  \/ \E n \in Notes, who \in Users :
       \/ \E c \in Contacts : AddNote(q, n, who, c)
       \/ \E pinned \in BOOLEAN : update_note(q, n, who, pinned, "none")

CrmNext == \E q \in CrmRequests : DirectoryRoutes(q) \/ WorkRoutes(q) \/ CommitRow(q)

CrmSpec == CrmInit /\ [][CrmNext]_crmVars

-----------------------------------------------------------------------------
(* Whatever requests overlap, no two accounts share a name, a contact's     *)
(* account exists and only its author has edited a note; a task no request  *)
(* wrote from an outdated load has a completion time when completed and     *)
(* none while open.                                                         *)
TablesAreConsistent ==
  /\ ~\E a, b \in Accounts : a # b /\ Exists(a) /\ Exists(b) /\ crm[a].name = crm[b].name
  /\ \A c \in Contacts : crm[c].account_id = NoRow \/ Exists(crm[c].account_id)
  /\ \A n \in Notes : crm[n].updated_by \in {NoRow, crm[n].created_by}
  /\ \A t \in Tasks \ crmTaint :
       /\ crm[t].status = "completed" => crm[t].completed_at
       /\ crm[t].status \in {"open", "in_progress"} => ~crm[t].completed_at
=============================================================================
