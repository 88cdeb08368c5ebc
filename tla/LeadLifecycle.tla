--------------------------- MODULE LeadLifecycle ---------------------------
(***************************************************************************)
(* The life of leads under concurrent requests: update, bulk_update,       *)
(* convert (leads/service.py), merge_leads, disqualify_lead and            *)
(* restore_lead (leads/lifecycle_ops.py), and the transition table of      *)
(* domain/leads/lifecycle.py.                                              *)
(*                                                                         *)
(* The version counter is abstracted to what comparing it can tell: a      *)
(* request carries no expected version, or that of the row it loads.  A    *)
(* contact is named by the request that made it; its insert commits with   *)
(* the change of the lead.                                                 *)
(***************************************************************************)
EXTENDS Naturals, FiniteSets, RowFlush

CONSTANTS
  Leads,         \* lead ids
  LeadRequests,  \* requests in flight at a time
  NoLead,        \* null: merged_into_id, converted_contact_id, no request
  PatchTargets,  \* statuses the modelled clients ask for
  MaxConverts    \* bound on requests to convert

LeadStatus == {"new", "qualified", "contacted", "nurturing", "converted",
               "disqualified", "archived"}

ASSUME LeadAssumption ==
  /\ NoLead \notin Leads \cup LeadRequests
  /\ PatchTargets \subseteq LeadStatus
  /\ MaxConverts \in Nat

ALLOWED_TRANSITIONS ==
  [new |-> {"qualified", "contacted", "nurturing", "disqualified", "archived"},
   qualified |-> {"contacted", "nurturing", "converted", "disqualified", "archived"},
   contacted |-> {"qualified", "nurturing", "converted", "disqualified", "archived"},
   nurturing |-> {"contacted", "qualified", "converted", "disqualified", "archived"},
   converted |-> {},
   disqualified |-> {"nurturing", "archived"},
   archived |-> {"new"}]

(* assert_transition: the same status passes, disqualifying needs a reason. *)
assert_transition_Any(from, to, reason) == to \in {from} \cup LeadStatus

assert_transition(from, to, reason) ==
  \/ from = to
  \/ to \in ALLOWED_TRANSITIONS[from] /\ (to = "disqualified" => reason)

VARIABLES
  lead,      \* the rows: [Leads -> LeadRow]
  leadReq,   \* requests in flight
  tainted,   \* leads once written from an outdated load
  converts   \* conversions begun

leadVars == <<lead, leadReq, tainted, converts>>

LeadRow == [status : LeadStatus,
            contact : 0..MaxConverts,             \* converted_contact_id, 0 is null
            merged_into : Leads \cup {NoLead},
            deleted : BOOLEAN]                    \* deleted_at is set

NewLead == [status |-> "new", contact |-> 0, merged_into |-> NoLead, deleted |-> FALSE]

LeadTypeOK ==
  /\ lead \in [Leads -> LeadRow]
  /\ tainted \subseteq Leads /\ converts \in 0..MaxConverts
  /\ \A q \in LeadRequests : leadReq[q] # NoLead =>
       /\ leadReq[q].stale \subseteq Dirty(leadReq[q])
       /\ \A l \in Dirty(leadReq[q]) :
            l \in Leads /\ leadReq[q].writes[l].new \in LeadRow

LeadInit ==
  /\ lead = [l \in Leads |-> NewLead]
  /\ leadReq = [q \in LeadRequests |-> NoLead]
  /\ tainted = {} /\ converts = 0

-----------------------------------------------------------------------------
(* get_scoped_or_404 and _load: archived rows with deleted_at are not found *)
LeadFound(l) == ~lead[l].deleted

NoRequest(q) == leadReq[q] = NoLead

LoadLead(q, l, new) ==
  /\ NoRequest(q)
  /\ leadReq' = [leadReq EXCEPT ![q] = Load(l, lead[l], new)]
  /\ UNCHANGED <<lead, tainted>>

(* PATCH /leads/{id}: any field may be left out, the status included.       *)
UpdateLead(q, l, to, reason, expected) ==
  /\ LeadFound(l)
  /\ assert_transition(lead[l].status, to, reason)
  /\ BumpVersion(expected)
  /\ LoadLead(q, l, [lead[l] EXCEPT !.status = to])
  /\ UNCHANGED converts

ConvertLead(q, l) ==
  /\ converts < MaxConverts
  /\ LeadFound(l)
  /\ assert_transition(lead[l].status, "converted", FALSE)
  /\ converts' = converts + 1
  /\ LoadLead(q, l, [lead[l] EXCEPT !.status = "converted", !.contact = converts + 1])

disqualify_lead(q, l) ==
  /\ LeadFound(l)
  /\ assert_transition(lead[l].status, "disqualified", TRUE)
  /\ LoadLead(q, l, [lead[l] EXCEPT !.status = "disqualified"])
  /\ UNCHANGED converts

(* restore_lead reads deleted rows too.                                     *)
Restorable_EvenMerged(row) == row.status \in {"disqualified", "archived"}

Restorable(row) ==
  /\ row.merged_into = NoLead
  /\ row.status \in {"disqualified", "archived"}

restore_lead(q, l) ==
  /\ Restorable(lead[l])
  /\ LoadLead(q, l, [lead[l] EXCEPT !.status = "new", !.deleted = FALSE])
  /\ UNCHANGED converts

(* merge_leads loads the survivor, then the loser.  The survivor gets the   *)
(* fields it lacked, which are none of the columns here; the duplicate      *)
(* candidates it resolves are left out.                                     *)
merge_leads(q, survivor) ==
  /\ LeadFound(survivor)
  /\ LoadLead(q, survivor, lead[survivor])
  /\ UNCHANGED converts

Mergeable_Unchecked(survivor, loser) == TRUE

Mergeable(survivor, loser) ==
  loser.status # "converted" /\ survivor.merged_into = NoLead

MergedInto(row, survivor) ==
  [row EXCEPT !.merged_into = survivor, !.status = "archived", !.deleted = TRUE]

MergeLoser(q, survivor, loser) ==
  /\ ~NoRequest(q)
  /\ Dirty(leadReq[q]) = {survivor}
  /\ leadReq[q].writes[survivor].new = leadReq[q].writes[survivor].old
  /\ survivor # loser /\ LeadFound(loser)
  /\ Mergeable(leadReq[q].writes[survivor].old, lead[loser])
  /\ leadReq' = [leadReq EXCEPT ![q] =
                   LoadMore(@, loser, lead[loser], MergedInto(lead[loser], survivor))]
  /\ UNCHANGED <<lead, tainted, converts>>

(* bulk_update locks its rows in id order and reads them under the lock:    *)
(* no other request writes them between its read and its commit.            *)
bulk_update(rows, to) ==
  /\ rows # {}
  /\ \A l \in rows : LeadFound(l) /\ assert_transition(lead[l].status, to, TRUE)
  /\ lead' = [l \in Leads |-> IF l \in rows THEN [lead[l] EXCEPT !.status = to] ELSE lead[l]]
  /\ leadReq' = [q \in LeadRequests |->
                   IF NoRequest(q) THEN NoLead ELSE Outdate(leadReq[q], rows)]
  /\ UNCHANGED <<tainted, converts>>

CommitLead(q) ==
  /\ ~NoRequest(q)
  /\ LET r == leadReq[q] IN
       /\ lead' = Commit(lead, r)
       /\ tainted' = tainted \cup r.stale
       /\ leadReq' = [p \in LeadRequests |->
                        IF p = q \/ NoRequest(p) THEN NoLead ELSE Outdate(leadReq[p], Dirty(r))]
  /\ UNCHANGED converts

(* A refusal after the load, a lost connection: the transaction rolls back. *)
RollBackLead(q) ==
  /\ ~NoRequest(q)
  /\ leadReq' = [leadReq EXCEPT ![q] = NoLead]
  /\ UNCHANGED <<lead, tainted, converts>>

(* The write routes of /leads.                                              *)
LeadRoutes(q) ==
  \E l \in Leads :
    \/ \E to \in PatchTargets, reason \in BOOLEAN : UpdateLead(q, l, to, reason, "current")
    \/ ConvertLead(q, l)
    \/ disqualify_lead(q, l)
    \/ restore_lead(q, l)
    \/ merge_leads(q, l)
    \/ \E k \in Leads : MergeLoser(q, l, k)

LeadNext ==
  \/ \E q \in LeadRequests : LeadRoutes(q) \/ CommitLead(q) \/ RollBackLead(q)
  \/ \E rows \in SUBSET Leads, to \in PatchTargets \ {"converted"} : bulk_update(rows, to)

LeadSpec == LeadInit /\ [][LeadNext]_leadVars

-----------------------------------------------------------------------------
(* However requests interleave, a lead is hidden exactly when it has been   *)
(* merged into another: a request that loaded it before the merge and       *)
(* writes it after leaves both columns as merge_leads set them.  A merged   *)
(* lead no request wrote from an outdated load stays archived, and          *)
(* following merged_into over such leads never goes round in a circle (the  *)
(* survivor the merge_leads docstring promises).                            *)
SoundLeads == Leads \ tainted

MergesAreKept ==
  /\ \A l \in Leads : lead[l].deleted <=> lead[l].merged_into # NoLead
  /\ \A l \in SoundLeads : lead[l].merged_into # NoLead => lead[l].status = "archived"
  /\ \A circle \in (SUBSET SoundLeads) \ {{}} : \E l \in circle : lead[l].merged_into \notin circle

(* Converted is terminal: unless it is written from an outdated load, a     *)
(* converted lead never leaves that status (ALLOWED_TRANSITIONS, the       *)
(* refusals of merge_leads and restore_lead).                               *)
ConvertedIsFinal ==
  [][\A l \in Leads :
       lead[l].status = "converted" /\ l \notin tainted' => lead'[l].status = "converted"]_leadVars
=============================================================================
