------------------------------- MODULE Deals -------------------------------
(***************************************************************************)
(* Deals and the pipeline they move through (crm/deals.py,                 *)
(* domain/deals/pipeline_policy.py): ensure_pipeline on first use, create, *)
(* update, move_stage and reopen under concurrent requests.                *)
(***************************************************************************)
EXTENDS Naturals, FiniteSets, RowFlush

CONSTANTS
  DealIds,
  DealRequests,  \* requests in flight at a time; each could make a pipeline
  NoDeal         \* null

ASSUME DealAssumption == NoDeal \notin DealRequests

(* DEFAULT_STAGES, of which the moves tell the kinds apart.                 *)
OpenStages == {"new", "proposal"}
Stages == OpenStages \cup {"won", "lost"}

DealStatus == {"open", "won", "lost"}

VARIABLES
  pipelines,  \* pipelines with the default name, each by the request that made it
  deal,       \* the rows
  dealReq,    \* requests in flight
  dealTaint   \* deals once written from an outdated load

dealVars == <<pipelines, deal, dealReq, dealTaint>>

DealRow == [exists : BOOLEAN, pipeline : DealRequests \cup {NoDeal}, stage : Stages,
            status : DealStatus, closed_at : BOOLEAN, loss_reason : BOOLEAN]

(* A request without a pipeline looks for one, makes one, or reads again.   *)
Looking(d, phase) == [op |-> "ensure", deal |-> d, phase |-> phase]

DealTypeOK ==
  /\ pipelines \subseteq DealRequests
  /\ deal \in [DealIds -> DealRow]
  /\ dealTaint \subseteq DealIds
  /\ \A q \in DealRequests : dealReq[q] # NoDeal => dealReq[q].op \in {"ensure", "write"}

DealInit ==
  /\ pipelines = {}
  /\ deal = [d \in DealIds |-> [exists |-> FALSE, pipeline |-> NoDeal, stage |-> "new",
                                status |-> "open", closed_at |-> FALSE, loss_reason |-> FALSE]]
  /\ dealReq = [q \in DealRequests |-> NoDeal]
  /\ dealTaint = {}

-----------------------------------------------------------------------------
LoadDeal(q, d, new) ==
  /\ dealReq' = [dealReq EXCEPT ![q] =
                   [op |-> "write", writes |-> Write(d, deal[d], new), stale |-> {}]]
  /\ UNCHANGED <<pipelines, deal, dealTaint>>

(* create: the deal starts open in the stage asked for, which may be any.   *)
NewDeal(d, p, stage) ==
  [deal[d] EXCEPT !.exists = TRUE, !.pipeline = p, !.stage = stage]

(* ensure_pipeline, called by create: the first read.                       *)
CreateDeal(q, d) ==
  /\ dealReq[q] = NoDeal
  /\ ~deal[d].exists
  /\ ~\E p \in DealRequests :
        /\ dealReq[p] # NoDeal
        /\ d \in IF dealReq[p].op = "ensure" THEN {dealReq[p].deal} ELSE Dirty(dealReq[p])
  /\ IF pipelines = {}
       THEN dealReq' = [dealReq EXCEPT ![q] = Looking(d, "insert")] /\
            UNCHANGED <<pipelines, deal, dealTaint>>
       ELSE \E p \in pipelines, s \in Stages : LoadDeal(q, d, NewDeal(d, p, s))

(* The insert, under UniqueConstraint("tenant_id", "name"); any failure,    *)
(* that of a lost race included, reads again.                               *)
pipeline_tenant_name_None == TRUE

pipeline_tenant_name == pipelines = {}

ensure_pipeline(q) ==
  /\ dealReq[q] # NoDeal
  /\ dealReq[q].op = "ensure" /\ dealReq[q].phase = "insert"
  /\ \/ /\ pipeline_tenant_name
        /\ pipelines' = pipelines \cup {q}
        /\ \E s \in Stages :
             dealReq' = [dealReq EXCEPT ![q] =
               [op |-> "write", stale |-> {},
                writes |-> Write(@.deal, deal[@.deal], NewDeal(@.deal, q, s))]]
     \/ /\ dealReq' = [dealReq EXCEPT ![q].phase = "reread"]
        /\ UNCHANGED pipelines
  /\ UNCHANGED <<deal, dealTaint>>

(* Nothing found on the second read: the failure is raised.                 *)
Reread(q) ==
  /\ dealReq[q] # NoDeal
  /\ dealReq[q].op = "ensure" /\ dealReq[q].phase = "reread"
  /\ IF pipelines = {}
       THEN dealReq' = [dealReq EXCEPT ![q] = NoDeal] /\ UNCHANGED <<pipelines, deal, dealTaint>>
       ELSE \E p \in pipelines, s \in Stages : LoadDeal(q, dealReq[q].deal, NewDeal(dealReq[q].deal, p, s))

(* update changes none of these columns; the flush bumps the version.       *)
UpdateDeal(q, d, expected) ==
  /\ dealReq[q] = NoDeal /\ deal[d].exists
  /\ BumpVersion(expected)
  /\ LoadDeal(q, d, deal[d])

(* validate_stage_move: a closed deal moves only to a closing stage, and a  *)
(* lost stage needs a reason.  The default stages restrict nothing else.    *)
validate_stage_move(row, to, reason) ==
  /\ row.status # "open" => to \in {"won", "lost"}
  /\ to = "lost" => reason

StatusOf(stage) == IF stage \in OpenStages THEN "open" ELSE stage

(* move_stage: winning keeps a loss reason from before.                     *)
Moved(row, to) ==
  LET status == StatusOf(to) IN
    [row EXCEPT !.stage = to, !.status = status, !.closed_at = status # "open",
                !.loss_reason = CASE status = "lost" -> TRUE
                                  [] status = "won" -> @
                                  [] OTHER -> FALSE]

move_stage(q, d, to, reason) ==
  /\ dealReq[q] = NoDeal /\ deal[d].exists
  /\ validate_stage_move(deal[d], to, reason)
  /\ LoadDeal(q, d, Moved(deal[d], to))

(* assert_status_transition lets every status, "open" too, become open.     *)
Reopened_KeepClosed(row) == [row EXCEPT !.status = "open", !.loss_reason = FALSE]

Reopened(row) == [row EXCEPT !.status = "open", !.closed_at = FALSE, !.loss_reason = FALSE]

reopen(q, d) ==
  /\ dealReq[q] = NoDeal /\ deal[d].exists
  /\ LoadDeal(q, d, Reopened(deal[d]))

CommitDeal(q) ==
  /\ dealReq[q] # NoDeal
  /\ dealReq[q].op = "write"
  /\ LET r == dealReq[q] IN
       /\ deal' = Commit(deal, r)
       /\ dealTaint' = dealTaint \cup r.stale
       /\ dealReq' = [p \in DealRequests |->
            IF p = q \/ dealReq[p] = NoDeal THEN NoDeal
            ELSE IF dealReq[p].op = "write" THEN Outdate(dealReq[p], Dirty(r)) ELSE dealReq[p]]
  /\ UNCHANGED pipelines

(* The write routes of /deals.                                              *)
DealRoutes(q) ==
  \E d \in DealIds :
    \/ CreateDeal(q, d) \/ UpdateDeal(q, d, "current") \/ reopen(q, d)
    \/ \E to \in Stages, reason \in BOOLEAN : move_stage(q, d, to, reason)

DealNext == \E q \in DealRequests : DealRoutes(q) \/ ensure_pipeline(q) \/ Reread(q) \/ CommitDeal(q)

DealSpec == DealInit /\ [][DealNext]_dealVars

-----------------------------------------------------------------------------
(* The first requests race to make the pipeline: one is made, and every     *)
(* deal is in it (the docstring of ensure_pipeline).                        *)
OneDefaultPipeline ==
  /\ Cardinality(pipelines) <= 1
  /\ \A d \in DealIds : deal[d].exists => deal[d].pipeline \in pipelines

(* A deal no request wrote from an outdated load has a closing time exactly *)
(* while it is closed, is then in the stage of its status, and has a loss   *)
(* reason when lost and none when open.                                     *)
DealIsConsistent ==
  \A d \in DealIds \ dealTaint :
    LET row == deal[d] IN
      /\ row.closed_at <=> row.status # "open"
      /\ row.status # "open" => row.stage = row.status
      /\ row.status = "lost" => row.loss_reason
      /\ row.status = "open" => ~row.loss_reason
=============================================================================
