-------------------------- MODULE WorkflowExecution --------------------------
(***************************************************************************)
(* The durable life of one workflow execution: the trigger that inserts    *)
(* and enqueues it, execute_workflow and resume_execution                  *)
(* (infrastructure/celery/tasks/workflow.py), the sweep that wakes         *)
(* suspended executions (scheduled.process_due_work), approval decisions   *)
(* and kill switches.                                                      *)
(*                                                                         *)
(* A task works in two transactions: the first marks the row running, the  *)
(* second writes the engine's result.  The engine runs between them, so    *)
(* several messages of one execution may have engines running at once.     *)
(* The pinned plan is a line of nodes; branches are in WorkflowGraph.      *)
(***************************************************************************)
EXTENDS Integers, Sequences

CONSTANTS
  Plan,          \* sequence of node types: "action", "delay" or "approval"
  Workers,
  MaxRepeats,    \* bound on redeliveries of the triggering event
  MaxLost,       \* bound on tasks lost with their worker
  MaxToggles,    \* bound on kill switch changes
  MaxQueued      \* bound on resume messages the sweep adds

ASSUME ExecutionAssumption ==
  /\ Plan \in Seq({"action", "delay", "approval"})
  /\ MaxRepeats \in Nat /\ MaxLost \in Nat /\ MaxToggles \in Nat /\ MaxQueued \in Nat

VARIABLES
  state,        \* workflow_executions.state, or "absent"
  resumeAt,     \* resume_at: "none", "future" or "due"
  waitingOn,    \* context.waiting_on, 0 when none
  resumeNode,   \* context.resume_nodes, 0 when empty
  approval,     \* workflow_approvals.state by node, or "absent"
  performed,    \* action nodes whose effect is committed
  executeMsgs,  \* queued critical.execute_workflow messages
  resumeMsgs,   \* queued scheduled.resume_execution messages
  pc,           \* "idle", "checked" (resume only), "engine" or "closing"
  kind,         \* message the worker holds: "execute" or "resume"
  at,           \* next node of the worker's engine
  result,       \* the engine's result state
  sweep,        \* "idle" or "holding": the sweep selected the row, uncommitted
  killed,       \* workflow_definitions.kill_switch
  tenantKilled, \* tenant-scope switch
  sent,         \* the outbox handler that created the row has returned
  repeats, lost, toggles

row == <<state, resumeAt, waitingOn, resumeNode>>
queues == <<executeMsgs, resumeMsgs>>
workers == <<pc, kind, at, result>>
switches == <<killed, tenantKilled, toggles>>
counters == <<sent, repeats, lost>>
vars == <<row, approval, performed, queues, workers, sweep, switches, counters>>

Nodes == 1..Len(Plan)
Ends == {"completed", "failed", "cancelled"}
NodesOf(type) == {n \in Nodes : Plan[n] = type}

TypeOK ==
  /\ state \in {"absent", "pending", "running", "waiting"} \cup Ends
  /\ resumeAt \in {"none", "future", "due"}
  /\ waitingOn \in Nodes \cup {0} /\ resumeNode \in Nodes \cup {0}
  /\ approval \in [Nodes -> {"absent", "requested", "approved", "rejected"}]
  /\ performed \subseteq NodesOf("action")
  /\ executeMsgs \in Nat /\ resumeMsgs \in Nat
  /\ pc \in [Workers -> {"idle", "checked", "engine", "closing"}]
  /\ kind \in [Workers -> {"execute", "resume"}]
  /\ at \in [Workers -> 1..Len(Plan) + 1]
  /\ result \in [Workers -> {"waiting"} \cup Ends]
  /\ sweep \in {"idle", "holding"}
  /\ killed \in BOOLEAN /\ tenantKilled \in BOOLEAN /\ sent \in BOOLEAN
  /\ repeats \in Nat /\ lost \in Nat /\ toggles \in Nat

Init ==
  /\ state = "absent" /\ resumeAt = "none" /\ waitingOn = 0 /\ resumeNode = 0
  /\ approval = [n \in Nodes |-> "absent"]
  /\ performed = {}
  /\ executeMsgs = 0 /\ resumeMsgs = 0
  /\ pc = [w \in Workers |-> "idle"]
  /\ kind = [w \in Workers |-> "execute"]
  /\ at = [w \in Workers |-> 1]
  /\ result = [w \in Workers |-> "completed"]
  /\ sweep = "idle"
  /\ killed = FALSE /\ tenantKilled = FALSE /\ sent = FALSE
  /\ repeats = 0 /\ lost = 0 /\ toggles = 0

-----------------------------------------------------------------------------
(* _create_triggered_execution: the insert commits, then the message is     *)
(* sent.  The handler may die in between; the outbox then calls it again,   *)
(* and it sends again while the row is pending.                             *)

CreateExecution ==
  /\ state = "absent"
  /\ state' = "pending"
  /\ sent' \in BOOLEAN
  /\ executeMsgs' = IF sent' THEN 1 ELSE 0
  /\ UNCHANGED <<resumeAt, waitingOn, resumeNode, approval, performed, resumeMsgs,
                 workers, sweep, switches, repeats, lost>>

TriggerAgain ==
  /\ state = "pending"
  /\ sent => repeats < MaxRepeats
  /\ repeats' = IF sent THEN repeats + 1 ELSE repeats
  /\ sent' = TRUE
  /\ executeMsgs' = executeMsgs + 1
  /\ UNCHANGED <<row, approval, performed, resumeMsgs, workers, sweep, switches, lost>>

-----------------------------------------------------------------------------
(* execute_workflow: kill check, then the first transaction.                *)

TakeExecute(w) ==
  /\ pc[w] = "idle"
  /\ executeMsgs > 0
  /\ executeMsgs' = executeMsgs - 1
  /\ UNCHANGED resumeMsgs

Refused == tenantKilled \/ state \in Ends

MarkRunning ==
  /\ state' = "running"
  /\ resumeAt' = "none"
  /\ UNCHANGED <<waitingOn, resumeNode>>

ExecuteRefused(w) ==
  /\ TakeExecute(w)
  /\ Refused
  /\ UNCHANGED <<row, approval, performed, workers, sweep, switches, counters>>

ExecuteStart(w) ==
  /\ TakeExecute(w)
  /\ ~Refused
  /\ MarkRunning
  /\ pc' = [pc EXCEPT ![w] = "engine"]
  /\ kind' = [kind EXCEPT ![w] = "execute"]
  /\ at' = [at EXCEPT ![w] = 1]
  /\ UNCHANGED <<approval, performed, result, sweep, switches, counters>>

(* resume_execution: an unlocked read decides, then the same path runs.     *)

ApprovalPending_Unchecked == FALSE

ApprovalPending ==
  /\ waitingOn # 0
  /\ approval[waitingOn] \notin {"absent", "approved"}

MayResume_StillDue ==
  state = "waiting" /\ ~ApprovalPending /\ resumeNode # 0 /\ resumeAt = "due"

MayResume == state = "waiting" /\ ~ApprovalPending /\ resumeNode # 0

TakeResume(w) ==
  /\ pc[w] = "idle"
  /\ resumeMsgs > 0
  /\ resumeMsgs' = resumeMsgs - 1
  /\ UNCHANGED executeMsgs

ResumeDeclined(w) ==
  /\ TakeResume(w)
  /\ ~MayResume
  /\ UNCHANGED <<row, approval, performed, workers, sweep, switches, counters>>

ResumeCheck(w) ==
  /\ TakeResume(w)
  /\ MayResume
  /\ pc' = [pc EXCEPT ![w] = "checked"]
  /\ kind' = [kind EXCEPT ![w] = "resume"]
  /\ at' = [at EXCEPT ![w] = resumeNode]
  /\ UNCHANGED <<row, approval, performed, result, sweep, switches, counters>>

ResumeRefused(w) ==
  /\ pc[w] = "checked"
  /\ Refused
  /\ pc' = [pc EXCEPT ![w] = "idle"]
  /\ UNCHANGED <<row, approval, performed, queues, kind, at, result, sweep, switches, counters>>

ResumeStart(w) ==
  /\ pc[w] = "checked"
  /\ ~Refused
  /\ MarkRunning
  /\ pc' = [pc EXCEPT ![w] = "engine"]
  /\ UNCHANGED <<approval, performed, queues, kind, at, result, sweep, switches, counters>>

-----------------------------------------------------------------------------
(* WorkflowEngine.execute: the kill switch and the deadline are checked     *)
(* before each node.                                                        *)

Finish(w, r) ==
  /\ result' = [result EXCEPT ![w] = r]
  /\ pc' = [pc EXCEPT ![w] = "closing"]
  /\ UNCHANGED <<row, approval, queues, kind, at, sweep, switches, counters>>

Stopped == killed \/ tenantKilled

EngineCancelled(w) ==
  /\ pc[w] = "engine" /\ at[w] \in Nodes
  /\ Stopped
  /\ Finish(w, "cancelled")
  /\ UNCHANGED performed

EngineAction(w) ==
  /\ pc[w] = "engine" /\ at[w] \in NodesOf("action")
  /\ ~Stopped
  /\ performed' = performed \cup {at[w]}
  /\ at' = [at EXCEPT ![w] = @ + 1]
  /\ UNCHANGED <<row, approval, queues, pc, kind, result, sweep, switches, counters>>

(* An action fails terminally under error policy "stop", or the deadline    *)
(* has passed.                                                              *)
EngineFailed(w) ==
  /\ pc[w] = "engine" /\ at[w] \in Nodes
  /\ ~Stopped
  /\ Finish(w, "failed")
  /\ UNCHANGED performed

Suspends(n) == n \in NodesOf("delay") \cup NodesOf("approval")

EngineSuspends(w) ==
  /\ pc[w] = "engine" /\ Suspends(at[w])
  /\ ~Stopped
  /\ Finish(w, "waiting")
  /\ UNCHANGED performed

Exhausted_Early(w) == at[w] >= Len(Plan)

Exhausted(w) == at[w] > Len(Plan)

EngineCompletes(w) ==
  /\ pc[w] = "engine" /\ Exhausted(w)
  /\ Finish(w, "completed")
  /\ UNCHANGED performed

(* The second transaction writes the result over whatever the row holds,    *)
(* and inserts the approval (on conflict nothing) when the engine waits for *)
(* one.                                                                     *)

Successor_Skips(n) == IF n + 1 < Len(Plan) THEN n + 2 ELSE 0

Successor(n) == IF n < Len(Plan) THEN n + 1 ELSE 0

ApprovalRequested_Skipped(n) == approval[n]

ApprovalRequested(n) ==
  IF Plan[n] = "approval" /\ approval[n] = "absent" THEN "requested" ELSE approval[n]

Close(w) ==
  /\ pc[w] = "closing"
  /\ state' = result[w]
  /\ IF result[w] = "waiting"
       THEN /\ resumeAt' = IF Plan[at[w]] = "delay" THEN "future" ELSE "none"
            /\ waitingOn' = at[w]
            /\ resumeNode' = Successor(at[w])
            /\ approval' = [approval EXCEPT ![at[w]] = ApprovalRequested(at[w])]
       ELSE /\ resumeAt' = "none"
            /\ waitingOn' = 0
            /\ resumeNode' = 0
            /\ UNCHANGED approval
  /\ pc' = [pc EXCEPT ![w] = "idle"]
  /\ UNCHANGED <<performed, queues, kind, at, result, sweep, switches, counters>>

(* The worker dies and its message returns to the queue; a task that raises *)
(* is retried the same way.                                                 *)
WorkerLost(w) ==
  /\ pc[w] # "idle"
  /\ lost < MaxLost
  /\ lost' = lost + 1
  /\ pc' = [pc EXCEPT ![w] = "idle"]
  /\ IF kind[w] = "execute"
       THEN executeMsgs' = executeMsgs + 1 /\ UNCHANGED resumeMsgs
       ELSE resumeMsgs' = resumeMsgs + 1 /\ UNCHANGED executeMsgs
  /\ UNCHANGED <<row, approval, performed, kind, at, result, sweep, switches, sent, repeats>>

-----------------------------------------------------------------------------
(* process_due_work: the message is sent while the transaction that clears  *)
(* resume_at is still open.                                                 *)

SweepSelects ==
  /\ sweep = "idle"
  /\ state = "waiting" /\ resumeAt = "due"
  /\ resumeMsgs < MaxQueued
  /\ sweep' = "holding"
  /\ resumeMsgs' = resumeMsgs + 1
  /\ UNCHANGED <<row, approval, performed, executeMsgs, workers, switches, counters>>

SweepCommits ==
  /\ sweep = "holding"
  /\ sweep' = "idle"
  /\ resumeAt' = "none"
  /\ UNCHANGED <<state, waitingOn, resumeNode, approval, performed, queues, workers,
                 switches, counters>>

ClockReaches ==
  /\ resumeAt = "future"
  /\ resumeAt' = "due"
  /\ UNCHANGED <<state, waitingOn, resumeNode, approval, performed, queues, workers,
                 sweep, switches, counters>>

(* decide_approval resolves a requested approval, whatever the execution is *)
(* doing; the route then enqueues a resumption, unless it dies first.       *)

Approve(n) ==
  /\ approval[n] = "requested"
  /\ approval' = [approval EXCEPT ![n] = "approved"]
  /\ resumeAt' = "due"
  /\ resumeMsgs' \in {resumeMsgs, resumeMsgs + 1}
  /\ UNCHANGED <<state, waitingOn, resumeNode, performed, executeMsgs, workers, sweep,
                 switches, counters>>

Reject(n) ==
  /\ approval[n] = "requested"
  /\ approval' = [approval EXCEPT ![n] = "rejected"]
  /\ state' = "failed"
  /\ resumeAt' = "none"
  /\ UNCHANGED <<waitingOn, resumeNode, performed, queues, workers, sweep, switches, counters>>

(* engage_kill_switch and release_kill_switch.                              *)
ToggleKill ==
  /\ toggles < MaxToggles
  /\ toggles' = toggles + 1
  /\ \/ killed' = ~killed /\ UNCHANGED tenantKilled
     \/ tenantKilled' = ~tenantKilled /\ UNCHANGED killed
  /\ UNCHANGED <<row, approval, performed, queues, workers, sweep, counters>>

-----------------------------------------------------------------------------
Receive(w) == ExecuteRefused(w) \/ ExecuteStart(w) \/ ResumeDeclined(w) \/ ResumeCheck(w)

Proceed(w) ==
  \/ ResumeRefused(w) \/ ResumeStart(w)
  \/ EngineCancelled(w) \/ EngineAction(w) \/ EngineFailed(w) \/ EngineSuspends(w)
  \/ EngineCompletes(w) \/ Close(w)

Next ==
  \/ CreateExecution \/ TriggerAgain
  \/ \E w \in Workers : Receive(w) \/ Proceed(w) \/ WorkerLost(w)
  \/ SweepSelects \/ SweepCommits \/ ClockReaches
  \/ \E n \in Nodes : Approve(n) \/ Reject(n)
  \/ ToggleKill

Spec == Init /\ [][Next]_vars

(* Beat runs the sweep, the clock advances, the outbox calls a handler that *)
(* did not return again, messages are taken and tasks run on.  Approvers    *)
(* owe no answer.                                                           *)
Fairness ==
  /\ WF_vars(SweepSelects) /\ WF_vars(SweepCommits) /\ WF_vars(ClockReaches)
  /\ WF_vars(~sent /\ TriggerAgain)
  /\ WF_vars(\E w \in Workers : Receive(w))
  /\ \A w \in Workers : WF_vars(Proceed(w))

FairSpec == Spec /\ Fairness

-----------------------------------------------------------------------------
(* No node behind an approval is performed unless that approval was given,  *)
(* although resumptions are duplicated, restarted and race with decisions.  *)
(* resume_execution reads the approval without a lock (workflow.py:201).    *)
ApprovalGate ==
  \A n \in NodesOf("approval"), m \in performed : n < m => approval[n] = "approved"

(* Actions are performed in plan order: an effect is never committed before *)
(* one that precedes it, whichever run of the execution performs it.        *)
PerformedIsPrefix ==
  \A m \in performed, n \in NodesOf("action") : n < m => n \in performed

(* An execution that reports "completed" has performed every action of its  *)
(* plan, over all its suspensions and re-runs.                              *)
CompletedDidAll ==
  state = "completed" => performed = NodesOf("action")

(* An execution that waits on an approval node has its approval row: the    *)
(* missing row that resume_execution lets pass (workflow.py:201) cannot     *)
(* occur.                                                                   *)
WaitingHasApproval ==
  waitingOn \in NodesOf("approval") => approval[waitingOn] # "absent"

(* The approvals before node n are given and the actions before it done.    *)
Reached(n) ==
  /\ \A m \in NodesOf("approval") : m < n => approval[m] = "approved"
  /\ \A m \in NodesOf("action") : m < n => m \in performed

(* However deliveries are repeated, resumed, overlapped and lost: no action *)
(* behind an approval is performed before it is given, actions are          *)
(* performed in the plan's order, a completed execution performed them all, *)
(* and one that waits for an approval has its row.  Inductive, because each *)
(* run has passed what lies before the node it is at, and so has the        *)
(* continuation stored in the row.                                          *)
ExecutionInv ==
  /\ TypeOK
  /\ ApprovalGate
  /\ PerformedIsPrefix
  /\ CompletedDidAll
  /\ WaitingHasApproval
  /\ \A w \in Workers : pc[w] # "idle" => Reached(at[w])
  /\ \A w \in Workers : pc[w] = "closing" /\ result[w] = "waiting" => Suspends(at[w])
  /\ \A w \in Workers : pc[w] = "closing" /\ result[w] = "completed" => at[w] > Len(Plan)
  /\ waitingOn # 0 => Reached(waitingOn) /\ Suspends(waitingOn)
  /\ resumeNode # 0 => waitingOn # 0 /\ resumeNode = waitingOn + 1

(* Unless a worker is lost or a trigger repeated, an execution ends, comes  *)
(* to wait for an approver or is held by the tenant's kill switch; and once *)
(* approved it ends when the route's message was sent (workflows.py:47).    *)
EveryExecutionSettles ==
  LET Excused == tenantKilled \/ lost > 0 \/ repeats > 0
      AwaitsApprover == \E n \in Nodes : approval[n] = "requested"
      Approved == state = "waiting" /\ waitingOn # 0 /\ approval[waitingOn] = "approved"
  IN /\ state = "pending" ~> state \in Ends \/ AwaitsApprover \/ Excused
     /\ Approved /\ resumeMsgs > 0 ~> state \in Ends \/ Excused

(* A durable delay that elapses wakes its execution (workers.md:62, resume  *)
(* executions whose durable delay elapsed).                                 *)
DelayIsResumed ==
  \A n \in NodesOf("delay") :
    state = "waiting" /\ waitingOn = n ~> ~(state = "waiting" /\ waitingOn = n)
=============================================================================
