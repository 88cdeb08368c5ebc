---------------------- MODULE WorkflowExecutionProofs -----------------------
(***************************************************************************)
(* WorkflowExecution for any plan, any workers and any number of repeated  *)
(* triggers, lost tasks and kill switch changes.  AssignmentRules for any  *)
(* number of rules, targets and requests in flight.  PromptRegistry for    *)
(* any number of prompts, versions, runs and requests.                     *)
(***************************************************************************)
EXTENDS PromptRegistry, WorkflowExecution, AssignmentRules, FiniteSetTheorems, WellFoundedInduction, TLAPS

(* WorkflowExecution.                                                       *)

(* The nodes of a plan.                                                     *)
LEMMA PlanFacts ==
  /\ Len(Plan) \in Nat
  /\ Nodes \subseteq Nat \ {0}
  /\ \A n \in Nodes : n <= Len(Plan) /\ Plan[n] \in {"action", "delay", "approval"}
  /\ \A n \in Nodes : n \notin NodesOf("action") => Suspends(n)
BY ExecutionAssumption DEF Nodes, NodesOf, Suspends

(* A step that leaves runs, approvals, effects and the stored continuation *)
(* alone, and does not complete the execution, preserves the invariant.    *)
LEMMA QuietStep ==
  ASSUME ExecutionInv, TypeOK',
         UNCHANGED <<approval, performed, waitingOn, resumeNode, workers>>,
         state' = "completed" => state = "completed"
  PROVE  ExecutionInv'
BY Zenon DEF ExecutionInv, ApprovalGate, PerformedIsPrefix, CompletedDidAll, WaitingHasApproval,
       Reached, Suspends, workers

(* Triggers, declined messages, the sweep, the clock and the switches.     *)
LEMMA BackgroundPreserves ==
  ASSUME ExecutionInv,
         \/ CreateExecution \/ TriggerAgain \/ SweepSelects \/ SweepCommits
         \/ ClockReaches \/ ToggleKill
         \/ \E w \in Workers : ExecuteRefused(w) \/ ResumeDeclined(w)
  PROVE  ExecutionInv'
<1> USE DEF row, queues, switches, counters
<1>1. CASE CreateExecution \/ TriggerAgain
  <2>0. sent' \in BOOLEAN
    BY <1>1, Zenon DEF CreateExecution, TriggerAgain
  <2>1. executeMsgs' \in Nat /\ repeats' \in Nat
    BY <1>1 DEF CreateExecution, TriggerAgain, ExecutionInv, TypeOK
  <2>2. TypeOK'
    BY Zenon, <1>1, <2>0, <2>1 DEF CreateExecution, TriggerAgain, ExecutionInv, TypeOK, workers
  <2> QED
    BY Zenon, <1>1, <2>2, QuietStep DEF CreateExecution, TriggerAgain
<1>2. CASE SweepSelects \/ SweepCommits \/ ClockReaches
  <2>1. TypeOK'
    BY SMTT(40), <1>2 DEF SweepSelects, SweepCommits, ClockReaches, ExecutionInv, TypeOK, workers
  <2> QED
    BY Zenon, <1>2, <2>1, QuietStep DEF SweepSelects, SweepCommits, ClockReaches
<1>3. CASE ToggleKill
  <2>0. killed' \in BOOLEAN /\ tenantKilled' \in BOOLEAN
    BY <1>3, Zenon DEF ToggleKill, ExecutionInv, TypeOK
  <2>1. TypeOK'
    BY <1>3, <2>0 DEF ToggleKill, ExecutionInv, TypeOK, workers
  <2> QED
    BY Zenon, <1>3, <2>1, QuietStep DEF ToggleKill
<1>4. CASE \E w \in Workers : ExecuteRefused(w) \/ ResumeDeclined(w)
  <2>0. executeMsgs' \in Nat /\ resumeMsgs' \in Nat
    BY <1>4 DEF ExecuteRefused, ResumeDeclined, TakeExecute, TakeResume, ExecutionInv, TypeOK
  <2>1. TypeOK'
    BY Zenon, <1>4, <2>0 DEF ExecuteRefused, ResumeDeclined, ExecutionInv, TypeOK, workers
  <2> QED
    BY Zenon, <1>4, <2>1, QuietStep DEF ExecuteRefused, ResumeDeclined
<1> QED
  BY Zenon, <1>1, <1>2, <1>3, <1>4

(* A step of one worker that leaves approvals, effects and the stored      *)
(* continuation alone preserves the invariant if the worker's new place    *)
(* is one it has reached.                                                  *)
LEMMA WorkerStep ==
  ASSUME ExecutionInv, TypeOK', NEW w \in Workers,
         UNCHANGED <<approval, performed, waitingOn, resumeNode>>,
         state' = "completed" => state = "completed",
         \A v \in Workers \ {w} :
           pc'[v] = pc[v] /\ at'[v] = at[v] /\ result'[v] = result[v],
         pc'[w] # "idle" => Reached(at'[w]),
         pc'[w] = "closing" /\ result'[w] = "waiting" => Suspends(at'[w]),
         pc'[w] = "closing" /\ result'[w] = "completed" => at'[w] > Len(Plan)
  PROVE  ExecutionInv'
<1>1. ApprovalGate' /\ PerformedIsPrefix' /\ CompletedDidAll' /\ WaitingHasApproval'
  BY Zenon DEF ExecutionInv, ApprovalGate, PerformedIsPrefix, CompletedDidAll, WaitingHasApproval
<1>2. \A v \in Workers : (pc[v] # "idle" => Reached(at[v]))'
  BY Zenon DEF ExecutionInv, Reached
<1>3. \A v \in Workers :
        /\ (pc[v] = "closing" /\ result[v] = "waiting" => Suspends(at[v]))'
        /\ (pc[v] = "closing" /\ result[v] = "completed" => at[v] > Len(Plan))'
  BY Zenon DEF ExecutionInv, Suspends
<1>4. /\ (waitingOn # 0 => Reached(waitingOn) /\ Suspends(waitingOn))'
      /\ (resumeNode # 0 => waitingOn # 0 /\ resumeNode = waitingOn + 1)'
  BY Zenon DEF ExecutionInv, Reached, Suspends
<1> QED
  BY Zenon, <1>1, <1>2, <1>3, <1>4 DEF ExecutionInv

(* Taking a message and starting the engine at the entry or the stored     *)
(* continuation, and abandoning a run.                                     *)
LEMMA StartPreserves ==
  ASSUME ExecutionInv, NEW w \in Workers,
         ExecuteStart(w) \/ ResumeCheck(w) \/ ResumeRefused(w) \/ ResumeStart(w)
         \/ WorkerLost(w)
  PROVE  ExecutionInv'
<1> USE DEF row, queues, switches, counters
<1>0. /\ pc \in [Workers -> {"idle", "checked", "engine", "closing"}]
      /\ at \in [Workers -> 1..Len(Plan) + 1]
      /\ pc[w] # "idle" => Reached(at[w])
  BY Zenon DEF ExecutionInv, TypeOK
<1>1. CASE ExecuteStart(w)
  <2>1. TypeOK'
    BY <1>1, PlanFacts DEF ExecuteStart, TakeExecute, MarkRunning, ExecutionInv, TypeOK
  <2>2. Reached(1)
    BY PlanFacts DEF Reached, NodesOf
  <2> QED
    BY Zenon, <1>0, <1>1, <2>1, <2>2, WorkerStep DEF ExecuteStart, MarkRunning
<1>2. CASE ResumeCheck(w)
  <2>1. resumeNode \in Nodes /\ resumeNode = waitingOn + 1 /\ waitingOn \in Nodes
    BY Zenon, <1>2 DEF ResumeCheck, MayResume, ExecutionInv, TypeOK
  <2>2. TypeOK'
    BY <1>2, <2>1, PlanFacts DEF ResumeCheck, TakeResume, ExecutionInv, TypeOK
  <2>3. Plan[waitingOn] = "approval" => approval[waitingOn] = "approved"
    BY Zenon, <1>2, <2>1 DEF ResumeCheck, MayResume, ApprovalPending, ExecutionInv,
       WaitingHasApproval, TypeOK, NodesOf
  <2>4. Reached(waitingOn) /\ Plan[waitingOn] # "action"
    BY <2>1 DEF ExecutionInv, Suspends, NodesOf
  <2>5. Reached(resumeNode)
    BY <2>1, <2>3, <2>4, PlanFacts DEF Reached, NodesOf
  <2> QED
    BY Zenon, <1>0, <1>2, <2>2, <2>5, WorkerStep DEF ResumeCheck
<1>3. CASE ResumeRefused(w)
  <2>1. TypeOK'
    BY <1>3 DEF ResumeRefused, ExecutionInv, TypeOK
  <2> QED
    BY Zenon, <1>0, <1>3, <2>1, WorkerStep DEF ResumeRefused
<1>4. CASE ResumeStart(w)
  <2>1. TypeOK'
    BY Zenon, <1>4 DEF ResumeStart, MarkRunning, ExecutionInv, TypeOK
  <2> QED
    BY Zenon, <1>0, <1>4, <2>1, WorkerStep DEF ResumeStart, MarkRunning
<1>5. CASE WorkerLost(w)
  <2>1. TypeOK'
    BY SMTT(40), <1>5 DEF WorkerLost, ExecutionInv, TypeOK
  <2> QED
    BY Zenon, <1>0, <1>5, <2>1, WorkerStep DEF WorkerLost
<1> QED
  BY Zenon, <1>1, <1>2, <1>3, <1>4, <1>5

(* The engine stops at a node: cancelled, failed, suspended or past the    *)
(* last one.                                                               *)
LEMMA StopPreserves ==
  ASSUME ExecutionInv, NEW w \in Workers,
         EngineCancelled(w) \/ EngineFailed(w) \/ EngineSuspends(w) \/ EngineCompletes(w)
  PROVE  ExecutionInv'
<1> USE DEF row, queues, switches, counters
<1>1. PICK r \in {"waiting"} \cup Ends :
        /\ pc[w] = "engine" /\ Finish(w, r) /\ UNCHANGED performed
        /\ r = "waiting" => Suspends(at[w])
        /\ r = "completed" => at[w] > Len(Plan)
  BY DEF EngineCancelled, EngineFailed, EngineSuspends, EngineCompletes, Exhausted, Ends
<1>2. TypeOK'
  BY <1>1 DEF ExecutionInv, TypeOK, Finish
<1>3. pc'[w] = "closing" /\ result'[w] = r /\ at'[w] = at[w] /\ Reached(at[w])
  BY Zenon, <1>1 DEF ExecutionInv, TypeOK, Finish
<1>4. \A v \in Workers \ {w} :
        pc'[v] = pc[v] /\ at'[v] = at[v] /\ result'[v] = result[v]
  BY Zenon, <1>1 DEF ExecutionInv, TypeOK, Finish
<1>5. UNCHANGED <<state, approval, performed, waitingOn, resumeNode>>
  BY Zenon, <1>1 DEF Finish
<1> QED
  BY Zenon, <1>1, <1>2, <1>3, <1>4, <1>5, WorkerStep

(* The engine performs an action that its run has reached.                 *)
LEMMA ActionPreserves ==
  ASSUME ExecutionInv, NEW w \in Workers, EngineAction(w)
  PROVE  ExecutionInv'
<1> USE DEF row, queues, switches, counters, EngineAction
<1>0. at[w] \in Nodes /\ Plan[at[w]] = "action" /\ Reached(at[w])
  BY Zenon DEF ExecutionInv, NodesOf
<1>1. TypeOK'
  BY <1>0, PlanFacts DEF ExecutionInv, TypeOK
<1>2. ApprovalGate' /\ PerformedIsPrefix' /\ CompletedDidAll' /\ WaitingHasApproval'
  BY Zenon, <1>0 DEF ExecutionInv, ApprovalGate, PerformedIsPrefix, CompletedDidAll,
     WaitingHasApproval, Reached, TypeOK
<1>5. \A v \in Workers : (pc[v] # "idle" => Reached(at[v]))'
  <2> TAKE v \in Workers
  <2>1. CASE v = w
    <3>1. at'[w] = at[w] + 1 /\ at[w] \in Nat
      BY Zenon, <1>0, PlanFacts DEF ExecutionInv, TypeOK
    <3>2. \A m \in Nodes : m < at[w] + 1 => m < at[w] \/ m = at[w]
      <4>1. \A m, n \in Nat : m < n + 1 => m < n \/ m = n
        OBVIOUS
      <4>2. \A m \in Nodes : m \in Nat
        BY PlanFacts
      <4> QED
        BY Zenon, <3>1, <4>1, <4>2
    <3>3. (\A m \in NodesOf("approval") : m < at[w] => approval[m] = "approved")'
      BY Zenon, <1>0, <3>1, <3>2 DEF Reached, NodesOf, Nodes
    <3>4. (\A m \in NodesOf("action") : m < at[w] => m \in performed)'
      BY Zenon, <1>0, <3>1, <3>2 DEF Reached, NodesOf, Nodes
    <3> QED
      BY Zenon, <2>1, <3>3, <3>4 DEF Reached
  <2>2. CASE v # w
    BY Zenon, <2>2 DEF ExecutionInv, TypeOK, Reached
  <2> QED
    BY Zenon, <2>1, <2>2
<1>6. \A v \in Workers :
        /\ (pc[v] = "closing" /\ result[v] = "waiting" => Suspends(at[v]))'
        /\ (pc[v] = "closing" /\ result[v] = "completed" => at[v] > Len(Plan))'
  BY Zenon DEF ExecutionInv, TypeOK, Suspends
<1>7. /\ (waitingOn # 0 => Reached(waitingOn) /\ Suspends(waitingOn))'
      /\ (resumeNode # 0 => waitingOn # 0 /\ resumeNode = waitingOn + 1)'
  BY Zenon DEF ExecutionInv, Reached, Suspends
<1> QED
  BY Zenon, <1>1, <1>2, <1>5, <1>6, <1>7 DEF ExecutionInv

(* A change of approvals that never takes an approval back keeps every     *)
(* place reached that was reached.                                         *)
LEMMA ApprovalsGrow ==
  ASSUME ExecutionInv, TypeOK', UNCHANGED performed,
         \A m \in Nodes : approval[m] = "approved" => approval'[m] = "approved"
  PROVE  /\ ApprovalGate' /\ PerformedIsPrefix'
         /\ \A v \in Workers : at'[v] = at[v] /\ pc[v] # "idle" => (Reached(at[v]))'
         /\ waitingOn' = waitingOn /\ waitingOn # 0 => (Reached(waitingOn))'
BY Zenon DEF ExecutionInv, ApprovalGate, PerformedIsPrefix, Reached, NodesOf

(* The last step of a task writes the row of the execution.                 *)
LEMMA ClosePreserves ==
  ASSUME ExecutionInv, NEW w \in Workers, Close(w)
  PROVE  ExecutionInv'
<1> USE DEF row, queues, switches, counters
<1>0. /\ pc[w] = "closing" /\ Reached(at[w])
      /\ at[w] \in 1..Len(Plan) + 1
      /\ result[w] = "waiting" => at[w] \in Nodes /\ Suspends(at[w])
  BY Zenon DEF Close, ExecutionInv, TypeOK, Suspends, NodesOf
<1>1. TypeOK'
  <2>1. CASE result[w] = "waiting"
    <3>1. Successor(at[w]) \in Nodes \cup {0}
      BY <1>0, <2>1, PlanFacts DEF Successor, Nodes
    <3>2. ApprovalRequested(at[w]) \in {"absent", "requested", "approved", "rejected"}
      BY Zenon, <1>0, <2>1 DEF ApprovalRequested, ExecutionInv, TypeOK
    <3> QED
      BY Zenon, <1>0, <2>1, <3>1, <3>2 DEF Close, ExecutionInv, TypeOK
  <2>2. CASE result[w] # "waiting"
    BY Zenon, <2>2 DEF Close, ExecutionInv, TypeOK
  <2> QED
    BY Zenon, <2>1, <2>2
<1>2. \A m \in Nodes : approval[m] = "approved" => approval'[m] = "approved"
  BY Zenon, <1>0 DEF Close, ApprovalRequested, ExecutionInv, TypeOK
<1>3. UNCHANGED <<performed, at, result>> /\ pc' = [pc EXCEPT ![w] = "idle"]
  BY Zenon DEF Close
<1>4. ApprovalGate' /\ PerformedIsPrefix'
  BY Zenon, <1>1, <1>2, <1>3, ApprovalsGrow
<1>5. CompletedDidAll'
  <2> SUFFICES ASSUME state' = "completed" PROVE performed = NodesOf("action")
    BY Zenon, <1>3 DEF CompletedDidAll
  <2>1. at[w] > Len(Plan)
    BY Zenon, <1>0 DEF Close, ExecutionInv
  <2>2. \A m \in NodesOf("action") : m < at[w]
    BY <1>0, <2>1, PlanFacts DEF NodesOf, Nodes
  <2> QED
    BY Zenon, <1>0, <2>2 DEF Reached, ExecutionInv, TypeOK
<1>6. WaitingHasApproval'
  BY <1>0 DEF Close, ApprovalRequested, WaitingHasApproval, ExecutionInv, TypeOK, NodesOf, Nodes
<1>7. \A v \in Workers : (pc[v] # "idle" => Reached(at[v]))'
  BY Zenon, <1>1, <1>2, <1>3, ApprovalsGrow DEF ExecutionInv, TypeOK
<1>8. \A v \in Workers :
        /\ (pc[v] = "closing" /\ result[v] = "waiting" => Suspends(at[v]))'
        /\ (pc[v] = "closing" /\ result[v] = "completed" => at[v] > Len(Plan))'
  BY Zenon, <1>3 DEF ExecutionInv, TypeOK, Suspends
<1>9. /\ (waitingOn # 0 => Reached(waitingOn) /\ Suspends(waitingOn))'
      /\ (resumeNode # 0 => waitingOn # 0 /\ resumeNode = waitingOn + 1)'
  <2>1. CASE result[w] = "waiting"
    <3>1. waitingOn' = at[w] /\ resumeNode' = Successor(at[w]) /\ at[w] # 0
      BY Zenon, <1>0, <2>1, PlanFacts DEF Close
    <3>2. (Reached(at[w]))'
      BY Zenon, <1>0, <1>1, <1>2, <1>3, ApprovalsGrow
    <3> QED
      BY Zenon, <1>0, <1>3, <2>1, <3>1, <3>2 DEF Reached, Suspends, Successor
  <2>2. CASE result[w] # "waiting"
    BY Zenon, <2>2 DEF Close
  <2> QED
    BY Zenon, <2>1, <2>2
<1> QED
  BY Zenon, <1>1, <1>4, <1>5, <1>6, <1>7, <1>8, <1>9 DEF ExecutionInv

(* A decision on an approval.                                               *)
LEMMA DecisionPreserves ==
  ASSUME ExecutionInv, NEW n \in Nodes, Approve(n) \/ Reject(n)
  PROVE  ExecutionInv'
<1> USE DEF row, queues, switches, counters, workers
<1>1. TypeOK'
  <2>1. CASE Approve(n)
    BY <2>1 DEF Approve, ExecutionInv, TypeOK
  <2>2. CASE Reject(n)
    BY Zenon, <2>2 DEF Reject, ExecutionInv, TypeOK, Ends
  <2> QED
    BY Zenon, <2>1, <2>2
<1>2. /\ \A m \in Nodes : approval[m] = "approved" => approval'[m] = "approved"
      /\ \A m \in Nodes : approval[m] # "absent" => approval'[m] # "absent"
  BY Zenon DEF Approve, Reject, ExecutionInv, TypeOK
<1>3. UNCHANGED <<performed, pc, at, result, waitingOn, resumeNode>>
  BY Zenon DEF Approve, Reject
<1>4. ApprovalGate' /\ PerformedIsPrefix'
  BY Zenon, <1>1, <1>2, <1>3, ApprovalsGrow
<1>5. CompletedDidAll' /\ WaitingHasApproval'
  BY Zenon, <1>2, <1>3 DEF Approve, Reject, CompletedDidAll, WaitingHasApproval, ExecutionInv, NodesOf
<1>6. \A v \in Workers : (pc[v] # "idle" => Reached(at[v]))'
  BY Zenon, <1>1, <1>2, <1>3, ApprovalsGrow
<1>7. \A v \in Workers :
        /\ (pc[v] = "closing" /\ result[v] = "waiting" => Suspends(at[v]))'
        /\ (pc[v] = "closing" /\ result[v] = "completed" => at[v] > Len(Plan))'
  BY Zenon, <1>3 DEF ExecutionInv, Suspends
<1>8. (waitingOn # 0 => Reached(waitingOn) /\ Suspends(waitingOn))'
  BY Zenon, <1>1, <1>2, <1>3, ApprovalsGrow DEF ExecutionInv, Suspends
<1>9. (resumeNode # 0 => waitingOn # 0 /\ resumeNode = waitingOn + 1)'
  BY Zenon, <1>3 DEF ExecutionInv
<1> QED
  BY Zenon, <1>1, <1>4, <1>5, <1>6, <1>7, <1>8, <1>9 DEF ExecutionInv

-----------------------------------------------------------------------------
(* The invariant holds of every behaviour: a run stands only where all     *)
(* earlier approvals are given and all earlier actions performed, whatever *)
(* duplicates, lost workers and kill switches do to the execution.         *)
THEOREM ExecutionInvariant == Spec => []ExecutionInv
<1>1. Init => ExecutionInv
  <2> SUFFICES ASSUME Init PROVE ExecutionInv
    OBVIOUS
  <2>0. 1 \in 1..Len(Plan) + 1 /\ "completed" \in Ends
    BY PlanFacts DEF Ends
  <2>1. TypeOK
    BY Zenon, <2>0 DEF Init, TypeOK
  <2> QED
    BY <2>1 DEF Init, ExecutionInv, ApprovalGate, PerformedIsPrefix, CompletedDidAll,
       WaitingHasApproval, NodesOf, Nodes
<1>2. ExecutionInv /\ [Next]_vars => ExecutionInv'
  <2> SUFFICES ASSUME ExecutionInv, [Next]_vars PROVE ExecutionInv'
    BY SMTT(40)
  <2>1. CASE UNCHANGED vars
    BY <2>1 DEF vars, row, queues, workers, switches, counters, ExecutionInv, TypeOK,
       ApprovalGate, PerformedIsPrefix, CompletedDidAll, WaitingHasApproval, Reached, Suspends
  <2>2. CASE \E w \in Workers : Receive(w)
    BY Zenon, <2>2, BackgroundPreserves, StartPreserves DEF Receive
  <2>3. CASE \E w \in Workers : Proceed(w)
    BY Zenon, <2>3, StartPreserves, StopPreserves, ActionPreserves, ClosePreserves DEF Proceed
  <2>4. CASE \E w \in Workers : WorkerLost(w)
    BY Zenon, <2>4, StartPreserves
  <2>5. CASE \E n \in Nodes : Approve(n) \/ Reject(n)
    BY Zenon, <2>5, DecisionPreserves
  <2>6. CASE \/ CreateExecution \/ TriggerAgain \/ SweepSelects \/ SweepCommits
             \/ ClockReaches \/ ToggleKill
    BY Zenon, <2>6, BackgroundPreserves
  <2> QED
    BY Zenon, <2>1, <2>2, <2>3, <2>4, <2>5, <2>6 DEF Next
<1> QED
  BY <1>1, <1>2, PTL DEF Spec

(* The execution row, its approvals and the runs keep their types.         *)
THEOREM TypeCorrect == Spec => []TypeOK
BY ExecutionInvariant, PTL DEF ExecutionInv

(* No action behind an approval node is performed before that approval.    *)
THEOREM ApprovalGateHolds == Spec => []ApprovalGate
BY ExecutionInvariant, PTL DEF ExecutionInv

(* Effects are committed in plan order over all runs of the execution.     *)
THEOREM EffectsInOrder == Spec => []PerformedIsPrefix
BY ExecutionInvariant, PTL DEF ExecutionInv

(* "completed" is only written by a run behind which every action is done. *)
THEOREM CompletedIsTrue == Spec => []CompletedDidAll
BY ExecutionInvariant, PTL DEF ExecutionInv

(* The approval row exists while the execution waits on its node.          *)
THEOREM ApprovalRowExists == Spec => []WaitingHasApproval
BY ExecutionInvariant, PTL DEF ExecutionInv

-----------------------------------------------------------------------------
(* A nonempty set of numbers has a least one.                               *)
LEMMA LeastNatural ==
  ASSUME NEW S \in SUBSET Nat, S # {}
  PROVE  \E x \in S : \A y \in S : x <= y
<1> DEFINE R == OpToRel(<, Nat)
<1>1. IsWellFoundedOn(R, Nat)
  BY Zenon, NatLessThanWellFounded
<1>2. \A x, y \in Nat : <<x, y>> \in R <=> x < y
  BY Zenon DEF OpToRel
<1> HIDE DEF R
<1>3. \E x \in S : \A y \in S : ~(<<y, x>> \in R)
  BY Zenon, <1>1, WFMin
<1>4. \E x \in S : \A y \in S : ~(y < x)
  BY Zenon, <1>2, <1>3
<1> QED
  BY SMT, <1>4

-----------------------------------------------------------------------------
(* AssignmentRules.  A rule, whatever was written over it; and a rule whose *)
(* cursor points into its own targets.                                      *)
AnyRow == [exists : BOOLEAN, is_active : BOOLEAN, position : Nat,
           strategy : Strategies, targets : TargetLists, cursor : Nat]

Fits(entry) == entry.cursor < Len(entry.targets)

RoundRobin(entry) == entry.exists /\ entry.strategy = "round_robin"

(* Whose turn has come once more in this round: those from the place the    *)
(* round began up to the cursor, going around the end of the list.          *)
HadTurn(s, c, j) == IF s <= c THEN s <= j /\ j < c ELSE s <= j \/ j < c

EvenFrom(entry, g, k, s) ==
  \A j \in DOMAIN entry.targets :
    g[entry.targets[j]] = IF HadTurn(s, entry.cursor, j - 1) THEN k + 1 ELSE k

Even(entry, g) ==
  /\ Fits(entry)
  /\ \E k \in Nat, s \in Nat : s < Len(entry.targets) /\ EvenFrom(entry, g, k, s)
  /\ \A u \in Members : (\A j \in DOMAIN entry.targets : entry.targets[j] # u) => g[u] = 0

Count(gives, r, u) == Cardinality({i \in DOMAIN gives : gives[i] = <<r, u>>})

Plus(g, gives, r) == [u \in Members |-> g[u] + Count(gives, r, u)]

(* What a request's own changes to a rule and its own assignments by it do  *)
(* to an even count.                                                        *)
KeepsEven(old, new, gives, r) ==
  RoundRobin(new) =>
    /\ RoundRobin(old)
    /\ \A g \in [Members -> Nat] : Even(old, g) => Even(new, Plus(g, gives, r))

KeepsFit(old, new) == Fits(old) => Fits(new)

Gives == Seq(Rules \X Members)

RuleReqOK(rows, x) ==
  /\ DOMAIN x = {"writes", "stale", "gives", "restarts"}
  /\ Dirty(x) \subseteq Rules /\ x.gives \in Gives
  /\ \A r \in Dirty(x) :
       LET w == x.writes[r] IN
         /\ w.old \in AnyRow /\ w.new \in AnyRow
         /\ r \notin x.stale => w.old = rows[r]
         /\ KeepsFit(w.old, w.new)
         /\ r \notin x.restarts => KeepsEven(w.old, w.new, x.gives, r)
  /\ \A r \in Rules : r \notin Dirty(x) => \A u \in Members : Count(x.gives, r, u) = 0

RuleReqInv ==
  /\ DOMAIN ruleReq = RuleRequests
  /\ \A q \in RuleRequests : ruleReq[q] # NoRule => RuleReqOK(rule, ruleReq[q])

RuleRowsInv ==
  /\ rule \in [Rules -> AnyRow] /\ given \in [Rules -> [Members -> Nat]]
  /\ \A r \in Rules : r \notin ruleTaint =>
       Fits(rule[r]) /\ (RoundRobin(rule[r]) => Even(rule[r], given[r]))

RuleInv == RuleReqInv /\ RuleRowsInv

-----------------------------------------------------------------------------
(* The target lists.                                                        *)
LEMMA TargetList ==
  ASSUME NEW t \in TargetLists
  PROVE  /\ t \in Seq(Members) /\ Len(t) \in Nat /\ Len(t) > 0 /\ DOMAIN t = 1..Len(t)
         /\ \A i \in DOMAIN t : t[i] \in Members
         /\ \A i, j \in DOMAIN t : t[i] = t[j] => i = j
<1>1. t \in Seq(Members) /\ t # <<>> /\ \A i, j \in DOMAIN t : t[i] = t[j] => i = j
  BY Zenon, RulesAssumption
<1> QED
  BY <1>1

(* The columns of a rule.                                                   *)
LEMMA RowFields ==
  ASSUME NEW entry \in AnyRow
  PROVE  /\ entry.position \in Nat /\ entry.strategy \in Strategies /\ entry.targets \in TargetLists
         /\ entry.cursor \in Nat
BY DEF AnyRow

(* Counting one more assignment.                                            *)
LEMMA CountNone ==
  ASSUME NEW r, NEW u
  PROVE  Count(<<>>, r, u) = 0
<1>1. {i \in DOMAIN <<>> : <<>>[i] = <<r, u>>} = {}
  OBVIOUS
<1> QED
  BY Zenon, <1>1, FS_EmptySet DEF Count

(* One more assignment counts for its rule and its member only.             *)
LEMMA CountMore ==
  ASSUME NEW gives \in Gives, NEW r \in Rules, NEW m \in Members, NEW s \in Rules, NEW u \in Members
  PROVE  /\ Count(gives, s, u) \in Nat
         /\ Count(Append(gives, <<r, m>>), s, u) =
              Count(gives, s, u) + (IF s = r /\ u = m THEN 1 ELSE 0)
<1> DEFINE more == Append(gives, <<r, m>>)
           G == {i \in DOMAIN gives : gives[i] = <<s, u>>}
           H == {i \in DOMAIN more : more[i] = <<s, u>>}
<1>1. /\ Len(gives) \in Nat /\ DOMAIN gives = 1..Len(gives)
      /\ DOMAIN more = 1..(Len(gives) + 1)
      /\ \A i \in 1..Len(gives) : more[i] = gives[i]
      /\ more[Len(gives) + 1] = <<r, m>>
  BY DEF Gives
<1>2. IsFiniteSet(1..Len(gives))
  <2>1. 1 \in Int /\ Len(gives) \in Int
    BY <1>1
  <2> QED
    BY Zenon, <2>1, FS_Interval
<1>3. IsFiniteSet(G) /\ Cardinality(G) \in Nat /\ Len(gives) + 1 \notin G
  <2>1. G \subseteq 1..Len(gives)
    BY Zenon, <1>1
  <2>2. Len(gives) + 1 \notin 1..Len(gives)
    BY <1>1
  <2> QED
    BY Zenon, <1>2, <2>1, <2>2, FS_Subset, FS_CardinalityType
<1>4. \A i : i \in 1..(Len(gives) + 1) <=> i \in 1..Len(gives) \/ i = Len(gives) + 1
  BY <1>1
<1> HIDE DEF more
<1>5. <<r, m>> = <<s, u>> <=> s = r /\ u = m
  BY Zenon
<1>6. CASE s = r /\ u = m
  <2>1. H = G \cup {Len(gives) + 1}
    BY Zenon, <1>1, <1>4, <1>5, <1>6
  <2>2. Cardinality(H) = Cardinality(G) + 1
    BY Zenon, <1>3, <2>1, FS_AddElement
  <2> QED
    BY Zenon, <1>3, <1>6, <2>2 DEF Count, more
<1>7. CASE ~(s = r /\ u = m)
  <2>1. H = G
    BY Zenon, <1>1, <1>4, <1>5, <1>7
  <2>2. Count(more, s, u) = Count(gives, s, u) /\ Count(gives, s, u) \in Nat
    BY Zenon, <2>1, <1>3 DEF Count
  <2> QED
    BY <1>7, <2>2 DEF more
<1> QED
  BY Zenon, <1>6, <1>7

(* The rule that decides is one that matches.                               *)
LEMMA FirstIsEligible ==
  ASSUME NEW rows \in [Rules -> AnyRow], NEW p, Eligible(rows, p) # {}
  PROVE  First(rows, p) \in Eligible(rows, p)
<1> DEFINE E == Eligible(rows, p)
           P == {rows[r].position : r \in E}
<1>1. \A r \in E : r \in Rules /\ r \in Nat /\ rows[r].position \in Nat
  BY Zenon, RulesAssumption, RowFields DEF Eligible
<1>2. P \in SUBSET Nat /\ P # {}
  BY Zenon, <1>1
<1> HIDE DEF E
<1>3. PICK x \in P : \A y \in P : x <= y
  <2> HIDE DEF P
  <2> QED
    BY Zenon, <1>2, LeastNatural
<1> DEFINE Q == {r \in E : rows[r].position = x}
<1>4. Q \in SUBSET Nat /\ Q # {}
  BY Zenon, <1>1, <1>3
<1>5. PICK r \in Q : \A s \in Q : r <= s
  <2> HIDE DEF Q
  <2> QED
    BY Zenon, <1>4, LeastNatural
<1>6. r \in E /\ rows[r].position = x /\ \A s \in E : rows[s].position = x => r <= s
  BY Zenon, <1>5
<1>7. \A s \in E : x <= rows[s].position
  BY Zenon, <1>3
<1>8. x \in Nat
  BY Zenon, <1>2, <1>3
<1> HIDE DEF P, Q
<1>9. ASSUME NEW s \in E
      PROVE  Precedes(rows, r, s)
  <2>1. rows[s].position \in Nat /\ x <= rows[s].position
    BY Zenon, <1>1, <1>7
  <2>2. CASE rows[s].position = x
    BY Zenon, <2>2, <1>6 DEF Precedes
  <2>3. CASE rows[s].position # x
    <3>1. x < rows[s].position
      BY <2>1, <2>3, <1>8
    <3> QED
      BY Zenon, <3>1, <1>6 DEF Precedes
  <2> QED
    BY Zenon, <2>2, <2>3
<1> QED
  BY Zenon, <1>6, <1>9 DEF First, E

-----------------------------------------------------------------------------
(* The cursor goes around the targets.                                      *)
LEMMA CursorGoesAround ==
  ASSUME NEW c \in Nat, NEW n \in Nat, c < n
  PROVE  c % n = c /\ (c + 1) % n = IF c + 1 = n THEN 0 ELSE c + 1
OBVIOUS

(* One assignment by a round-robin rule: the count stays even.              *)
LEMMA GiveIsEven ==
  ASSUME NEW entry \in AnyRow, entry.strategy = "round_robin", NEW g \in [Members -> Nat], Even(entry, g),
         NEW new, new = [entry EXCEPT !.cursor = NextCursor(entry)],
         NEW h, h = [u \in Members |-> g[u] + (IF u = Chosen(entry) THEN 1 ELSE 0)]
  PROVE  Even(new, h) /\ Chosen(entry) \in Members /\ new \in AnyRow
<1>1. PICK t \in TargetLists : t = entry.targets
  BY Zenon, RowFields
<1>2. PICK n \in Nat : n = Len(t) /\ n > 0 /\ DOMAIN t = 1..n
  BY Zenon, TargetList
<1>3. /\ \A i \in DOMAIN t : t[i] \in Members
      /\ \A i, j \in DOMAIN t : t[i] = t[j] => i = j
  BY Zenon, TargetList
<1>4. PICK c \in Nat : c = entry.cursor /\ c < n
  BY Zenon, <1>1, <1>2, RowFields DEF Even, Fits
<1>5. PICK d : d = NextCursor(entry)
  BY Zenon
<1>6. d = IF c + 1 = n THEN 0 ELSE c + 1
  <2>1. d = (c + 1) % n
    BY <1>1, <1>2, <1>4, <1>5 DEF NextCursor
  <2> QED
    BY Zenon, <2>1, <1>4, CursorGoesAround
<1>7. d \in Nat /\ d < n
  BY <1>2, <1>4, <1>6
<1>8. new.cursor = d /\ new.targets = t /\ new \in AnyRow
  BY <1>1, <1>5, <1>7 DEF AnyRow
<1>9. Chosen(entry) = t[c + 1] /\ c + 1 \in DOMAIN t
  <2>1. c % n = c
    BY Zenon, <1>4, CursorGoesAround
  <2>2. Chosen(entry) = t[(c % n) + 1]
    BY <1>1, <1>2, <1>4 DEF Chosen
  <2>3. c + 1 \in 1..n
    BY <1>4
  <2> QED
    BY Zenon, <1>2, <2>1, <2>2, <2>3
<1>10. PICK k \in Nat, s \in Nat : s < n /\ EvenFrom(entry, g, k, s)
  BY Zenon, <1>1, <1>2 DEF Even
<1>11. ASSUME NEW j \in DOMAIN t
       PROVE  /\ d = s => h[t[j]] = IF HadTurn(s, d, j - 1) THEN k + 2 ELSE k + 1
              /\ d # s => h[t[j]] = IF HadTurn(s, d, j - 1) THEN k + 1 ELSE k
  <2>1. t[j] \in Members /\ g[t[j]] = (IF HadTurn(s, c, j - 1) THEN k + 1 ELSE k)
    BY Zenon, <1>1, <1>3, <1>4, <1>10 DEF EvenFrom
  <2>2. t[j] = Chosen(entry) <=> j = c + 1
    BY Zenon, <1>3, <1>9
  <2>3. h[t[j]] = g[t[j]] + (IF j = c + 1 THEN 1 ELSE 0)
    BY Zenon, <2>1, <2>2
  <2>4. /\ s \in 0..(n - 1) /\ c \in 0..(n - 1) /\ j - 1 \in 0..(n - 1) /\ (j - 1 = c <=> j = c + 1)
    BY SMTT(40), <1>2, <1>4, <1>10
  <2>5. h[t[j]] = g[t[j]] + (IF j - 1 = c THEN 1 ELSE 0)
    BY Zenon, <2>3, <2>4
  <2>6. PICK a : a = g[t[j]]
    BY Zenon
  <2>7. PICK b : b = h[t[j]]
    BY Zenon
  <2>8. PICK i \in 0..(n - 1) : i = j - 1
    BY Zenon, <2>4
  <2>9. a = (IF HadTurn(s, c, i) THEN k + 1 ELSE k) /\ b = a + (IF i = c THEN 1 ELSE 0)
    BY Zenon, <2>1, <2>5, <2>6, <2>7, <2>8
  <2>10. /\ d = s => b = IF HadTurn(s, d, i) THEN k + 2 ELSE k + 1
         /\ d # s => b = IF HadTurn(s, d, i) THEN k + 1 ELSE k
    BY <2>4, <2>9, <1>6 DEF HadTurn
  <2> QED
    BY Zenon, <2>7, <2>8, <2>10
<1>12. PICK k2 \in Nat : EvenFrom(new, h, k2, s)
  <2>1. CASE d = s
    <3>1. k + 1 \in Nat /\ (k + 1) + 1 = k + 2
      OBVIOUS
    <3>2. \A j \in DOMAIN t : h[t[j]] = IF HadTurn(s, d, j - 1) THEN (k + 1) + 1 ELSE k + 1
      BY Zenon, <1>11, <2>1, <3>1
    <3>3. EvenFrom(new, h, k + 1, s)
      BY Zenon, <1>8, <3>2 DEF EvenFrom
    <3> QED
      BY Zenon, <3>1, <3>3
  <2>2. CASE d # s
    BY ZenonT(40), <1>8, <1>11, <2>2 DEF EvenFrom
  <2> QED
    BY Zenon, <2>1, <2>2
<1>13. ASSUME NEW u \in Members, \A j \in DOMAIN t : t[j] # u
       PROVE  h[u] = 0
  <2>1. g[u] = 0 /\ u # Chosen(entry)
    BY Zenon, <1>1, <1>9, <1>13 DEF Even
  <2>2. h[u] = g[u] + 0
    BY Zenon, <2>1
  <2> QED
    BY <2>1, <2>2
<1>14. Even(new, h)
  BY Zenon, <1>2, <1>7, <1>8, <1>10, <1>12, <1>13 DEF Even, Fits
<1>15. t[c + 1] \in Members
  BY Zenon, <1>3, <1>9
<1> QED
  BY Zenon, <1>8, <1>9, <1>14, <1>15

(* Any rule's choice is a member, and its cursor stays in its targets.      *)
LEMMA GiveFits ==
  ASSUME NEW entry \in AnyRow, NEW new, new = [entry EXCEPT !.cursor = NextCursor(entry)]
  PROVE  /\ new \in AnyRow /\ Chosen(entry) \in Members /\ KeepsFit(entry, new)
         /\ new.exists = entry.exists /\ new.strategy = entry.strategy
<1>1. PICK t \in TargetLists : t = entry.targets
  BY Zenon, RowFields
<1>2. PICK n \in Nat : n = Len(t) /\ n > 0 /\ DOMAIN t = 1..n
  BY Zenon, TargetList
<1>3. entry.cursor \in Nat /\ entry.strategy \in Strategies
  BY Zenon, RowFields
<1>4. entry.cursor % n \in 0..(n - 1) /\ (entry.cursor + 1) % n \in 0..(n - 1)
  BY <1>2, <1>3
<1>5. NextCursor(entry) \in Nat /\ (entry.cursor < n => NextCursor(entry) < n)
  BY <1>1, <1>2, <1>3, <1>4 DEF NextCursor
<1>6. \E i \in 1..n : Chosen(entry) = t[i]
  <2>1. PICK i : i = IF entry.strategy = "first_available" THEN 1 ELSE (entry.cursor % n) + 1
    BY Zenon
  <2>2. i \in 1..n
    BY <1>2, <1>4, <2>1
  <2>3. Chosen(entry) = t[i]
    BY Zenon, <1>1, <1>2, <2>1 DEF Chosen
  <2> QED
    BY Zenon, <2>2, <2>3
<1>7. /\ new \in AnyRow /\ new.exists = entry.exists /\ new.strategy = entry.strategy
      /\ new.targets = t /\ new.cursor = NextCursor(entry)
  BY <1>1, <1>5 DEF AnyRow
<1>8. KeepsFit(entry, new)
  BY Zenon, <1>1, <1>2, <1>5, <1>7 DEF KeepsFit, Fits
<1>9. \A i \in 1..n : t[i] \in Members
  BY Zenon, <1>2, TargetList
<1>10. Chosen(entry) \in Members
  BY Zenon, <1>6, <1>9
<1> QED
  BY Zenon, <1>7, <1>8, <1>10

(* The rows and the assignments a request has so far.                       *)
AccOK(acc) ==
  /\ acc.rows \in [Rules -> AnyRow] /\ acc.gives \in Gives
  /\ \A r \in Rules : /\ KeepsFit(rule[r], acc.rows[r])
                      /\ KeepsEven(rule[r], acc.rows[r], acc.gives, r)

(* An evaluation starts with the rules as they are and no assignment.       *)
LEMMA NothingYet ==
  ASSUME RuleRowsInv, NEW start, start = [rows |-> rule, gives |-> <<>>]
  PROVE  AccOK(start)
<1>1. start.rows = rule /\ start.gives = <<>>
  BY Zenon
<1>2. <<>> \in Gives
  BY DEF Gives
<1>3. ASSUME NEW r \in Rules, NEW g \in [Members -> Nat]
      PROVE  Plus(g, <<>>, r) = g
  <2>1. \A u \in Members : g[u] + Count(<<>>, r, u) = g[u]
    <3>1. ASSUME NEW u \in Members PROVE g[u] + 0 = g[u]
      OBVIOUS
    <3> QED
      BY Zenon, <3>1, CountNone
  <2>2. Plus(g, <<>>, r) = [u \in Members |-> g[u]]
    BY Zenon, <2>1 DEF Plus
  <2> QED
    BY Zenon, <2>2
<1>4. \A r \in Rules : KeepsEven(rule[r], rule[r], <<>>, r)
  BY Zenon, <1>3 DEF KeepsEven
<1> QED
  BY Zenon, <1>1, <1>2, <1>4 DEF AccOK, KeepsFit, RuleRowsInv

(* An assignment moves the cursor of the rule that matched.                 *)
LEMMA AssignStep ==
  ASSUME NEW acc, AccOK(acc), NEW p
  PROVE  AccOK(Assign(acc, p))
<1>1. CASE Eligible(acc.rows, p) = {}
  BY Zenon, <1>1 DEF Assign
<1>2. CASE Eligible(acc.rows, p) # {}
  <2>1. PICK rows : rows = acc.rows /\ rows \in [Rules -> AnyRow]
    BY Zenon DEF AccOK
  <2>2. PICK gives : gives = acc.gives /\ gives \in Gives
    BY Zenon DEF AccOK
  <2>3. PICK r \in Rules : r = First(rows, p)
    BY Zenon, <1>2, <2>1, FirstIsEligible DEF Eligible
  <2>4. PICK entry \in AnyRow : entry = rows[r]
    BY Zenon, <2>1
  <2>5. PICK m : m = Chosen(entry)
    BY Zenon
  <2>6. PICK new : new = [entry EXCEPT !.cursor = NextCursor(entry)]
    BY Zenon
  <2>7. /\ new \in AnyRow /\ m \in Members /\ KeepsFit(entry, new)
        /\ new.exists = entry.exists /\ new.strategy = entry.strategy
    BY Zenon, <2>5, <2>6, GiveFits
  <2>8. PICK out : out = Assign(acc, p)
    BY Zenon
  <2>9. /\ out.rows = [rows EXCEPT ![r] = new] /\ out.gives = Append(gives, <<r, m>>)
    <3>1. out = [rows |-> [rows EXCEPT ![r].cursor = NextCursor(rows[r])],
                 gives |-> Append(gives, <<r, m>>)]
      BY Zenon, <1>2, <2>1, <2>2, <2>3, <2>4, <2>5, <2>8 DEF Assign
    <3>2. [rows EXCEPT ![r].cursor = NextCursor(rows[r])] = [rows EXCEPT ![r] = new]
      BY <2>4, <2>6
    <3> QED
      BY Zenon, <3>1, <3>2
  <2>10. out.rows \in [Rules -> AnyRow] /\ out.gives \in Gives
    <3>1. <<r, m>> \in Rules \X Members
      BY Zenon, <2>7
    <3>2. out.gives \in Gives
      BY <2>2, <2>9, <3>1 DEF Gives
    <3> QED
      BY Zenon, <2>1, <2>7, <2>9, <3>2
  <2>11. out.rows[r] = new /\ \A s \in Rules : s # r => out.rows[s] = rows[s]
    BY Zenon, <2>1, <2>9
  <2>12. ASSUME NEW s \in Rules, NEW g \in [Members -> Nat]
         PROVE  /\ Plus(g, gives, s) \in [Members -> Nat]
                /\ Plus(g, out.gives, s) =
                     [u \in Members |-> Plus(g, gives, s)[u] + (IF s = r /\ u = m THEN 1 ELSE 0)]
    <3>1. ASSUME NEW u \in Members
          PROVE  /\ g[u] + Count(gives, s, u) \in Nat
                 /\ g[u] + Count(out.gives, s, u) =
                      (g[u] + Count(gives, s, u)) + (IF s = r /\ u = m THEN 1 ELSE 0)
      <4>1. /\ Count(gives, s, u) \in Nat
            /\ Count(out.gives, s, u) = Count(gives, s, u) + (IF s = r /\ u = m THEN 1 ELSE 0)
        <5>1. /\ Count(gives, s, u) \in Nat
              /\ Count(Append(gives, <<r, m>>), s, u) =
                   Count(gives, s, u) + (IF s = r /\ u = m THEN 1 ELSE 0)
          BY <2>2, <2>7, CountMore
        <5> QED
          BY Zenon, <5>1, <2>9
      <4>2. g[u] \in Nat
        BY Zenon
      <4> QED
        BY <4>1, <4>2
    <3> QED
      BY Zenon, <3>1 DEF Plus
  <2>13. ASSUME NEW s \in Rules, s # r
         PROVE  KeepsEven(rule[s], out.rows[s], out.gives, s)
    <3>1. ASSUME NEW g \in [Members -> Nat]
          PROVE  Plus(g, out.gives, s) = Plus(g, gives, s)
      <4>1. \A u \in Members : Plus(g, gives, s)[u] + (IF s = r /\ u = m THEN 1 ELSE 0)
                                 = Plus(g, gives, s)[u]
        <5>1. ASSUME NEW u \in Members PROVE Plus(g, gives, s)[u] + 0 = Plus(g, gives, s)[u]
          <6>1. Plus(g, gives, s)[u] \in Nat
            BY Zenon, <2>12
          <6> QED
            BY <6>1
        <5> QED
          BY Zenon, <5>1, <2>13
      <4>2. Plus(g, out.gives, s) = [u \in Members |-> Plus(g, gives, s)[u]]
        BY ZenonT(40), <4>1, <2>12
      <4>3. PICK f \in [Members -> Nat] : f = Plus(g, gives, s)
        BY Zenon, <2>12
      <4> QED
        BY Zenon, <4>2, <4>3
    <3>2. KeepsEven(rule[s], rows[s], gives, s)
      BY Zenon, <2>1, <2>2 DEF AccOK
    <3> QED
      BY Zenon, <3>1, <3>2, <2>11, <2>13 DEF KeepsEven
  <2>14. KeepsEven(rule[r], new, out.gives, r)
    <3> SUFFICES ASSUME RoundRobin(new)
                 PROVE  /\ RoundRobin(rule[r])
                        /\ \A g \in [Members -> Nat] : Even(rule[r], g) => Even(new, Plus(g, out.gives, r))
      BY Zenon DEF KeepsEven
    <3>1. RoundRobin(entry) /\ entry.strategy = "round_robin"
      BY Zenon, <2>7 DEF RoundRobin
    <3>2. KeepsEven(rule[r], entry, gives, r)
      BY Zenon, <2>1, <2>2, <2>4 DEF AccOK
    <3>3. ASSUME NEW g \in [Members -> Nat], Even(rule[r], g)
          PROVE  Even(new, Plus(g, out.gives, r))
      <4>1. PICK f \in [Members -> Nat] : f = Plus(g, gives, r)
        BY Zenon, <2>12
      <4>2. Even(entry, f)
        BY Zenon, <3>1, <3>2, <3>3, <4>1 DEF KeepsEven
      <4>3. Plus(g, out.gives, r) = [u \in Members |-> f[u] + (IF u = Chosen(entry) THEN 1 ELSE 0)]
        BY ZenonT(40), <2>5, <2>12, <4>1
      <4> QED
        BY Zenon, <2>6, <3>1, <4>2, <4>3, GiveIsEven
    <3> QED
      BY Zenon, <3>1, <3>2, <3>3 DEF KeepsEven
  <2>15. \A s \in Rules : KeepsFit(rule[s], out.rows[s])
    BY Zenon, <2>1, <2>4, <2>7, <2>11 DEF AccOK, KeepsFit
  <2> QED
    BY Zenon, <2>8, <2>10, <2>11, <2>13, <2>14, <2>15 DEF AccOK
<1> QED
  BY Zenon, <1>1, <1>2

-----------------------------------------------------------------------------
(* A request loads the rules, decides by some of them and changes some.     *)
LEMMA RulesLoad ==
  ASSUME RuleInv, NEW q \in RuleRequests, NEW rows \in [Rules -> AnyRow], NEW gives \in Gives,
         NEW restarts, LoadRules(q, rows, gives, restarts),
         \A r \in Rules : /\ KeepsFit(rule[r], rows[r])
                          /\ r \notin restarts => KeepsEven(rule[r], rows[r], gives, r)
  PROVE  RuleInv'
<1>1. PICK used : used = {r \in Rules : rows[r] # rule[r] \/ \E i \in DOMAIN gives : gives[i][1] = r}
  BY Zenon
<1>2. PICK writes : writes = [r \in used |-> [old |-> rule[r], new |-> rows[r]]]
  BY Zenon
<1>3. PICK x : x = [writes |-> writes, stale |-> {}, gives |-> gives, restarts |-> restarts]
  BY Zenon
<1>4. ruleReq' = [ruleReq EXCEPT ![q] = x] /\ UNCHANGED <<rule, ruleTaint, given>>
  BY Zenon, <1>1, <1>2, <1>3 DEF LoadRules
<1>5. /\ DOMAIN x = {"writes", "stale", "gives", "restarts"} /\ x.writes = writes
      /\ x.stale = {} /\ x.gives = gives /\ x.restarts = restarts
  BY <1>3
<1>6. Dirty(x) = used /\ used \subseteq Rules
  BY Zenon, <1>1, <1>2, <1>5 DEF Dirty
<1>7. \A r \in used : writes[r].old = rule[r] /\ writes[r].new = rows[r]
  BY Zenon, <1>2
<1>8. ASSUME NEW r \in Rules, r \notin used, NEW u \in Members
      PROVE  Count(gives, r, u) = 0
  <2>1. ASSUME NEW i \in DOMAIN gives, gives[i] = <<r, u>> PROVE FALSE
    <3>1. gives[i][1] = r
      BY <2>1
    <3> QED
      BY Zenon, <3>1, <1>1, <1>8
  <2>2. {i \in DOMAIN gives : gives[i] = <<r, u>>} = {}
    BY Zenon, <2>1
  <2> QED
    BY Zenon, <2>2, FS_EmptySet DEF Count
<1>9. \A r \in Rules : rule[r] \in AnyRow /\ rows[r] \in AnyRow
  BY Zenon DEF RuleInv, RuleRowsInv
<1>10. RuleReqOK(rule, x)
  BY Zenon, <1>5, <1>6, <1>7, <1>8, <1>9 DEF RuleReqOK
<1>11. RuleReqInv'
  BY Zenon, <1>4, <1>10 DEF RuleInv, RuleReqInv
<1> QED
  BY Zenon, <1>4, <1>11 DEF RuleInv, RuleRowsInv

(* An edit that leaves a rule's place in its targets alone.                 *)
SamePlace(old, new) ==
  /\ new.targets = old.targets /\ new.cursor = old.cursor
  /\ RoundRobin(new) => RoundRobin(old)

(* A request that edits rules without assigning.                            *)
LEMMA EditLoads ==
  ASSUME RuleInv, NEW q \in RuleRequests, NEW rows \in [Rules -> AnyRow], NEW restarts,
         LoadRules(q, rows, <<>>, restarts),
         \A r \in Rules : \/ SamePlace(rule[r], rows[r])
                          \/ r \in restarts /\ KeepsFit(rule[r], rows[r])
  PROVE  RuleInv'
<1>1. PICK start : start = [rows |-> rule, gives |-> <<>>]
  BY Zenon
<1>2. AccOK(start) /\ start.rows = rule /\ start.gives = <<>>
  BY Zenon, <1>1, NothingYet DEF RuleInv
<1>3. \A r \in Rules : KeepsEven(rule[r], rule[r], <<>>, r)
  BY Zenon, <1>2 DEF AccOK
<1>4. ASSUME NEW r \in Rules, SamePlace(rule[r], rows[r])
      PROVE  KeepsFit(rule[r], rows[r]) /\ KeepsEven(rule[r], rows[r], <<>>, r)
  <2>1. \A g : Even(rule[r], g) => Even(rows[r], g)
    <3>1. PICK t : rule[r].targets = t /\ rows[r].targets = t
      BY Zenon, <1>4 DEF SamePlace
    <3>2. PICK c : rule[r].cursor = c /\ rows[r].cursor = c
      BY Zenon, <1>4 DEF SamePlace
    <3>3. ASSUME NEW g, NEW k, NEW s, EvenFrom(rule[r], g, k, s) PROVE EvenFrom(rows[r], g, k, s)
      BY Zenon, <3>1, <3>2, <3>3 DEF EvenFrom
    <3> QED
      BY Zenon, <3>1, <3>2, <3>3 DEF Even, Fits
  <2> QED
    BY Zenon, <1>3, <1>4, <2>1 DEF SamePlace, KeepsEven, KeepsFit, Fits
<1>5. <<>> \in Gives
  BY Zenon, <1>2 DEF AccOK
<1> QED
  BY Zenon, <1>4, <1>5, RulesLoad

(* One rule set to another entry.                                             *)
LEMMA OneRuleSet ==
  ASSUME RuleInv, NEW q \in RuleRequests, NEW r \in Rules, NEW new \in AnyRow, NEW restarts,
         LoadRules(q, [rule EXCEPT ![r] = new], <<>>, restarts),
         \/ SamePlace(rule[r], new)
         \/ r \in restarts /\ KeepsFit(rule[r], new)
  PROVE  RuleInv'
<1>1. PICK rows : rows = [rule EXCEPT ![r] = new]
  BY Zenon
<1>2. rule \in [Rules -> AnyRow]
  BY Zenon DEF RuleInv, RuleRowsInv
<1>3. /\ rows \in [Rules -> AnyRow] /\ rows[r] = new
      /\ \A s \in Rules : s # r => rows[s] = rule[s]
  BY Zenon, <1>1, <1>2
<1>4. \A s \in Rules : s # r => SamePlace(rule[s], rows[s])
  BY Zenon, <1>3 DEF SamePlace
<1>5. LoadRules(q, rows, <<>>, restarts)
  BY Zenon, <1>1
<1>6. \A s \in Rules : \/ SamePlace(rule[s], rows[s])
                       \/ s \in restarts /\ KeepsFit(rule[s], rows[s])
  BY Zenon, <1>3, <1>4
<1> QED
  BY Zenon, <1>3, <1>5, <1>6, EditLoads

(* create_rule.                                                             *)
LEMMA CreateRuleStep ==
  ASSUME RuleInv, NEW q \in RuleRequests, NEW r \in Rules, NEW t \in TargetLists, create_rule(q, r, t)
  PROVE  RuleInv'
<1>1. PICK existing : existing = {s \in Rules : rule[s].exists}
  BY Zenon
<1>2. PICK n : n = Cardinality(existing)
  BY Zenon
<1>3. n \in Nat
  <2>1. existing \subseteq Rules
    BY Zenon, <1>1
  <2> QED
    BY Zenon, <1>2, <2>1, RulesAssumption, FS_Subset, FS_CardinalityType
<1>4. PICK new : new = NewRule(t, n)
  BY Zenon
<1>5. new \in AnyRow /\ new.targets = t /\ new.cursor = 0
  BY <1>3, <1>4 DEF AnyRow, NewRule, Strategies
<1>6. Fits(new)
  <2>1. 0 < Len(t)
    BY TargetList
  <2> QED
    BY Zenon, <1>5, <2>1 DEF Fits
<1>7. LoadRules(q, [rule EXCEPT ![r] = new], <<>>, {r})
  BY Zenon, <1>1, <1>2, <1>4 DEF create_rule
<1> QED
  BY Zenon, <1>5, <1>6, <1>7, OneRuleSet DEF KeepsFit

(* update_rule.                                                             *)
LEMMA UpdateRuleStep ==
  ASSUME RuleInv, NEW q \in RuleRequests, NEW r \in Rules, update_rule(q, r)
  PROVE  RuleInv'
<1>1. rule \in [Rules -> AnyRow]
  BY Zenon DEF RuleInv, RuleRowsInv
<1>2. PICK entry \in AnyRow : entry = rule[r]
  BY Zenon, <1>1
<1>3. ASSUME NEW t \in TargetLists, LoadRules(q, [rule EXCEPT ![r] = Retarget(@, t)], <<>>, {r})
      PROVE  RuleInv'
  <2>1. PICK new : new = Retarget(entry, t)
    BY Zenon
  <2>2. new \in AnyRow /\ new.targets = t /\ new.cursor = 0
    BY Zenon, <2>1 DEF AnyRow, Retarget
  <2>3. Fits(new)
    <3>1. 0 < Len(t)
      BY TargetList
    <3> QED
      BY Zenon, <2>2, <3>1 DEF Fits
  <2>4. LoadRules(q, [rule EXCEPT ![r] = new], <<>>, {r})
    BY Zenon, <1>1, <1>2, <1>3, <2>1
  <2> QED
    BY Zenon, <2>2, <2>3, <2>4, OneRuleSet DEF KeepsFit
<1>4. ASSUME NEW s \in Strategies, LoadRules(q, [rule EXCEPT ![r].strategy = s], <<>>, {r})
      PROVE  RuleInv'
  <2>1. PICK new : new = [entry EXCEPT !.strategy = s]
    BY Zenon
  <2>2. new \in AnyRow /\ new.targets = entry.targets /\ new.cursor = entry.cursor
    BY <2>1 DEF AnyRow
  <2>3. [rule EXCEPT ![r].strategy = s] = [rule EXCEPT ![r] = new]
    BY <1>1, <1>2, <2>1
  <2>4. LoadRules(q, [rule EXCEPT ![r] = new], <<>>, {r})
    BY Zenon, <1>4, <2>3
  <2> QED
    BY Zenon, <1>2, <2>2, <2>4, OneRuleSet DEF KeepsFit, Fits
<1>5. CASE LoadRules(q, [rule EXCEPT ![r].is_active = ~@], <<>>, {})
  <2>1. PICK new : new = [entry EXCEPT !.is_active = ~@]
    BY Zenon
  <2>2. /\ new \in AnyRow /\ new.targets = entry.targets /\ new.cursor = entry.cursor
        /\ new.exists = entry.exists /\ new.strategy = entry.strategy
    BY Zenon, <2>1 DEF AnyRow
  <2>3. [rule EXCEPT ![r].is_active = ~@] = [rule EXCEPT ![r] = new]
    BY <1>1, <1>2, <2>1
  <2>4. LoadRules(q, [rule EXCEPT ![r] = new], <<>>, {})
    BY Zenon, <1>5, <2>3
  <2>5. SamePlace(entry, new)
    BY Zenon, <2>2 DEF SamePlace, RoundRobin
  <2> QED
    BY Zenon, <1>2, <2>2, <2>4, <2>5, OneRuleSet
<1> QED
  BY Zenon, <1>3, <1>4, <1>5 DEF update_rule

(* delete_rule.                                                             *)
LEMMA DeleteRuleStep ==
  ASSUME RuleInv, NEW q \in RuleRequests, NEW r \in Rules, delete_rule(q, r)
  PROVE  RuleInv'
<1>1. rule \in [Rules -> AnyRow]
  BY Zenon DEF RuleInv, RuleRowsInv
<1>2. PICK entry \in AnyRow : entry = rule[r]
  BY Zenon, <1>1
<1>3. PICK new : new = [entry EXCEPT !.exists = FALSE]
  BY Zenon
<1>4. new \in AnyRow /\ new.targets = entry.targets /\ new.cursor = entry.cursor /\ ~new.exists
  BY Zenon, <1>3 DEF AnyRow
<1>5. [rule EXCEPT ![r].exists = FALSE] = [rule EXCEPT ![r] = new]
  BY <1>1, <1>2, <1>3
<1>6. LoadRules(q, [rule EXCEPT ![r] = new], <<>>, {})
  BY Zenon, <1>5 DEF delete_rule
<1>7. SamePlace(entry, new)
  BY Zenon, <1>4 DEF SamePlace, RoundRobin
<1> QED
  BY Zenon, <1>2, <1>4, <1>6, <1>7, OneRuleSet

(* reorder_rules.                                                           *)
LEMMA ReorderRulesStep ==
  ASSUME RuleInv, NEW q \in RuleRequests, NEW r \in Rules, NEW s \in Rules, reorder_rules(q, r, s)
  PROVE  RuleInv'
<1>1. rule \in [Rules -> AnyRow]
  BY Zenon DEF RuleInv, RuleRowsInv
<1>2. PICK rows : rows = [rule EXCEPT ![r].position = 0, ![s].position = 1]
  BY Zenon
<1>3. r # s /\ LoadRules(q, rows, <<>>, {})
  BY Zenon, <1>2 DEF reorder_rules
<1>4. ASSUME NEW entry \in AnyRow, NEW n \in {0, 1}
      PROVE  [entry EXCEPT !.position = n] \in AnyRow /\ SamePlace(entry, [entry EXCEPT !.position = n])
  BY DEF AnyRow, SamePlace, RoundRobin
<1>5. /\ rows[r] = [rule[r] EXCEPT !.position = 0]
      /\ rows[s] = [rule[s] EXCEPT !.position = 1]
      /\ \A o \in Rules : o # r /\ o # s => rows[o] = rule[o]
      /\ rows = [o \in Rules |-> rows[o]]
  BY Zenon, <1>1, <1>2, <1>3
<1>6. \A o \in Rules : rule[o] \in AnyRow /\ SamePlace(rule[o], rule[o])
  BY Zenon, <1>1 DEF SamePlace
<1>7. ASSUME NEW o \in Rules PROVE rows[o] \in AnyRow /\ SamePlace(rule[o], rows[o])
  <2>1. PICK entry \in AnyRow : entry = rule[o]
    BY Zenon, <1>6
  <2>2. CASE o = r
    <3>1. rows[o] = [entry EXCEPT !.position = 0]
      BY Zenon, <1>5, <2>1, <2>2
    <3> QED
      BY Zenon, <1>4, <2>1, <3>1
  <2>3. CASE o = s
    <3>1. rows[o] = [entry EXCEPT !.position = 1]
      BY Zenon, <1>5, <2>1, <2>3
    <3> QED
      BY Zenon, <1>4, <2>1, <3>1
  <2> QED
    BY Zenon, <1>5, <1>6, <2>2, <2>3
<1>8. rows \in [Rules -> AnyRow]
  BY Zenon, <1>5, <1>7
<1> QED
  BY Zenon, <1>3, <1>7, <1>8, EditLoads

(* The evaluation of the rules for new leads.                               *)
LEMMA ApplyRulesStep ==
  ASSUME RuleInv, NEW q \in RuleRequests, NEW leads, apply_rules(q, leads)
  PROVE  RuleInv'
<1>1. PICK start : start = [rows |-> rule, gives |-> <<>>]
  BY Zenon
<1>2. PICK one : one = Assign(start, leads[1])
  BY Zenon
<1>3. PICK acc : acc = IF Len(leads) = 1 THEN one ELSE Assign(one, leads[2])
  BY Zenon
<1>4. LoadRules(q, acc.rows, acc.gives, {})
  BY Zenon, <1>1, <1>2, <1>3 DEF apply_rules
<1>5. AccOK(one)
  BY Zenon, <1>1, <1>2, NothingYet, AssignStep DEF RuleInv
<1>6. AccOK(acc)
  BY Zenon, <1>3, <1>5, AssignStep
<1> QED
  BY Zenon, <1>4, <1>6, RulesLoad DEF AccOK

-----------------------------------------------------------------------------
(* A flush over an unchanged rule is what the request set.                  *)
LEMMA FlushRow ==
  ASSUME NEW entry \in AnyRow, NEW old \in AnyRow, NEW new \in AnyRow,
         NEW out, out = Flush(entry, old, new)
  PROVE  out \in AnyRow /\ (entry = old => out = new)
<1>1. DOMAIN entry = DOMAIN new /\ DOMAIN entry = {"exists", "is_active", "position", "strategy", "targets", "cursor"}
  BY DEF AnyRow
<1>2. out = [exists |-> IF new.exists # old.exists THEN new.exists ELSE entry.exists,
             is_active |-> IF new.is_active # old.is_active THEN new.is_active ELSE entry.is_active,
             position |-> IF new.position # old.position THEN new.position ELSE entry.position,
             strategy |-> IF new.strategy # old.strategy THEN new.strategy ELSE entry.strategy,
             targets |-> IF new.targets # old.targets THEN new.targets ELSE entry.targets,
             cursor |-> IF new.cursor # old.cursor THEN new.cursor ELSE entry.cursor]
  BY <1>1 DEF Flush
<1>3. out \in AnyRow
  BY <1>2 DEF AnyRow
<1>4. entry = old => out = new
  BY <1>2 DEF AnyRow
<1> QED
  BY Zenon, <1>3, <1>4

(* A request stays right about the rules that no commit has outdated.       *)
LEMMA OutdatedRequest ==
  ASSUME NEW rows, NEW rows2, NEW x, RuleReqOK(rows, x), NEW ids,
         \A r \in Rules : r \notin ids => rows2[r] = rows[r]
  PROVE  RuleReqOK(rows2, Outdate(x, ids))
<1>1. PICK y : y = Outdate(x, ids)
  BY Zenon
<1>2. DOMAIN x = {"writes", "stale", "gives", "restarts"}
  BY Zenon DEF RuleReqOK
<1>3. /\ DOMAIN y = DOMAIN x /\ y.writes = x.writes /\ y.gives = x.gives
      /\ y.restarts = x.restarts /\ y.stale = x.stale \cup (ids \cap Dirty(x))
  BY <1>1, <1>2 DEF Outdate
<1>4. Dirty(y) = Dirty(x)
  BY Zenon, <1>3 DEF Dirty
<1>5. \A r \in Dirty(y) : r \notin y.stale => y.writes[r].old = rows2[r]
  BY Zenon, <1>3, <1>4 DEF RuleReqOK
<1>6. RuleReqOK(rows2, y)
  BY Zenon, <1>3, <1>4, <1>5 DEF RuleReqOK
<1> QED
  BY Zenon, <1>1, <1>6

(* A rule that nobody was assigned by yet is even.                          *)
LEMMA FreshCount ==
  ASSUME NEW entry \in AnyRow, Fits(entry), NEW g, g = [u \in Members |-> 0]
  PROVE  Even(entry, g)
<1>1. PICK t \in TargetLists : t = entry.targets
  BY Zenon, RowFields
<1>2. entry.cursor \in Nat /\ entry.cursor < Len(t)
  BY Zenon, <1>1, RowFields DEF Fits
<1>3. ASSUME NEW j \in DOMAIN t PROVE ~HadTurn(entry.cursor, entry.cursor, j - 1) /\ g[t[j]] = 0
  <2>1. j \in Nat
    BY TargetList
  <2>2. ~HadTurn(entry.cursor, entry.cursor, j - 1)
    BY <2>1, <1>2 DEF HadTurn
  <2> QED
    BY Zenon, <2>2, TargetList
<1>4. EvenFrom(entry, g, 0, entry.cursor)
  BY Zenon, <1>1, <1>3 DEF EvenFrom
<1>5. 0 \in Nat
  OBVIOUS
<1> QED
  BY Zenon, <1>1, <1>2, <1>4, <1>5 DEF Even

(* Assignments are counted by naturals.                                     *)
LEMMA CountIsNat ==
  ASSUME NEW gives \in Gives, NEW s \in Rules, NEW u \in Members
  PROVE  Count(gives, s, u) \in Nat
BY Zenon, CountMore

(* The commit of a request on the rules.                                    *)
LEMMA CommitRuleStep ==
  ASSUME RuleInv, NEW q \in RuleRequests, CommitRule(q)
  PROVE  RuleInv'
<1>1. PICK x : x = ruleReq[q]
  BY Zenon
<1>2. ruleReq[q] # NoRule /\ RuleReqOK(rule, x)
  BY Zenon, <1>1 DEF CommitRule, RuleInv, RuleReqInv
<1>3. CASE Vanished(x)
  <2>1. ruleReq' = [ruleReq EXCEPT ![q] = NoRule] /\ UNCHANGED <<rule, ruleTaint, given>>
    BY Zenon, <1>1, <1>3 DEF CommitRule
  <2>2. RuleReqInv'
    BY Zenon, <2>1 DEF RuleInv, RuleReqInv
  <2> QED
    BY Zenon, <2>1, <2>2 DEF RuleInv, RuleRowsInv
<1>4. CASE ~Vanished(x)
  <2>1. /\ rule' = Commit(rule, x) /\ ruleTaint' = ruleTaint \cup x.stale
        /\ given' = [s \in Rules |-> [u \in Members |->
             IF s \in x.restarts THEN 0
             ELSE given[s][u] + Cardinality({i \in DOMAIN x.gives : x.gives[i] = <<s, u>>})]]
        /\ ruleReq' = [p \in RuleRequests |->
             IF p = q \/ ruleReq[p] = NoRule THEN NoRule ELSE Outdate(ruleReq[p], Dirty(x))]
    BY ZenonT(40), <1>1, <1>4 DEF CommitRule
  <2>2. rule \in [Rules -> AnyRow] /\ given \in [Rules -> [Members -> Nat]]
    BY Zenon DEF RuleInv, RuleRowsInv
  <2>3. ASSUME NEW s \in Rules
        PROVE  /\ s \notin Dirty(x) => rule'[s] = rule[s]
               /\ s \in Dirty(x) => rule'[s] = Flush(rule[s], x.writes[s].old, x.writes[s].new)
    BY Zenon, <2>1, <2>2 DEF Commit
  <2>4. ASSUME NEW s \in Rules
        PROVE  /\ rule'[s] \in AnyRow
               /\ s \in Dirty(x) /\ s \notin x.stale =>
                    rule'[s] = x.writes[s].new /\ rule[s] = x.writes[s].old
    <3>1. CASE s \notin Dirty(x)
      BY Zenon, <2>2, <2>3, <3>1
    <3>2. CASE s \in Dirty(x)
      <4>1. PICK w : w = x.writes[s]
        BY Zenon
      <4>2. w.old \in AnyRow /\ w.new \in AnyRow /\ (s \notin x.stale => w.old = rule[s])
        BY Zenon, <1>2, <3>2, <4>1 DEF RuleReqOK
      <4>3. PICK entry \in AnyRow : entry = rule[s]
        BY Zenon, <2>2
      <4>4. rule'[s] = Flush(entry, w.old, w.new)
        BY Zenon, <2>3, <3>2, <4>1, <4>3
      <4>5. rule'[s] \in AnyRow /\ (entry = w.old => rule'[s] = w.new)
        BY Zenon, <4>2, <4>4, FlushRow
      <4> QED
        BY Zenon, <4>1, <4>2, <4>3, <4>5
    <3> QED
      BY Zenon, <3>1, <3>2
  <2>5. rule' \in [Rules -> AnyRow]
    <3>1. rule' = [s \in Rules |-> rule'[s]]
      BY Zenon, <2>1, <2>2 DEF Commit
    <3> QED
      BY Zenon, <2>4, <3>1
  <2>6. x.gives \in Gives
    BY Zenon, <1>2 DEF RuleReqOK
  <2>7. ASSUME NEW s \in Rules
        PROVE  /\ given'[s] \in [Members -> Nat]
               /\ s \in x.restarts => given'[s] = [u \in Members |-> 0]
               /\ s \notin x.restarts => given'[s] = Plus(given[s], x.gives, s)
    <3>1. /\ s \in x.restarts => given'[s] = [u \in Members |-> 0]
          /\ s \notin x.restarts => given'[s] = Plus(given[s], x.gives, s)
      BY Zenon, <2>1 DEF Plus, Count
    <3>2. ASSUME NEW u \in Members PROVE given[s][u] + Count(x.gives, s, u) \in Nat
      <4>1. given[s][u] \in Nat /\ Count(x.gives, s, u) \in Nat
        BY Zenon, <2>2, <2>6, CountIsNat
      <4> QED
        BY <4>1
    <3>3. Plus(given[s], x.gives, s) \in [Members -> Nat]
      BY Zenon, <3>2 DEF Plus
    <3>4. [u \in Members |-> 0] \in [Members -> Nat]
      OBVIOUS
    <3> QED
      BY Zenon, <3>1, <3>3, <3>4
  <2>8. given' \in [Rules -> [Members -> Nat]]
    <3>1. given' = [s \in Rules |-> given'[s]]
      BY Zenon, <2>1
    <3> QED
      BY Zenon, <2>7, <3>1
  <2>9. ASSUME NEW s \in Rules, s \notin ruleTaint'
        PROVE  Fits(rule'[s]) /\ (RoundRobin(rule'[s]) => Even(rule'[s], given'[s]))
    <3>1. /\ s \notin ruleTaint /\ s \notin x.stale /\ Fits(rule[s])
          /\ RoundRobin(rule[s]) => Even(rule[s], given[s])
      BY Zenon, <2>1, <2>9 DEF RuleInv, RuleRowsInv
    <3>2. Fits(rule'[s])
      BY Zenon, <1>2, <2>3, <2>4, <3>1 DEF RuleReqOK, KeepsFit
    <3>3. CASE s \in x.restarts
      BY Zenon, <2>4, <2>7, <3>2, <3>3, FreshCount
    <3>4. CASE s \notin x.restarts /\ s \in Dirty(x)
      <4>1. KeepsEven(rule[s], rule'[s], x.gives, s)
        BY Zenon, <1>2, <2>4, <3>1, <3>4 DEF RuleReqOK
      <4>2. given[s] \in [Members -> Nat]
        BY Zenon, <2>2
      <4> QED
        BY Zenon, <2>7, <3>1, <3>2, <3>4, <4>1, <4>2 DEF KeepsEven
    <3>5. CASE s \notin x.restarts /\ s \notin Dirty(x)
      <4>1. PICK g \in [Members -> Nat] : g = given[s]
        BY Zenon, <2>2
      <4>2. \A u \in Members : Count(x.gives, s, u) = 0
        BY Zenon, <1>2, <3>5 DEF RuleReqOK
      <4>3. \A u \in Members : g[u] + Count(x.gives, s, u) = g[u]
        <5>1. ASSUME NEW u \in Members PROVE g[u] + 0 = g[u]
          OBVIOUS
        <5> QED
          BY Zenon, <4>2, <5>1
      <4>4. Plus(g, x.gives, s) = [u \in Members |-> g[u]]
        BY Zenon, <4>3 DEF Plus
      <4>5. given'[s] = g
        BY Zenon, <2>7, <3>5, <4>1, <4>4
      <4> QED
        BY Zenon, <2>3, <3>1, <3>2, <3>5, <4>1, <4>5
    <3> QED
      BY Zenon, <3>2, <3>3, <3>4, <3>5
  <2>10. RuleReqInv'
    <3>1. ASSUME NEW p \in RuleRequests, ruleReq'[p] # NoRule
          PROVE  RuleReqOK(rule', ruleReq'[p])
      <4>1. ruleReq'[p] = Outdate(ruleReq[p], Dirty(x)) /\ RuleReqOK(rule, ruleReq[p])
        BY Zenon, <2>1, <3>1 DEF RuleInv, RuleReqInv
      <4>2. RuleReqOK(rule', Outdate(ruleReq[p], Dirty(x)))
        BY Zenon, <2>3, <4>1, OutdatedRequest
      <4> QED
        BY Zenon, <4>1, <4>2
    <3>2. DOMAIN ruleReq' = RuleRequests
      BY Zenon, <2>1
    <3> QED
      BY Zenon, <3>1, <3>2 DEF RuleReqInv
  <2>11. RuleRowsInv'
    BY Zenon, <2>5, <2>8, <2>9 DEF RuleRowsInv
  <2> QED
    BY Zenon, <2>10, <2>11 DEF RuleInv
<1> QED
  BY Zenon, <1>3, <1>4

(* The invariant of the rules holds at first.                               *)
LEMMA RuleInitially ==
  RuleInit => RuleInv
<1> SUFFICES ASSUME RuleInit PROVE RuleInv
  BY Zenon
<1>1. PICK t \in TargetLists : t = CHOOSE x \in TargetLists : TRUE
  BY Zenon, RulesAssumption
<1>2. PICK entry : entry = [NewRule(t, 0) EXCEPT !.exists = FALSE]
  BY Zenon
<1>3. entry \in AnyRow /\ entry.targets = t /\ entry.cursor = 0 /\ ~entry.exists
  BY Zenon, <1>2 DEF AnyRow, NewRule, Strategies
<1>4. Fits(entry) /\ ~RoundRobin(entry)
  <2>1. 0 < Len(t)
    BY TargetList
  <2> QED
    BY Zenon, <1>3, <2>1 DEF Fits, RoundRobin
<1>5. /\ rule = [r \in Rules |-> entry] /\ ruleReq = [q \in RuleRequests |-> NoRule]
      /\ given = [r \in Rules |-> [u \in Members |-> 0]]
  BY Zenon, <1>1, <1>2 DEF RuleInit
<1>6. given \in [Rules -> [Members -> Nat]]
  BY <1>5
<1> QED
  BY Zenon, <1>3, <1>4, <1>5, <1>6 DEF RuleInv, RuleReqInv, RuleRowsInv

(* Every step keeps the invariant of the rules.                             *)
LEMMA RuleStep ==
  RuleInv /\ [RuleNext]_ruleVars => RuleInv'
<1> SUFFICES ASSUME RuleInv, [RuleNext]_ruleVars PROVE RuleInv'
  BY Zenon
<1>1. CASE UNCHANGED ruleVars
  BY Zenon, <1>1 DEF ruleVars, RuleInv, RuleReqInv, RuleRowsInv
<1>2. CASE RuleNext
  BY Zenon, <1>2, CreateRuleStep, UpdateRuleStep, DeleteRuleStep, ReorderRulesStep, ApplyRulesStep,
     CommitRuleStep DEF RuleNext, RuleRoutes
<1> QED
  BY Zenon, <1>1, <1>2

(* The invariant of the rules makes round robin even.                       *)
LEMMA RuleInvIsEven ==
  RuleInv => RoundRobinEven
<1> SUFFICES ASSUME RuleInv, NEW r \in Rules, r \notin ruleTaint, rule[r].exists,
                    rule[r].strategy = "round_robin",
                    NEW t, t = rule[r].targets
             PROVE  /\ \A u, w \in {t[i] : i \in DOMAIN t} : given[r][u] <= given[r][w] + 1
                    /\ \A u \in Members \ {t[i] : i \in DOMAIN t} : given[r][u] = 0
  BY Zenon DEF RoundRobinEven
<1>1. Even(rule[r], given[r])
  BY Zenon DEF RuleInv, RuleRowsInv, RoundRobin
<1>2. PICK k \in Nat, s \in Nat : EvenFrom(rule[r], given[r], k, s)
  BY Zenon, <1>1 DEF Even
<1>3. \A j \in DOMAIN t : given[r][t[j]] = k \/ given[r][t[j]] = k + 1
  BY Zenon, <1>2 DEF EvenFrom
<1>4. \A u \in {t[i] : i \in DOMAIN t} : given[r][u] = k \/ given[r][u] = k + 1
  BY Zenon, <1>3
<1>5. \A a, b \in {k, k + 1} : a <= b + 1
  OBVIOUS
<1>6. \A u, w \in {t[i] : i \in DOMAIN t} : given[r][u] <= given[r][w] + 1
  BY Zenon, <1>4, <1>5
<1>7. \A u \in Members \ {t[i] : i \in DOMAIN t} : given[r][u] = 0
  BY Zenon, <1>1 DEF Even
<1> QED
  BY Zenon, <1>6, <1>7

(* The rules' inductive invariant: a rule no request wrote from an outdated *)
(* load has given every target the same number of leads, and one more to    *)
(* those between the place its round began and its cursor.                  *)
THEOREM RuleInvariant == RuleSpec => []RuleInv
BY RuleInitially, RuleStep, PTL DEF RuleSpec

(* Round robin is even over time (select_assignee, apply_rules and the CSV  *)
(* import), for any number of rules, targets and requests in flight: a rule *)
(* that no request wrote from an outdated load has given any two of its     *)
(* targets the same number of leads, give or take one, and nobody else any. *)
THEOREM RoundRobinIsEven == RuleSpec => []RoundRobinEven
BY RuleInvariant, RuleInvIsEven, PTL

-----------------------------------------------------------------------------
(* PromptRegistry.  A passing run of a version, and the versions a request  *)
(* may count on, given the tables' contents.                                *)
PassedFor(rn, v, n) == n \in DOMAIN rn /\ rn[n].version = v /\ rn[n].passed

Present(rows) == {v \in Versions : rows[v] # NoPrompt}

PromoteSteps == {"target", "previous", "wait_previous", "promote"}
RollbackSteps == {"current", "wait_current", "rollback"}

(* What a request is asked for, and what it has found out so far.           *)
AskedOK(rows, rn, r) ==
  /\ r.step \in {"sync", "insert"} =>
       r.asked.docs \subseteq Versions /\ \A v \in r.asked.docs : r.asked.content[v] \in Contents
  /\ r.step = "insert" => r.found \subseteq r.asked.docs
  /\ r.step = "evaluate" => r.asked \in AiEvaluationRun
  /\ r.step \in PromoteSteps \cup RollbackSteps =>
       r.asked.version \in Versions /\ r.found \subseteq Present(rows)
  /\ r.step \in {"previous", "wait_previous", "promote"} =>
       r.asked.version \in Present(rows) /\ PassedFor(rn, r.asked.version, r.asked.run)

PromptReqOK(rows, rn, r) ==
  /\ DOMAIN r = {"record", "step", "asked", "found", "locks"}
  /\ r.step \in {"sync", "insert", "evaluate"} \cup PromoteSteps \cup RollbackSteps
  /\ r.step = "evaluate" <=> r.record.scope[1] = "evaluate"
  /\ AskedOK(rows, rn, r)

PromptReqInv ==
  /\ DOMAIN promptReq = PromptRequests
  /\ \A q \in PromptRequests : promptReq[q] # NoPrompt =>
       PromptReqOK(prompts, runs, promptReq[q])

(* A key is used once: by one request in flight, or by the one that ended.  *)
KeyInv ==
  /\ \A q \in PromptRequests : promptReq[q] # NoPrompt => promptReq[q].record \notin keyed
  /\ \A p, q \in PromptRequests :
       promptReq[p] # NoPrompt /\ promptReq[q] # NoPrompt /\ promptReq[p].record = promptReq[q].record
         => p = q

(* The tables.                                                              *)
TablesInv ==
  /\ git \in [Versions -> Contents \cup {"absent"}]
  /\ prompts \in [Versions -> Prompt \cup {NoPrompt}]
  /\ runs \in Seq(AiEvaluationRun) /\ Len(runs) <= MaxRuns
  /\ \A n \in DOMAIN runs : /\ runs[n].version \in Present(prompts)
                            /\ prompts[runs[n].version].content = runs[n].content

Production(rows) == {v \in Versions : rows[v] # NoPrompt /\ rows[v].status = "production"}
Retired(rows) == {v \in Versions : rows[v] # NoPrompt /\ rows[v].status = "deprecated"}

ProductionInv ==
  /\ \A v, w \in Production(prompts) : v = w
  /\ \A v \in Production(prompts) : PassedFor(runs, v, prompts[v].run)
  /\ Retired(prompts) # {} => Production(prompts) # {}

Evaluated(rows) == {done \in rows : done.scope[1] = "evaluate"}

RunsInv == IsFiniteSet(keyed) /\ Len(runs) = Cardinality(Evaluated(keyed))

PromptInv == TablesInv /\ PromptReqInv /\ KeyInv /\ ProductionInv /\ RunsInv

-----------------------------------------------------------------------------
(* What a request counts on stays true as the tables grow.                  *)
LEMMA AskedStays ==
  ASSUME NEW rows, NEW rn, NEW rows2, NEW rn2, NEW r, PromptReqOK(rows, rn, r),
         Present(rows) \subseteq Present(rows2),
         \A v, n : PassedFor(rn, v, n) => PassedFor(rn2, v, n)
  PROVE  PromptReqOK(rows2, rn2, r)
BY Zenon DEF PromptReqOK, AskedOK

(* A step that changes one request and no table.                            *)
LEMMA RequestMoves ==
  ASSUME PromptInv, NEW q \in PromptRequests, NEW r, MovedTo(q, r),
         UNCHANGED <<git, prompts, runs, keyed>>,
         PromptReqOK(prompts, runs, r),
         r.record \notin keyed,
         \A p \in PromptRequests : promptReq[p] # NoPrompt /\ promptReq[p].record = r.record => p = q
  PROVE  PromptInv'
<1>1. /\ DOMAIN promptReq' = PromptRequests /\ promptReq'[q] = r
      /\ \A p \in PromptRequests : p # q => promptReq'[p] = promptReq[p]
  BY Zenon DEF MovedTo, PromptInv, PromptReqInv
<1>2. PromptReqInv'
  BY Zenon, <1>1 DEF PromptInv, PromptReqInv
<1>3. KeyInv'
  <2>1. \A p \in PromptRequests : promptReq'[p] # NoPrompt => promptReq'[p].record \notin keyed
    BY Zenon, <1>1 DEF PromptInv, KeyInv
  <2>2. ASSUME NEW p \in PromptRequests, NEW o \in PromptRequests, promptReq'[p] # NoPrompt,
               promptReq'[o] # NoPrompt, promptReq'[p].record = promptReq'[o].record, p # o
        PROVE  FALSE
    <3>1. CASE p = q
      BY Zenon, <2>2, <1>1, <3>1
    <3>2. CASE o = q
      BY Zenon, <2>2, <1>1, <3>2
    <3> QED
      BY Zenon, <2>2, <1>1, <3>1, <3>2 DEF PromptInv, KeyInv
  <2> QED
    BY Zenon, <2>1, <2>2 DEF KeyInv
<1> QED
  BY Zenon, <1>2, <1>3 DEF PromptInv, TablesInv, ProductionInv, RunsInv

(* A request takes its next step and writes nothing.                        *)
LEMMA RequestGoesOn ==
  ASSUME PromptInv, NEW q \in PromptRequests, promptReq[q] # NoPrompt, NEW r, MovedTo(q, r),
         UNCHANGED <<git, prompts, runs, keyed>>,
         PromptReqOK(prompts, runs, r), r.record = promptReq[q].record
  PROVE  PromptInv'
<1>1. /\ r.record \notin keyed
      /\ \A p \in PromptRequests : promptReq[p] # NoPrompt /\ promptReq[p].record = r.record => p = q
  BY Zenon DEF PromptInv, KeyInv
<1> QED
  BY Zenon, <1>1, RequestMoves

(* A new request, under a key nobody holds.                                 *)
LEMMA ReserveStep ==
  ASSUME PromptInv, NEW q \in PromptRequests, NEW scope, NEW step, NEW asked,
         reserve_idempotency(q, scope, step, asked),
         step \in {"sync", "insert", "evaluate"} \cup PromoteSteps \cup RollbackSteps,
         step = "evaluate" <=> scope[1] = "evaluate",
         \A record : AskedOK(prompts, runs, [record |-> record, step |-> step, asked |-> asked,
                                             found |-> {}, locks |-> {}])
  PROVE  PromptInv'
<1>1. PICK key : LET record == [scope |-> scope, key |-> key]
                 IN  /\ record \notin InFlight \cup keyed
                     /\ promptReq' = [promptReq EXCEPT ![q] =
                          [record |-> record, step |-> step, asked |-> asked, found |-> {},
                           locks |-> {}]]
  BY Zenon DEF reserve_idempotency
<1>2. PICK record : record = [scope |-> scope, key |-> key]
  BY Zenon
<1>3. PICK r : r = [record |-> record, step |-> step, asked |-> asked, found |-> {}, locks |-> {}]
  BY Zenon
<1>4. /\ record \notin InFlight \cup keyed /\ MovedTo(q, r)
      /\ UNCHANGED <<git, prompts, runs, keyed>>
  BY ZenonT(40), <1>1, <1>2, <1>3 DEF reserve_idempotency, MovedTo
<1>5. /\ r.record = record /\ record.scope = scope /\ r.step = step
      /\ DOMAIN r = {"record", "step", "asked", "found", "locks"}
  BY <1>2, <1>3
<1>6. PromptReqOK(prompts, runs, r)
  <2>1. AskedOK(prompts, runs, r)
    BY Zenon, <1>3
  <2> QED
    BY Zenon, <2>1, <1>5 DEF PromptReqOK
<1>7. \A p \in PromptRequests : promptReq[p] # NoPrompt => promptReq[p].record # record
  BY Zenon, <1>4 DEF InFlight
<1> QED
  BY Zenon, <1>4, <1>5, <1>6, <1>7, RequestMoves

(* The requests that start on the registry.                                 *)
LEMMA PromptRoutesStep ==
  ASSUME PromptInv, NEW q \in PromptRequests, PromptRoutes(q)
  PROVE  PromptInv'
<1>1. CASE StartSync(q)
  <2> DEFINE asked == [docs |-> {v \in Versions : git[v] # "absent"}, content |-> git]
  <2>1. /\ asked.docs \subseteq Versions
        /\ \A v \in asked.docs : asked.content[v] \in Contents
    BY SMTT(40) DEF PromptInv, TablesInv
  <2> HIDE DEF asked
  <2>2. ASSUME NEW record
        PROVE  AskedOK(prompts, runs, [record |-> record, step |-> "sync", asked |-> asked,
                                       found |-> {}, locks |-> {}])
    BY Zenon, <2>1 DEF AskedOK, PromoteSteps, RollbackSteps
  <2>3. OfTask("sync")[1] # "evaluate"
    BY DEF OfTask
  <2>4. reserve_idempotency(q, OfTask("sync"), "sync", asked)
    BY Zenon, <1>1 DEF StartSync, asked
  <2> QED
    BY Zenon, <2>2, <2>3, <2>4, ReserveStep
<1>2. ASSUME NEW v \in Versions, NEW content \in Contents, NEW passed \in BOOLEAN,
             StartEvaluation(q, v, content, passed)
      PROVE  PromptInv'
  <2> DEFINE asked == [version |-> v, content |-> content, passed |-> passed]
  <2>1. asked \in AiEvaluationRun
    BY SMTT(40) DEF AiEvaluationRun
  <2> HIDE DEF asked
  <2>2. ASSUME NEW record
        PROVE  AskedOK(prompts, runs, [record |-> record, step |-> "evaluate", asked |-> asked,
                                       found |-> {}, locks |-> {}])
    BY Zenon, <2>1 DEF AskedOK, PromoteSteps, RollbackSteps
  <2>3. <<"evaluate", v>>[1] = "evaluate"
    BY Zenon
  <2> QED
    BY Zenon, <1>2, <2>2, <2>3, ReserveStep DEF StartEvaluation, asked
<1>3. ASSUME NEW v \in Versions, NEW n, StartPromotion(q, v, n)
      PROVE  PromptInv'
  <2>2. ASSUME NEW record
        PROVE  AskedOK(prompts, runs, [record |-> record, step |-> "target",
                                       asked |-> [version |-> v, run |-> n],
                                       found |-> {}, locks |-> {}])
    BY Zenon DEF AskedOK, PromoteSteps, RollbackSteps
  <2>3. OfTask("promote")[1] # "evaluate" /\ "target" \in PromoteSteps
    BY DEF OfTask, PromoteSteps
  <2> QED
    BY ZenonT(40), <1>3, <2>2, <2>3, ReserveStep DEF StartPromotion
<1>4. ASSUME NEW v \in Versions, StartRollback(q, v)
      PROVE  PromptInv'
  <2>2. ASSUME NEW record
        PROVE  AskedOK(prompts, runs, [record |-> record, step |-> "current",
                                       asked |-> [version |-> v],
                                       found |-> {}, locks |-> {}])
    BY Zenon DEF AskedOK, PromoteSteps, RollbackSteps
  <2>3. OfTask("rollback")[1] # "evaluate" /\ "current" \in RollbackSteps
    BY DEF OfTask, RollbackSteps
  <2> QED
    BY ZenonT(40), <1>4, <2>2, <2>3, ReserveStep DEF StartRollback
<1> QED
  BY Zenon, <1>1, <1>2, <1>3, <1>4 DEF PromptRoutes

(* A prompt file changes in the repository.                                 *)
LEMMA EditFileStep ==
  ASSUME PromptInv, NEW v \in Versions, NEW content \in Contents, EditFile(v, content)
  PROVE  PromptInv'
<1>1. git' \in [Versions -> Contents \cup {"absent"}]
  BY DEF EditFile, PromptInv, TablesInv
<1>2. UNCHANGED <<prompts, runs, keyed, promptReq>>
  BY Zenon DEF EditFile
<1> QED
  BY Zenon, <1>1, <1>2 DEF PromptInv, TablesInv, PromptReqInv, KeyInv, ProductionInv, RunsInv

(* A request that ends without a trace.                                     *)
LEMMA AbortStep ==
  ASSUME PromptInv, NEW q \in PromptRequests, Abort(q)
  PROVE  PromptInv'
<1>1. /\ DOMAIN promptReq' = PromptRequests /\ promptReq'[q] = NoPrompt
      /\ \A p \in PromptRequests : p # q => promptReq'[p] = promptReq[p]
  BY Zenon DEF Abort, Ended, PromptInv, PromptReqInv
<1>2. UNCHANGED <<git, prompts, runs, keyed>>
  BY Zenon DEF Abort
<1>3. PromptReqInv'
  BY Zenon, <1>1, <1>2 DEF PromptInv, PromptReqInv
<1>4. KeyInv'
  <2>1. \A p \in PromptRequests : promptReq'[p] # NoPrompt => p # q /\ promptReq'[p] = promptReq[p]
    BY Zenon, <1>1
  <2> QED
    BY Zenon, <2>1, <1>2 DEF PromptInv, KeyInv
<1> QED
  BY Zenon, <1>2, <1>3, <1>4 DEF PromptInv, TablesInv, ProductionInv, RunsInv

(* The steps of a request before its commit.                                *)
LEMMA LoadSyncStep ==
  ASSUME PromptInv, NEW q \in PromptRequests, LoadSync(q)
  PROVE  PromptInv'
<1>1. PICK r : r = promptReq[q]
  BY Zenon
<1>2. PICK s : s = [r EXCEPT !.step = "insert", !.found = Missing(r.asked)]
  BY Zenon
<1>3. promptReq[q] # NoPrompt /\ r.step = "sync" /\ MovedTo(q, s) /\ UNCHANGED <<git, prompts, runs, keyed>>
  BY Zenon, <1>1, <1>2 DEF LoadSync, Underway
<1>4. PromptReqOK(prompts, runs, r)
  BY Zenon, <1>1, <1>3 DEF PromptInv, PromptReqInv
<1>5. /\ DOMAIN s = DOMAIN r /\ s.record = r.record /\ s.asked = r.asked
      /\ s.step = "insert" /\ s.found = Missing(r.asked)
  BY <1>2, <1>4 DEF PromptReqOK
<1>6. Missing(r.asked) \subseteq r.asked.docs
  BY ZenonT(40) DEF Missing
<1>7. PromptReqOK(prompts, runs, s)
  BY SMTT(40), <1>3, <1>4, <1>5, <1>6 DEF PromptReqOK, AskedOK, PromoteSteps, RollbackSteps
<1> QED
  BY Zenon, <1>1, <1>3, <1>5, <1>7, RequestGoesOn

(* A promotion locks the version it promotes.                               *)
LEMMA LockTargetStep ==
  ASSUME PromptInv, NEW q \in PromptRequests, LockTarget(q)
  PROVE  PromptInv'
<1>1. PICK r : r = promptReq[q]
  BY Zenon
<1>2. PICK s : s = [r EXCEPT !.step = "previous", !.locks = @ \cup {r.asked.version}]
  BY Zenon
<1>3. /\ promptReq[q] # NoPrompt /\ r.step = "target" /\ MovedTo(q, s)
      /\ UNCHANGED <<git, prompts, runs, keyed>>
      /\ prompts[r.asked.version] # NoPrompt
      /\ PassedFor(runs, r.asked.version, r.asked.run)
  BY Zenon, <1>1, <1>2 DEF LockTarget, Underway, Locking, Evidence, PassedFor
<1>4. PromptReqOK(prompts, runs, r)
  BY Zenon, <1>1, <1>3 DEF PromptInv, PromptReqInv
<1>5. /\ DOMAIN s = DOMAIN r /\ s.record = r.record /\ s.asked = r.asked
      /\ s.step = "previous" /\ s.found = r.found
  BY SMTT(40), <1>2, <1>4 DEF PromptReqOK
<1>6. r.asked.version \in Present(prompts) /\ r.found \subseteq Present(prompts)
  <2>1. r.step \in PromoteSteps \cup RollbackSteps
    BY Zenon, <1>3 DEF PromoteSteps
  <2> QED
    BY Zenon, <1>3, <1>4, <2>1 DEF PromptReqOK, AskedOK, Present
<1>7. PromptReqOK(prompts, runs, s)
  BY <1>3, <1>4, <1>5, <1>6 DEF PromptReqOK, AskedOK, PromoteSteps, RollbackSteps, Present
<1> QED
  BY Zenon, <1>1, <1>3, <1>5, <1>7, RequestGoesOn

(* The versions in production are looked up.                                *)
LEMMA FindProductionStep ==
  ASSUME PromptInv, NEW q \in PromptRequests, FindProduction(q)
  PROVE  PromptInv'
<1>1. PICK r : r = promptReq[q]
  BY Zenon
<1>2. PICK s : s = [r EXCEPT !.step = IF @ = "previous" THEN "wait_previous" ELSE "wait_current",
                             !.found = InProduction]
  BY Zenon
<1>3. /\ promptReq[q] # NoPrompt /\ r.step \in {"previous", "current"} /\ MovedTo(q, s)
      /\ UNCHANGED <<git, prompts, runs, keyed>>
  BY Zenon, <1>1, <1>2 DEF FindProduction, Underway
<1>4. PromptReqOK(prompts, runs, r)
  BY Zenon, <1>1, <1>3 DEF PromptInv, PromptReqInv
<1>5. /\ DOMAIN s = DOMAIN r /\ s.record = r.record /\ s.asked = r.asked
      /\ s.step = IF r.step = "previous" THEN "wait_previous" ELSE "wait_current"
      /\ s.found = InProduction
  BY <1>2, <1>4 DEF PromptReqOK
<1>6. InProduction \subseteq Present(prompts)
  BY ZenonT(40) DEF InProduction, Present
<1> HIDE DEF InProduction
<1>7. PromptReqOK(prompts, runs, s)
  BY SMTT(40), <1>3, <1>4, <1>5, <1>6 DEF PromptReqOK, AskedOK, PromoteSteps, RollbackSteps
<1> QED
  BY Zenon, <1>1, <1>3, <1>5, <1>7, RequestGoesOn

(* A promotion locks the versions that were found in production.            *)
LEMMA LockPreviousStep ==
  ASSUME PromptInv, NEW q \in PromptRequests, LockPrevious(q)
  PROVE  PromptInv'
<1>1. PICK r : r = promptReq[q]
  BY Zenon
<1>2. PICK had : had = r.found \cap InProduction
  BY Zenon
<1>3. PICK s : s = [r EXCEPT !.step = "promote", !.found = had, !.locks = @ \cup had]
  BY Zenon
<1>4. /\ promptReq[q] # NoPrompt /\ r.step = "wait_previous" /\ MovedTo(q, s)
      /\ UNCHANGED <<git, prompts, runs, keyed>>
  BY Zenon, <1>1, <1>2, <1>3 DEF LockPrevious, Underway
<1>5. PromptReqOK(prompts, runs, r)
  BY Zenon, <1>1, <1>4 DEF PromptInv, PromptReqInv
<1>6. /\ DOMAIN s = DOMAIN r /\ s.record = r.record /\ s.asked = r.asked
      /\ s.step = "promote" /\ s.found = had
  BY <1>3, <1>5 DEF PromptReqOK
<1>7. had \subseteq r.found
  BY ZenonT(40), <1>2
<1>8. PromptReqOK(prompts, runs, s)
  BY SMTT(40), <1>4, <1>5, <1>6, <1>7 DEF PromptReqOK, AskedOK, PromoteSteps, RollbackSteps
<1> QED
  BY Zenon, <1>1, <1>4, <1>6, <1>8, RequestGoesOn

(* A rollback locks the version that is in production.                      *)
LEMMA LockCurrentStep ==
  ASSUME PromptInv, NEW q \in PromptRequests, LockCurrent(q)
  PROVE  PromptInv'
<1>1. PICK r : r = promptReq[q]
  BY Zenon
<1>2. PICK v : v \in r.found /\ MovedTo(q, Locking(q, "rollback", v))
  BY Zenon, <1>1 DEF LockCurrent
<1>3. PICK s : s = [r EXCEPT !.step = "rollback", !.locks = @ \cup {v}]
  BY Zenon
<1>4. /\ promptReq[q] # NoPrompt /\ r.step = "wait_current" /\ MovedTo(q, s)
      /\ UNCHANGED <<git, prompts, runs, keyed>>
  BY Zenon, <1>1, <1>2, <1>3 DEF LockCurrent, Underway, Locking
<1>5. PromptReqOK(prompts, runs, r)
  BY Zenon, <1>1, <1>4 DEF PromptInv, PromptReqInv
<1>6. /\ DOMAIN s = DOMAIN r /\ s.record = r.record /\ s.asked = r.asked
      /\ s.step = "rollback" /\ s.found = r.found
  BY SMTT(40), <1>3, <1>5 DEF PromptReqOK
<1>7. PromptReqOK(prompts, runs, s)
  BY SMTT(40), <1>4, <1>5, <1>6 DEF PromptReqOK, AskedOK, PromoteSteps, RollbackSteps
<1> QED
  BY Zenon, <1>1, <1>4, <1>6, <1>7, RequestGoesOn

(* A request that commits: its key is used, and what the others count on    *)
(* stays true.                                                              *)
LEMMA RequestCommits ==
  ASSUME PromptInv, NEW q \in PromptRequests, promptReq[q] # NoPrompt, Completed(q), Ended(q),
         Present(prompts) \subseteq Present(prompts'),
         \A v, n : PassedFor(runs, v, n) => PassedFor(runs', v, n)
  PROVE  PromptReqInv' /\ KeyInv'
<1>1. /\ DOMAIN promptReq' = PromptRequests /\ promptReq'[q] = NoPrompt
      /\ \A p \in PromptRequests : p # q => promptReq'[p] = promptReq[p]
  BY Zenon DEF Ended, PromptInv, PromptReqInv
<1>2. \A p \in PromptRequests : promptReq'[p] # NoPrompt => p # q /\ promptReq'[p] = promptReq[p]
  BY Zenon, <1>1
<1>3. PromptReqInv'
  <2>1. ASSUME NEW p \in PromptRequests, promptReq'[p] # NoPrompt
        PROVE  PromptReqOK(prompts', runs', promptReq'[p])
    <3>1. promptReq'[p] = promptReq[p] /\ PromptReqOK(prompts, runs, promptReq[p])
      BY Zenon, <2>1, <1>2 DEF PromptInv, PromptReqInv
    <3> QED
      BY Zenon, <3>1, AskedStays
  <2> QED
    BY Zenon, <2>1, <1>1 DEF PromptReqInv
<1>4. KeyInv'
  BY Zenon, <1>2 DEF PromptInv, KeyInv, Completed
<1> QED
  BY Zenon, <1>3, <1>4

(* A request that records no run completes its idempotency key.             *)
LEMMA OtherKeyUsed ==
  ASSUME PromptInv, NEW q \in PromptRequests, promptReq[q] # NoPrompt, Completed(q),
         promptReq[q].step # "evaluate", UNCHANGED runs
  PROVE  RunsInv'
<1>1. IsFiniteSet(keyed')
  BY Zenon, FS_AddElement DEF PromptInv, RunsInv, Completed
<1>2. promptReq[q].record.scope[1] # "evaluate"
  BY Zenon DEF PromptInv, PromptReqInv, PromptReqOK
<1>3. Evaluated(keyed') = Evaluated(keyed)
  BY Zenon, <1>2 DEF Evaluated, Completed
<1> QED
  BY Zenon, <1>1, <1>3 DEF RunsInv, PromptInv

(* The sync of the prompt files with the table.                             *)
LEMMA SyncStep ==
  ASSUME PromptInv, NEW q \in PromptRequests, sync_git_prompts(q)
  PROVE  PromptInv'
<1>1. PICK r : r = promptReq[q]
  BY Zenon
<1>2. /\ promptReq[q] # NoPrompt /\ r.step = "insert" /\ Completed(q) /\ Ended(q)
      /\ UNCHANGED <<git, runs>>
      /\ \A v \in r.found : prompts[v] = NoPrompt
      /\ prompts' = [v \in Versions |->
           IF v \in r.found
             THEN [content |-> r.asked.content[v], status |-> "draft", run |-> 0]
             ELSE prompts[v]]
  BY Zenon, <1>1 DEF sync_git_prompts, Underway, task_version
<1>3. PromptReqOK(prompts, runs, r)
  BY ZenonT(40), <1>1, <1>2 DEF PromptInv, PromptReqInv
<1>4. r.found \subseteq r.asked.docs /\ \A v \in r.asked.docs : r.asked.content[v] \in Contents
  BY SMTT(40), <1>2, <1>3 DEF PromptReqOK, AskedOK
<1>5. ASSUME NEW v \in r.found
      PROVE  /\ [content |-> r.asked.content[v], status |-> "draft", run |-> 0] \in Prompt
             /\ [content |-> r.asked.content[v], status |-> "draft", run |-> 0].status = "draft"
  BY <1>4, PromptAssumption DEF Prompt, PROMPT_STATUSES
<1>6. /\ prompts' \in [Versions -> Prompt \cup {NoPrompt}]
      /\ \A v \in Versions : v \notin r.found => prompts'[v] = prompts[v]
      /\ \A v \in Versions : v \in r.found => prompts'[v] # NoPrompt /\ prompts'[v].status = "draft"
  <2>1. ASSUME NEW v \in Versions PROVE prompts[v] \in Prompt \cup {NoPrompt}
    BY Zenon DEF PromptInv, TablesInv
  <2> QED
    BY Zenon, <1>2, <1>5, <2>1, PromptAssumption
<1>7. /\ Present(prompts) \subseteq Present(prompts')
      /\ \A v \in Present(prompts) : prompts'[v] = prompts[v]
  BY Zenon, <1>2, <1>6 DEF Present
<1>8. PromptReqInv' /\ KeyInv'
  BY Zenon, <1>2, <1>7, RequestCommits
<1>9. RunsInv'
  <2>1. r.step # "evaluate"
    BY <1>2
  <2> QED
    BY ZenonT(40), <1>1, <1>2, <2>1, OtherKeyUsed
<1>10. TablesInv'
  <2>1. \A n \in DOMAIN runs : /\ runs[n].version \in Present(prompts')
                               /\ prompts'[runs[n].version].content = runs[n].content
    BY Zenon, <1>7 DEF PromptInv, TablesInv
  <2> QED
    BY Zenon, <1>2, <1>6, <2>1 DEF PromptInv, TablesInv
<1>11. Production(prompts') = Production(prompts) /\ Retired(prompts') = Retired(prompts)
  <2>1. \A v \in Versions : v \in r.found =>
          prompts'[v].status # "production" /\ prompts'[v].status # "deprecated"
    BY <1>6
  <2> QED
    BY Zenon, <1>2, <1>6, <2>1 DEF Production, Retired
<1>12. ProductionInv'
  <2>1. \A v \in Production(prompts) : prompts'[v] = prompts[v]
    BY Zenon, <1>7 DEF Production, Present
  <2> QED
    BY Zenon, <1>2, <1>11, <2>1 DEF PromptInv, ProductionInv
<1> QED
  BY Zenon, <1>8, <1>9, <1>10, <1>12 DEF PromptInv

(* The record of an evaluation run.                                         *)
LEMMA RecordEvaluationStep ==
  ASSUME PromptInv, NEW q \in PromptRequests, record_evaluation(q)
  PROVE  PromptInv'
<1>1. PICK r : r = promptReq[q]
  BY Zenon
<1>2. PICK run : run = r.asked
  BY Zenon
<1>3. /\ promptReq[q] # NoPrompt /\ r.step = "evaluate" /\ Completed(q) /\ Ended(q)
      /\ UNCHANGED <<git, prompts>>
      /\ prompts[run.version] # NoPrompt /\ prompts[run.version].content = run.content
      /\ Len(runs) < MaxRuns /\ runs' = Append(runs, run)
  BY Zenon, <1>1, <1>2 DEF record_evaluation, Underway
<1>4. PromptReqOK(prompts, runs, r) /\ r.record \notin keyed
  BY ZenonT(40), <1>1, <1>3 DEF PromptInv, PromptReqInv, KeyInv
<1>5. run \in AiEvaluationRun /\ run.version \in Versions
  BY <1>2, <1>3, <1>4 DEF PromptReqOK, AskedOK, AiEvaluationRun
<1>6. runs \in Seq(AiEvaluationRun)
  BY Zenon DEF PromptInv, TablesInv
<1>7. /\ runs' \in Seq(AiEvaluationRun) /\ Len(runs') = Len(runs) + 1 /\ Len(runs) \in Nat
      /\ \A n \in DOMAIN runs : n \in DOMAIN runs' /\ runs'[n] = runs[n]
      /\ \A n \in DOMAIN runs' : n \in DOMAIN runs \/ runs'[n] = run
  BY <1>3, <1>5, <1>6
<1>8. \A v, n : PassedFor(runs, v, n) => PassedFor(runs', v, n)
  BY Zenon, <1>7 DEF PassedFor
<1>9. PromptReqInv' /\ KeyInv'
  BY Zenon, <1>3, <1>8, RequestCommits
<1>10. TablesInv'
  <2>1. Len(runs') <= MaxRuns
    BY <1>3, <1>7, PromptAssumption
  <2>2. run.version \in Present(prompts)
    BY Zenon, <1>3, <1>5 DEF Present
  <2>3. \A n \in DOMAIN runs' : /\ runs'[n].version \in Present(prompts)
                                /\ prompts[runs'[n].version].content = runs'[n].content
    BY Zenon, <1>3, <1>7, <2>2 DEF PromptInv, TablesInv
  <2> QED
    BY Zenon, <1>3, <1>7, <2>1, <2>3 DEF PromptInv, TablesInv
<1>11. ProductionInv'
  BY Zenon, <1>3, <1>8 DEF PromptInv, ProductionInv
<1>12. RunsInv'
  <2>1. /\ IsFiniteSet(keyed) /\ Len(runs) = Cardinality(Evaluated(keyed))
        /\ IsFiniteSet(keyed')
    BY Zenon, FS_AddElement DEF PromptInv, RunsInv, Completed, record_evaluation
  <2>2. Evaluated(keyed) \subseteq keyed
    BY Zenon DEF Evaluated
  <2>3. IsFiniteSet(Evaluated(keyed))
    BY Zenon, <2>1, <2>2, FS_Subset
  <2>4. r.record.scope[1] = "evaluate"
    BY Zenon, <1>3, <1>4 DEF PromptReqOK
  <2>5. Evaluated(keyed') = Evaluated(keyed) \cup {r.record} /\ r.record \notin Evaluated(keyed)
    BY Zenon, <1>1, <1>3, <1>4, <2>4 DEF Evaluated, Completed
  <2>6. Cardinality(Evaluated(keyed')) = Cardinality(Evaluated(keyed)) + 1
    BY Zenon, <2>3, <2>5, FS_AddElement
  <2> QED
    BY Zenon, <1>7, <2>1, <2>6 DEF RunsInv
<1> QED
  BY Zenon, <1>9, <1>10, <1>11, <1>12 DEF PromptInv

(* What both changes of the version in production do to the table.          *)
LEMMA Replacement ==
  ASSUME PromptInv, NEW q \in PromptRequests, promptReq[q] # NoPrompt, Completed(q), Ended(q),
         promptReq[q].step # "evaluate", UNCHANGED <<git, runs>>,
         NEW out, NEW v \in Present(prompts), NEW n, out \subseteq Present(prompts),
         PassedFor(runs, v, n), one_production(out, v), prompts' = Replaced(out, v, n)
  PROVE  PromptInv'
<1>1. v \in Versions /\ prompts[v] # NoPrompt
  BY Zenon DEF Present
<1>2. n \in 0..MaxRuns
  <2>1. runs \in Seq(AiEvaluationRun) /\ Len(runs) <= MaxRuns /\ n \in DOMAIN runs
    BY Zenon DEF PromptInv, TablesInv, PassedFor
  <2> QED
    BY <2>1, PromptAssumption
<1>3. \A w \in Present(prompts) : w \in Versions /\ prompts[w] \in Prompt
  BY Zenon DEF PromptInv, TablesInv, Present
<1>4. ASSUME NEW x \in Prompt
      PROVE  /\ [x EXCEPT !.status = "production", !.run = n] \in Prompt
             /\ [x EXCEPT !.status = "production", !.run = n].content = x.content
             /\ [x EXCEPT !.status = "production", !.run = n].status = "production"
             /\ [x EXCEPT !.status = "production", !.run = n].run = n
             /\ [x EXCEPT !.status = "deprecated"] \in Prompt
             /\ [x EXCEPT !.status = "deprecated"].content = x.content
             /\ [x EXCEPT !.status = "deprecated"].status # "production"
  BY Zenon, <1>2 DEF Prompt, PROMPT_STATUSES
<1>5. /\ prompts' = [w \in Versions |-> Replaced(out, v, n)[w]]
      /\ Replaced(out, v, n)[v] = [prompts[v] EXCEPT !.status = "production", !.run = n]
      /\ \A w \in out : w # v => Replaced(out, v, n)[w] = [prompts[w] EXCEPT !.status = "deprecated"]
      /\ \A w \in Versions : w # v /\ w \notin out => Replaced(out, v, n)[w] = prompts[w]
  BY Zenon, <1>1, <1>3 DEF Replaced
<1>6. /\ prompts'[v] \in Prompt /\ prompts'[v].status = "production" /\ prompts'[v].run = n
      /\ prompts'[v].content = prompts[v].content
  <2>1. PICK x \in Prompt : x = prompts[v]
    BY Zenon, <1>3
  <2>2. prompts'[v] = [x EXCEPT !.status = "production", !.run = n]
    BY Zenon, <1>5, <2>1
  <2> QED
    BY Zenon, <1>4, <2>1, <2>2
<1>7. \A w \in out : w # v => /\ prompts'[w] \in Prompt /\ prompts'[w].status # "production"
                              /\ prompts'[w].content = prompts[w].content
  <2> SUFFICES ASSUME NEW w \in out, w # v
               PROVE  /\ prompts'[w] \in Prompt /\ prompts'[w].status # "production"
                      /\ prompts'[w].content = prompts[w].content
    BY Zenon
  <2>1. PICK x \in Prompt : x = prompts[w]
    BY Zenon, <1>3
  <2>2. prompts'[w] = [x EXCEPT !.status = "deprecated"]
    BY Zenon, <1>5, <2>1
  <2> QED
    BY Zenon, <1>4, <2>1, <2>2
<1>8. \A w \in Versions : w # v /\ w \notin out => prompts'[w] = prompts[w]
  BY Zenon, <1>5
<1>9. prompts' \in [Versions -> Prompt \cup {NoPrompt}]
  <2>1. \A w \in Versions : prompts[w] \in Prompt \cup {NoPrompt}
    BY Zenon DEF PromptInv, TablesInv
  <2>2. \A w \in Versions : prompts'[w] \in Prompt \cup {NoPrompt}
    BY Zenon, <1>6, <1>7, <1>8, <2>1
  <2>3. prompts' = [w \in Versions |-> prompts'[w]]
    BY Zenon, <1>5
  <2> QED
    BY Zenon, <2>2, <2>3
<1>10. \A w \in Present(prompts) : w \in Present(prompts') /\ prompts'[w].content = prompts[w].content
  BY Zenon, <1>6, <1>7, <1>8, PromptAssumption DEF Present
<1>11. PromptReqInv' /\ KeyInv'
  BY Zenon, <1>10, RequestCommits
<1>12. RunsInv'
  BY Zenon, OtherKeyUsed
<1>13. TablesInv'
  BY Zenon, <1>9, <1>10 DEF PromptInv, TablesInv
<1>14. v \in Production(prompts') /\ \A w \in Production(prompts') : w = v
  BY Zenon, <1>1, <1>6, <1>7, <1>8, PromptAssumption DEF Production, one_production, InProduction
<1>15. ProductionInv'
  BY Zenon, <1>6, <1>14 DEF ProductionInv
<1> QED
  BY Zenon, <1>11, <1>12, <1>13, <1>15 DEF PromptInv

(* A promotion's writes.                                                    *)
LEMMA PromoteStep ==
  ASSUME PromptInv, NEW q \in PromptRequests, promote_prompt(q)
  PROVE  PromptInv'
<1>1. PICK r : r = promptReq[q]
  BY Zenon
<1>2. /\ promptReq[q] # NoPrompt /\ r.step = "promote" /\ Completed(q) /\ Ended(q)
      /\ UNCHANGED <<git, runs>>
      /\ one_production(r.found, r.asked.version)
      /\ prompts' = Replaced(r.found, r.asked.version, r.asked.run)
  BY Zenon, <1>1 DEF promote_prompt, Underway
<1>3. PromptReqOK(prompts, runs, r)
  BY ZenonT(40), <1>1, <1>2 DEF PromptInv, PromptReqInv
<1>4. /\ r.step # "evaluate" /\ r.asked.version \in Present(prompts)
      /\ r.found \subseteq Present(prompts) /\ PassedFor(runs, r.asked.version, r.asked.run)
  BY <1>2, <1>3 DEF PromptReqOK, AskedOK, PromoteSteps
<1> QED
  BY Zenon, <1>1, <1>2, <1>4, Replacement

(* A rollback's writes.                                                     *)
LEMMA RollbackStep ==
  ASSUME PromptInv, NEW q \in PromptRequests, rollback_prompt(q)
  PROVE  PromptInv'
<1>1. PICK r : r = promptReq[q]
  BY Zenon
<1>2. PICK v : v = r.asked.version
  BY Zenon
<1>3. /\ promptReq[q] # NoPrompt /\ r.step = "rollback" /\ Completed(q) /\ Ended(q)
      /\ UNCHANGED <<git, runs>> /\ prompts[v] # NoPrompt
      /\ PassedFor(runs, v, prompts[v].run)
      /\ one_production(r.found, v)
      /\ prompts' = Replaced(r.found, v, prompts[v].run)
  BY Zenon, <1>1, <1>2 DEF rollback_prompt, Underway, Evidence, PassedFor
<1>4. PromptReqOK(prompts, runs, r)
  BY ZenonT(40), <1>1, <1>3 DEF PromptInv, PromptReqInv
<1>5. r.step # "evaluate" /\ v \in Versions /\ r.found \subseteq Present(prompts)
  BY SMTT(40), <1>2, <1>3, <1>4 DEF PromptReqOK, AskedOK, RollbackSteps
<1>6. v \in Present(prompts)
  BY Zenon, <1>3, <1>5 DEF Present
<1> QED
  BY Zenon, <1>1, <1>3, <1>5, <1>6, Replacement

-----------------------------------------------------------------------------
(* The invariant of the registry holds at first.                            *)
LEMMA PromptInitially ==
  PromptsInit => PromptInv
<1> SUFFICES ASSUME PromptsInit PROVE PromptInv
  BY Zenon
<1>1. /\ prompts = [v \in Versions |-> NoPrompt] /\ runs = <<>> /\ keyed = {}
      /\ promptReq = [q \in PromptRequests |-> NoPrompt] /\ git = [v \in Versions |-> "absent"]
  BY Zenon DEF PromptsInit
<1>2. DOMAIN runs = {} /\ Len(runs) = 0 /\ runs \in Seq(AiEvaluationRun)
  BY <1>1
<1>3. TablesInv
  <2>1. Len(runs) <= MaxRuns
    BY <1>2, PromptAssumption
  <2> QED
    BY Zenon, <1>1, <1>2, <2>1 DEF TablesInv
<1>4. PromptReqInv /\ KeyInv
  BY Zenon, <1>1 DEF PromptReqInv, KeyInv
<1>5. ProductionInv
  BY Zenon, <1>1 DEF ProductionInv, Production, Retired
<1>6. RunsInv
  <2>1. Evaluated(keyed) = {}
    BY Zenon, <1>1 DEF Evaluated
  <2> QED
    BY Zenon, <1>1, <1>2, <2>1, FS_EmptySet DEF RunsInv
<1> QED
  BY Zenon, <1>3, <1>4, <1>5, <1>6 DEF PromptInv

(* Every step keeps the invariant of the registry.                          *)
LEMMA PromptStep ==
  PromptInv /\ [PromptsNext]_promptVars => PromptInv'
<1> SUFFICES ASSUME PromptInv, [PromptsNext]_promptVars PROVE PromptInv'
  BY Zenon
<1>1. CASE UNCHANGED promptVars
  BY Zenon, <1>1 DEF promptVars, PromptInv, TablesInv, PromptReqInv, KeyInv, ProductionInv, RunsInv
<1>2. CASE PromptsNext
  BY ZenonT(40), <1>2, EditFileStep, PromptRoutesStep, AbortStep, LoadSyncStep, SyncStep,
     RecordEvaluationStep, LockTargetStep, FindProductionStep, LockPreviousStep, PromoteStep,
     LockCurrentStep, RollbackStep DEF PromptsNext
<1> QED
  BY Zenon, <1>1, <1>2

(* The invariant of the registry gives PromptsAreGoverned.                  *)
LEMMA PromptInvGoverns ==
  PromptInv => PromptsAreGoverned
<1> SUFFICES ASSUME PromptInv PROVE PromptsAreGoverned
  BY Zenon
<1>1. InProduction = Production(prompts)
  BY Zenon DEF InProduction, Production
<1>2. Cardinality(InProduction) <= 1
  <2>1. CASE InProduction = {}
    <3>1. Cardinality(InProduction) = 0
      BY Zenon, <2>1, FS_EmptySet
    <3> QED
      BY <3>1
  <2>2. CASE InProduction # {}
    <3>1. PICK v : v \in InProduction
      BY Zenon, <2>2
    <3>2. InProduction = {v}
      BY Zenon, <3>1, <1>1 DEF PromptInv, ProductionInv
    <3>3. Cardinality(InProduction) = 1
      BY Zenon, <3>2, FS_Singleton
    <3> QED
      BY <3>3
  <2> QED
    BY Zenon, <2>1, <2>2
<1>3. ASSUME NEW v \in InProduction
      PROVE  /\ prompts[v].run \in DOMAIN runs
             /\ runs[prompts[v].run] = [version |-> v, content |-> prompts[v].content, passed |-> TRUE]
  <2>1. PICK run : run = runs[prompts[v].run]
    BY Zenon
  <2>2. prompts[v].run \in DOMAIN runs /\ run.version = v /\ run.passed
    BY Zenon, <1>1, <2>1 DEF PromptInv, ProductionInv, PassedFor
  <2>3. prompts[v].content = run.content
    BY Zenon, <2>1, <2>2 DEF PromptInv, TablesInv
  <2>4. runs \in Seq(AiEvaluationRun)
    BY Zenon DEF PromptInv, TablesInv
  <2>5. run \in AiEvaluationRun
    BY SMTT(40), <2>1, <2>2, <2>4
  <2>6. run = [version |-> v, content |-> run.content, passed |-> TRUE]
    BY <2>2, <2>5 DEF AiEvaluationRun
  <2> QED
    BY Zenon, <2>1, <2>2, <2>3, <2>6
<1>4. (\E v \in Versions : prompts[v] # NoPrompt /\ prompts[v].status = "deprecated") =>
        InProduction # {}
  BY Zenon, <1>1 DEF PromptInv, ProductionInv, Retired
<1>5. Len(runs) = Cardinality({done \in keyed : done.scope[1] = "evaluate"})
  BY Zenon DEF PromptInv, RunsInv, Evaluated
<1> QED
  BY Zenon, <1>2, <1>3, <1>4, <1>5 DEF PromptsAreGoverned

(* The prompt tables' inductive invariant: what each request in flight has  *)
(* checked stays true until it commits, a key belongs to one request, and   *)
(* every evaluation run has its key.                                        *)
THEOREM PromptInvariant == PromptsSpec => []PromptInv
BY PromptInitially, PromptStep, PTL DEF PromptsSpec

(* However promotions, rollbacks, syncs and evaluations of a task overlap   *)
(* (ai/prompt_registry.py): at most one version is in production, with a    *)
(* passing evaluation of the content it still has; once a version was       *)
(* retired one is always in production; and each idempotency key of an      *)
(* evaluation stands for one recorded run.                                  *)
THEOREM PromptsGoverned == PromptsSpec => []PromptsAreGoverned
BY PromptInvariant, PromptInvGoverns, PTL
=============================================================================
