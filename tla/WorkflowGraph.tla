--------------------------- MODULE WorkflowGraph ---------------------------
(***************************************************************************)
(* A workflow document from validation to the end of one execution: the    *)
(* graph checks of validate_workflow (domain/workflows/dsl.py), the plan   *)
(* compile_workflow makes of a valid document, the engine's breadth-first  *)
(* walk over it (application/workflows/executor.py) with its suspensions   *)
(* at delays and approvals, and the approvers' decisions                   *)
(* (application/workflows/approvals.py).                                   *)
(*                                                                         *)
(* One worker runs the execution; WorkflowExecution has several, on a      *)
(* plan that is a line.  A condition passes or not, and the edges of a     *)
(* node are declared in some order: both are chosen when they are read.    *)
(* The fields of a node that only have a range are left out.               *)
(***************************************************************************)
EXTENDS Naturals, Sequences, FiniteSets
LOCAL INSTANCE SequencesExt
LOCAL INSTANCE Relation

CONSTANTS
  MaxNodes,       \* nodes of a document
  Drafts,         \* the documents submitted
  Assignees,      \* of every approval node
  MaxIterations   \* max_iterations of every loop node

VARIABLES
  doc,       \* the document: types, edges, approval strategy, error policy
  execution, \* the execution row and its engine
  decisions, \* WorkflowApproval.decisions by node and assignee
  approvals, \* WorkflowApproval.state by node
  handled,   \* nodes the engine has handled, over all runs
  followed,  \* edges it has followed
  dropped    \* nodes that were queued when a run suspended

graphVars == <<doc, execution, decisions, approvals, handled, followed, dropped>>

Ids == 1..MaxNodes

(* An action of the catalogue with requires_approval is a type of its own,  *)
(* "gated": the validator tells it from the others, the engine does not.    *)
NodeType == {"action", "gated", "condition", "delay", "approval", "parallel", "loop"}

Documents ==
  [type : [Ids -> NodeType], edges : SUBSET (Ids \X Ids), strategy : {"any", "all", "quorum"},
   quorum : Nat \ {0}, error_policy : {"stop", "continue"}]

ASSUME GraphAssumption ==
  /\ MaxNodes \in Nat \ {0} /\ MaxIterations \in Nat \ {0}
  /\ Drafts \subseteq Documents

GraphTypeOK ==
  /\ doc \in Documents
  /\ execution \in
       [state : {"draft", "refused", "pending", "running", "waiting", "completed",
                 "failed", "cancelled"},
        queue : Seq(Ids), visited : SUBSET Ids, loops : [Ids -> Nat],
        waiting_on : Ids \cup {0}, resume_nodes : Seq(Ids)]
  /\ decisions \in [Ids -> [Assignees -> {"none", "approved", "rejected"}]]
  /\ approvals \in [Ids -> {"absent", "requested", "approved", "rejected"}]
  /\ handled \subseteq Ids /\ followed \subseteq doc.edges /\ dropped \subseteq Ids

NodesOfType(type) == {n \in Ids : doc.type[n] = type}

-----------------------------------------------------------------------------
(* The validator.                                                           *)

Targets(edges, n) == {m \in Ids : <<n, m>> \in edges}
Sources(edges, n) == {m \in Ids : <<m, n>> \in edges}

RECURSIVE visit(_, _, _)
visit(edges, n, colour) ==
  LET step(acc, m) ==
        CASE acc.found -> acc
          [] acc.colour[m] = "grey" -> [acc EXCEPT !.found = TRUE]
          [] acc.colour[m] = "white" -> visit(edges, m, acc.colour)
          [] OTHER -> acc
      after == FoldLeft(step, [found |-> FALSE, colour |-> [colour EXCEPT ![n] = "grey"]],
                        SetToSeq(Targets(edges, n)))
  IN IF after.found THEN after ELSE [after EXCEPT !.colour[n] = "black"]

_has_cycle_Loops(edges) == \E n \in Ids : <<n, n>> \in edges

_has_cycle(edges) ==
  LET step(acc, n) == IF acc.found \/ acc.colour[n] # "white" THEN acc
                      ELSE visit(edges, n, acc.colour)
  IN FoldLeft(step, [found |-> FALSE, colour |-> [n \in Ids |-> "white"]],
              [n \in Ids |-> n]).found

RECURSIVE Upstream(_, _, _)
Upstream(d, stack, seen) ==
  IF stack = <<>> THEN FALSE
  ELSE LET current == Last(stack)
           rest == Front(stack)
       IN IF current \in seen THEN Upstream(d, rest, seen)
          ELSE \/ d.type[current] = "approval"
               \/ Upstream(d, rest \o SetToSeq(Sources(d.edges, current)), seen \cup {current})

_has_upstream_approval(d, n) == Upstream(d, SetToSeq(Sources(d.edges, n)), {})

Roots(d) == {n \in Ids : Sources(d.edges, n) = {}}

RECURSIVE Reach(_, _, _)
Reach(d, stack, reachable) ==
  IF stack = <<>> THEN reachable
  ELSE LET current == Last(stack)
       IN IF current \in reachable THEN Reach(d, Front(stack), reachable)
          ELSE Reach(d, Front(stack) \o SetToSeq(Targets(d.edges, current)),
                     reachable \cup {current})

(* A warning only.  Of several roots it starts from the first by name.      *)
_unreachable_nodes(d) ==
  IF Roots(d) = {} THEN {}
  ELSE Ids \ Reach(d, <<CHOOSE n \in Roots(d) : \A m \in Roots(d) : n <= m>>, {})

QuorumFits_Unchecked(d) == TRUE

QuorumFits(d) ==
  d.strategy = "quorum" => d.quorum <= Cardinality(Assignees)

validate_workflow(d) ==
  /\ \A n \in Ids : d.type[n] = "gated" => _has_upstream_approval(d, n)
  /\ (\E n \in Ids : d.type[n] = "approval") => QuorumFits(d)
  /\ d.edges # {} => ~_has_cycle(d.edges)

(* compile_workflow's entry_nodes: every root, in document order.           *)
entry_nodes(d) == SelectSeq([n \in Ids |-> n], LAMBDA n : n \in Roots(d))

publish_workflow ==
  /\ execution.state = "draft"
  /\ execution' = [execution EXCEPT !.state = IF validate_workflow(doc) THEN "pending"
                                              ELSE "refused"]
  /\ UNCHANGED <<doc, decisions, approvals, handled, followed, dropped>>

-----------------------------------------------------------------------------
(* The engine.                                                              *)

Run(queue) ==
  execution' = [execution EXCEPT !.state = "running", !.queue = queue, !.visited = {},
                                 !.loops = [n \in Ids |-> 0]]

execute_workflow ==
  /\ execution.state = "pending"
  /\ Run(entry_nodes(doc))
  /\ UNCHANGED <<doc, decisions, approvals, handled, followed, dropped>>

(* The edges of node n that pass: those of a condition node may be labelled *)
(* and any edge may carry a condition.  They are followed in some order.    *)
_next_nodes(n) == SetToAllKPermutations(Targets(doc.edges, n))

Edges(n, targets) == {<<n, m>> : m \in Range(targets)}

Conclude(state) ==
  execution' = [execution EXCEPT !.state = state, !.queue = <<>>, !.waiting_on = 0,
                                 !.resume_nodes = <<>>]

(* The kill switch is engaged or the deadline has passed.                   *)
EngineStops ==
  /\ execution.state = "running" /\ execution.queue # <<>>
  /\ \E state \in {"cancelled", "failed"} : Conclude(state)
  /\ UNCHANGED <<doc, decisions, approvals, handled, followed, dropped>>

EngineFinishes ==
  /\ execution.state = "running" /\ execution.queue = <<>>
  /\ Conclude("completed")
  /\ UNCHANGED <<doc, decisions, approvals, handled, followed, dropped>>

Node == Head(execution.queue)

Handles(types) ==
  /\ execution.state = "running" /\ execution.queue # <<>>
  /\ doc.type[Node] \in types
  /\ doc.type[Node] # "loop" => Node \notin execution.visited
  /\ handled' = handled \cup {Node}
  /\ UNCHANGED doc

SkipVisited ==
  /\ execution.state = "running" /\ execution.queue # <<>>
  /\ Node \in execution.visited /\ doc.type[Node] # "loop"
  /\ execution' = [execution EXCEPT !.queue = Tail(@)]
  /\ UNCHANGED <<doc, decisions, approvals, handled, followed, dropped>>

Extend_Replace(queue, next) == IF next = <<>> THEN queue ELSE next

Extend(queue, next) == queue \o next

WalkOn(visited) ==
  \E next \in _next_nodes(Node) :
    /\ execution' = [execution EXCEPT !.queue = Extend(Tail(@), next), !.visited = visited]
    /\ followed' = followed \cup Edges(Node, next)

(* An action that fails stops the execution or not, as error_policy says.   *)
HandleAction ==
  /\ Handles({"action", "gated"})
  /\ \/ WalkOn(execution.visited \cup {Node})
     \/ /\ doc.error_policy = "stop"
        /\ Conclude("failed")
        /\ UNCHANGED followed
  /\ UNCHANGED <<decisions, approvals, dropped>>

HandleControl ==
  /\ Handles({"condition", "parallel"})
  /\ WalkOn(execution.visited \cup {Node})
  /\ UNCHANGED <<decisions, approvals, dropped>>

(* A loop node is not left in visited, so each edge into it counts.         *)
HandleLoop ==
  /\ Handles({"loop"})
  /\ IF execution.loops[Node] < MaxIterations
       THEN \E next \in _next_nodes(Node) :
              /\ execution' = [execution EXCEPT !.queue = Extend(Tail(@), next),
                                                !.loops[Node] = @ + 1]
              /\ followed' = followed \cup Edges(Node, next)
       ELSE /\ IF doc.error_policy = "stop" THEN Conclude("failed")
               ELSE execution' = [execution EXCEPT !.queue = Tail(@),
                                                   !.visited = @ \cup {Node},
                                                   !.loops[Node] = @ + 1]
            /\ UNCHANGED followed
  /\ UNCHANGED <<decisions, approvals, dropped>>

(* A delay and an approval return from the walk with the nodes behind them; *)
(* what else was queued is not in the result.  An approval's row is         *)
(* inserted on conflict do nothing.                                         *)
HandleSuspension ==
  /\ Handles({"delay", "approval"})
  /\ \E next \in _next_nodes(Node) :
       /\ execution' = [execution EXCEPT !.state = "waiting", !.queue = <<>>,
                                         !.waiting_on = Node, !.resume_nodes = next]
       /\ followed' = followed \cup Edges(Node, next)
  /\ dropped' = dropped \cup Range(Tail(execution.queue))
  /\ approvals' = IF doc.type[Node] = "approval" /\ approvals[Node] = "absent"
                    THEN [approvals EXCEPT ![Node] = "requested"] ELSE approvals
  /\ UNCHANGED decisions

-----------------------------------------------------------------------------
_resolved_state(cast) ==
  LET approved == {a \in Assignees : cast[a] = "approved"}
      rejected == {a \in Assignees : cast[a] = "rejected"}
      spare == IF doc.quorum > Cardinality(Assignees) THEN 0
               ELSE Cardinality(Assignees) - doc.quorum
  IN CASE doc.strategy = "any" /\ approved # {} -> "approved"
       [] doc.strategy = "any" /\ approved = {} /\ rejected # {} -> "rejected"
       [] doc.strategy = "all" /\ rejected # {} -> "rejected"
       [] doc.strategy = "all" /\ rejected = {} /\ approved = Assignees -> "approved"
       [] doc.strategy = "quorum" /\ Cardinality(approved) >= doc.quorum -> "approved"
       [] /\ doc.strategy = "quorum" /\ Cardinality(approved) < doc.quorum
          /\ Cardinality(rejected) > spare -> "rejected"
       [] OTHER -> "requested"

(* decide_approval: the assignees are people; each decides once while the   *)
(* approval is requested.                                                   *)
decide_approval(n, a) ==
  /\ approvals[n] = "requested" /\ decisions[n][a] = "none"
  /\ \E decision \in {"approved", "rejected"} :
       decisions' = [decisions EXCEPT ![n][a] = decision]
  /\ approvals' = [approvals EXCEPT ![n] = _resolved_state(decisions'[n])]
  /\ IF approvals'[n] = "rejected"
       THEN execution' = [execution EXCEPT !.state = "failed"]
       ELSE UNCHANGED execution
  /\ UNCHANGED <<doc, handled, followed, dropped>>

(* resume_execution, after the delay or the approval's message.             *)
resume_execution ==
  /\ execution.state = "waiting"
  /\ approvals[execution.waiting_on] \in {"absent", "approved"}
  /\ execution.resume_nodes # <<>>
  /\ Run(execution.resume_nodes)
  /\ UNCHANGED <<doc, decisions, approvals, handled, followed, dropped>>

-----------------------------------------------------------------------------
GraphInit ==
  /\ doc \in Drafts
  /\ execution = [state |-> "draft", queue |-> <<>>, visited |-> {},
                  loops |-> [n \in Ids |-> 0], waiting_on |-> 0, resume_nodes |-> <<>>]
  /\ decisions = [n \in Ids |-> [a \in Assignees |-> "none"]]
  /\ approvals = [n \in Ids |-> "absent"]
  /\ handled = {} /\ followed = {} /\ dropped = {}

GraphNext ==
  \/ publish_workflow \/ execute_workflow \/ resume_execution
  \/ EngineStops \/ EngineFinishes \/ SkipVisited
  \/ HandleAction \/ HandleControl \/ HandleLoop \/ HandleSuspension
  \/ \E n \in Ids, a \in Assignees : decide_approval(n, a)

GraphSpec == GraphInit /\ [][GraphNext]_graphVars

-----------------------------------------------------------------------------
(* Path[m, n]: a path of at least one edge leads from m to n.               *)
Path == TransitiveClosure([m, n \in Ids |-> <<m, n>> \in doc.edges], Ids)

(* What the validator lets through and what it refuses, by the definitions  *)
(* of a cycle and of a path: a plan that is executed is acyclic, has an     *)
(* approval before every action that needs one, and starts from nodes that  *)
(* reach all others (dsl.py:366, dsl.py:417, dsl.py:559); with one root     *)
(* there is no warning (dsl.py:420).  A document without these defects is   *)
(* not refused.                                                             *)
ValidatorIsExact ==
  LET Sound ==
        /\ \A n \in Ids : ~Path[n, n]
        /\ \A n \in NodesOfType("gated") : \E m \in NodesOfType("approval") : Path[m, n]
        /\ NodesOfType("approval") # {} /\ doc.strategy = "quorum"
             => doc.quorum <= Cardinality(Assignees)
  IN /\ execution.state = "refused" => ~Sound
     /\ execution.state \notin {"draft", "refused"} =>
          /\ Sound
          /\ \A n \in Ids : n \in Roots(doc) \/ \E m \in Roots(doc) : Path[m, n]
          /\ Cardinality(Roots(doc)) = 1 => _unreachable_nodes(doc) = {}

(* A completed execution has handled its entries and whatever an edge it    *)
(* followed leads to.                                                       *)
BranchesAreKept ==
  execution.state = "completed" =>
    Roots(doc) \cup {e[2] : e \in followed} \subseteq handled

(* A node that every path from an entry reaches through an approval is      *)
(* handled only once that approval, or one of several, was given: the walk  *)
(* starts again from the stored continuation alone (workflow.py:203).       *)
GatedByApproval ==
  LET free == [m, n \in Ids |-> <<m, n>> \in doc.edges /\ doc.type[m] # "approval"]
      open == TransitiveClosure(free, Ids)
  IN \A n \in handled :
       (\A m \in Ids : approvals[m] # "approved") =>
         n \in Roots(doc) \/ \E m \in Roots(doc) : open[m, n]

(* An approval that every assignee has decided is resolved: the quorum the  *)
(* validator accepts can be met or missed (approvals.py:174).               *)
DecidedIsResolved ==
  \A n \in Ids :
    (\A a \in Assignees : decisions[n][a] # "none") => approvals[n] # "requested"

(* A valid document runs as its graph says: the validator is exact, the     *)
(* approvals gate what is behind them and come to a decision, and an        *)
(* execution that suspended nowhere with nodes still queued handled all it  *)
(* reached.                                                                 *)
PlansRunAsDrawn ==
  /\ ValidatorIsExact
  /\ GatedByApproval
  /\ DecidedIsResolved
  /\ dropped = {} => BranchesAreKept
=============================================================================
