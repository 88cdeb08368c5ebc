-------------------------- MODULE MCWorkflowGraph --------------------------
(***************************************************************************)
(* Documents of three nodes.  The first set has every graph, cyclic ones   *)
(* and self-loops included, over the types the validator tells apart; the  *)
(* second has every type and setting over the graphs whose edges lead from *)
(* a lower number to a higher one, where only the numbering is fixed.      *)
(***************************************************************************)
EXTENDS WorkflowGraph

CONSTANTS v1, v2

TwoAssignees == {v1, v2}
Three == 1..3

AnyGraph ==
  [type : [Three -> {"action", "gated", "approval"}], edges : SUBSET (Three \X Three),
   strategy : {"any"}, quorum : {1}, error_policy : {"stop"}]

AnySetting ==
  {d \in [type : [Three -> {"action", "gated", "approval", "delay", "loop", "condition"}],
          edges : SUBSET {<<1, 2>>, <<1, 3>>, <<2, 3>>},
          strategy : {"any", "all", "quorum"}, quorum : 1..3,
          error_policy : {"stop", "continue"}] :
     /\ d.strategy # "quorum" => d.quorum = 1
     /\ (\A n \in Three : d.type[n] # "approval") => d.strategy = "any"
     /\ (\A n \in Three : d.type[n] \notin {"action", "loop"}) => d.error_policy = "stop"}

MCDrafts == AnyGraph \cup AnySetting

(* Three actions and no edge.                                               *)
ThreeActions ==
  [type |-> [n \in Three |-> "action"], edges |-> {}, strategy |-> "any", quorum |-> 1,
   error_policy |-> "stop"]

(* A fork with a delay and another action behind it on one branch.          *)
MCFork ==
  {[type |-> <<"parallel", "delay", "action", "action">>,
    edges |-> {<<1, 2>>, <<1, 3>>, <<2, 4>>},
    strategy |-> "any", quorum |-> 1, error_policy |-> "stop"]}
=============================================================================
