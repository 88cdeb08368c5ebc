------------------------- MODULE MCWorkflowExecution -------------------------
(* Instances of WorkflowExecution: a plan with a delay and an approval,     *)
(* and one with two delays.                                                 *)
EXTENDS WorkflowExecution

CONSTANTS w1, w2

MCWorkers == {w1, w2}

GatedPlan == <<"action", "delay", "action", "action", "approval", "action">>
TwoDelays == <<"action", "delay", "action", "delay", "action">>
=============================================================================
