-------------------------- MODULE MCActionDispatch --------------------------
(* Two runs of one execution reach the node.                                *)
EXTENDS ActionDispatch

CONSTANTS r1, r2

TwoRuns == {r1, r2}
EveryKind == AllKinds
=============================================================================
