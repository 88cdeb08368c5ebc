--------------------------- MODULE MCTaskDelivery ---------------------------
(* Two invocations, one of them without a tenant header, two workers and    *)
(* two replays in progress.                                                 *)
EXTENDS TaskDelivery

CONSTANTS t1, t2, w1, w2, o1, o2

MCTasks == {t1, t2}
MCHeaderless == {t2}
MCWorkers == {w1, w2}
MCOperators == {o1, o2}
=============================================================================
