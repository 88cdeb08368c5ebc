------------------------------ MODULE MCOutbox ------------------------------
(* Instances of Outbox: three rows, of which the first has one handler, the *)
(* second two and the third none, two pollers and batches of two.           *)
EXTENDS Outbox, TLC

CONSTANTS p1, p2, crm, trigger

MCEvents == 1..3
MCHandlersFor == 1 :> <<trigger>> @@ 2 :> <<crm, trigger>> @@ 3 :> <<>>
MCPollers == {p1, p2}
=============================================================================
