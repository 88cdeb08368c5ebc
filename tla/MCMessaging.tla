---------------------------- MODULE MCMessaging ----------------------------
(* Two messages of one customer and a second number that others may enter.  *)
EXTENDS Messaging

CONSTANTS m1, m2, p1, p2

MCInbound == {m1, m2}
MCPhones == {p1, p2}
MCFrom == [m \in MCInbound |-> p1]
=============================================================================
