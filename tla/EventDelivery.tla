---------------------------- MODULE EventDelivery ----------------------------
(***************************************************************************)
(* What the outbox promises its consumers: at-least-once delivery.  A      *)
(* published event stays open while consumers see it, possibly repeatedly; *)
(* it is delivered only when every consumer has seen it, or given up.      *)
(* Nothing is delivered before it is published or after it is closed.      *)
(***************************************************************************)
CONSTANTS Events, Consumers

VARIABLES phase, seen

vars == <<phase, seen>>

Init ==
  /\ phase = [e \in Events |-> "unpublished"]
  /\ seen = [e \in Events |-> {}]

Publish(e) ==
  /\ phase[e] = "unpublished"
  /\ phase' = [phase EXCEPT ![e] = "open"]
  /\ UNCHANGED seen

Consume(e, h) ==
  /\ phase[e] = "open"
  /\ seen' = [seen EXCEPT ![e] = @ \cup {h}]
  /\ UNCHANGED phase

(* One transaction may close several events: those every consumer has seen *)
(* as delivered, the others only by giving up.                             *)
Close(delivered, abandoned) ==
  /\ \A e \in delivered \cup abandoned : phase[e] = "open"
  /\ \A e \in delivered : seen[e] = Consumers[e]
  /\ phase' = [e \in Events |-> IF e \in delivered THEN "delivered"
                                ELSE IF e \in abandoned THEN "abandoned"
                                ELSE phase[e]]
  /\ UNCHANGED seen

Next ==
  \/ \E e \in Events : Publish(e) \/ \E h \in Consumers[e] : Consume(e, h)
  \/ \E delivered, abandoned \in SUBSET Events : Close(delivered, abandoned)

Spec == Init /\ [][Next]_vars
=============================================================================
