------------------------- MODULE MCWebhookDelivery -------------------------
(* Two deliveries of one configuration and two workers.                     *)
EXTENDS WebhookDelivery

CONSTANTS d1, d2, w1, w2, c1

MCDeliveries == {d1, d2}
MCWorkers == {w1, w2}
MCConfigs == {c1}
MCConfigOf == [d \in MCDeliveries |-> c1]
=============================================================================
