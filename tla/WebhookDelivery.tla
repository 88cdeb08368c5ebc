--------------------------- MODULE WebhookDelivery ---------------------------
(***************************************************************************)
(* Outbound webhook delivery: infrastructure/celery/tasks/webhook.py.      *)
(*                                                                         *)
(* A delivery is one row of outbound_webhook_deliveries.  A deliver task   *)
(* claims the row in one transaction (attempts + 1, status "processing", a *)
(* two-minute lease in next_attempt_at), posts outside any transaction,    *)
(* and settles the row in a second transaction that is fenced by the       *)
(* attempt number it claimed.  The sweep re-queues rows whose              *)
(* next_attempt_at has passed.  Messages are acknowledged late, so a       *)
(* worker that dies gives its message back to the broker.                  *)
(*                                                                         *)
(* Time is abstracted to what next_attempt_at tells apart: absent, still   *)
(* in the future, or reached.                                              *)
(***************************************************************************)
EXTENDS Naturals, FiniteSets

CONSTANTS Deliveries, Configs, Workers,
          ConfigOf,               \* delivery.config_id
          None,
          MAX_DELIVERY_ATTEMPTS,  \* 5 in the code
          FAILURE_THRESHOLD,      \* 10 in the code
          MaxQueued,              \* bound: deliver messages waiting per delivery
          MaxLost                 \* bound: workers lost while holding a message

ASSUME WebhookAssumption ==
  /\ ConfigOf \in [Deliveries -> Configs]
  /\ None \notin Deliveries
  /\ MAX_DELIVERY_ATTEMPTS \in Nat \ {0}
  /\ FAILURE_THRESHOLD \in Nat \ {0}
  /\ MaxQueued \in Nat \ {0}
  /\ MaxLost \in Nat

VARIABLES
  status,        \* delivery.status; "absent" before the row is inserted
  attempts,      \* delivery.attempts
  next,          \* delivery.next_attempt_at against the clock
  received,      \* whether the destination ever accepted the payload
  isActive,      \* config.is_active and no disabled_at
  failureCount,  \* config.failure_count
  queued,        \* deliver messages in the workflow-webhook queue
  pc, job, token, outcome,  \* each worker: where it is, its delivery, the
                            \* attempt it claimed and the result of its post
  lost           \* workers lost so far

rowVars == <<status, attempts, next>>
configVars == <<isActive, failureCount>>
workerVars == <<pc, job, token, outcome>>
vars == <<status, attempts, next, received, isActive, failureCount, queued,
          pc, job, token, outcome, lost>>

Statuses == {"absent", "pending", "processing", "delivered", "failed"}
Outcomes == {"delivered", "terminal", "retry"}

TypeOK ==
  /\ status \in [Deliveries -> Statuses]
  /\ attempts \in [Deliveries -> Nat]
  /\ next \in [Deliveries -> {"none", "future", "due"}]
  /\ received \in [Deliveries -> BOOLEAN]
  /\ isActive \in [Configs -> BOOLEAN]
  /\ failureCount \in [Configs -> Nat]
  /\ queued \in [Deliveries -> Nat]
  /\ pc \in [Workers -> {"idle", "sending", "settling"}]
  /\ job \in [Workers -> Deliveries \cup {None}]
  /\ token \in [Workers -> Nat]
  /\ outcome \in [Workers -> Outcomes \cup {None}]
  /\ lost \in Nat

Init ==
  /\ status = [d \in Deliveries |-> "absent"]
  /\ attempts = [d \in Deliveries |-> 0]
  /\ next = [d \in Deliveries |-> "none"]
  /\ received = [d \in Deliveries |-> FALSE]
  /\ isActive = [c \in Configs |-> TRUE]
  /\ failureCount = [c \in Configs |-> 0]
  /\ queued = [d \in Deliveries |-> 0]
  /\ pc = [w \in Workers |-> "idle"]
  /\ job = [w \in Workers |-> None]
  /\ token = [w \in Workers |-> 0]
  /\ outcome = [w \in Workers |-> None]
  /\ lost = 0

-----------------------------------------------------------------------------
(* Rows enter through handle_outbound_webhook: insert, on conflict nothing. *)

HandleOutboundWebhook(d) ==
  /\ isActive[ConfigOf[d]]
  /\ status[d] = "absent"
  /\ status' = [status EXCEPT ![d] = "pending"]
  /\ next' = [next EXCEPT ![d] = "due"]
  /\ UNCHANGED <<attempts, received, configVars, queued, workerVars, lost>>

(* The sweep queues every due row below the attempt limit and leaves the    *)
(* rows as they are.                                                        *)

SweepSelects_PendingOnly(d) ==
  status[d] = "pending" /\ next[d] = "due" /\ attempts[d] < MAX_DELIVERY_ATTEMPTS

SweepSelects(d) ==
  /\ status[d] \in {"pending", "processing"}
  /\ next[d] = "due"
  /\ attempts[d] < MAX_DELIVERY_ATTEMPTS

SweepPendingDeliveries ==
  LET due == {d \in Deliveries : SweepSelects(d) /\ queued[d] < MaxQueued}
  IN  /\ due # {}
      /\ queued' = [d \in Deliveries |->
                      IF d \in due THEN queued[d] + 1 ELSE queued[d]]
      /\ UNCHANGED <<rowVars, received, configVars, workerVars, lost>>

(* The clock passes next_attempt_at: a backoff elapses or a lease expires.  *)

ClockReaches(d) ==
  /\ next[d] = "future"
  /\ next' = [next EXCEPT ![d] = "due"]
  /\ UNCHANGED <<status, attempts, received, configVars, queued, workerVars, lost>>

-----------------------------------------------------------------------------
(* _deliver_once, first transaction: the claim.                             *)

Take(w, d) ==
  /\ pc[w] = "idle"
  /\ queued[d] > 0
  /\ queued' = [queued EXCEPT ![d] = @ - 1]

AlreadyDelivered(d) == status[d] = "delivered"

LeaseHeld(d) == status[d] = "processing" /\ next[d] = "future"

ClaimRefused(w, d) ==
  /\ Take(w, d)
  /\ AlreadyDelivered(d) \/ LeaseHeld(d)
  /\ UNCHANGED <<rowVars, received, configVars, workerVars, lost>>

ClaimInactive(w, d) ==
  /\ Take(w, d)
  /\ ~AlreadyDelivered(d) /\ ~LeaseHeld(d)
  /\ ~isActive[ConfigOf[d]]
  /\ status' = [status EXCEPT ![d] = "failed"]
  /\ next' = [next EXCEPT ![d] = "none"]
  /\ UNCHANGED <<attempts, received, configVars, workerVars, lost>>

NextAttempt_Unchanged(d) == attempts[d]

NextAttempt(d) == attempts[d] + 1

Claim(w, d) ==
  /\ Take(w, d)
  /\ ~AlreadyDelivered(d) /\ ~LeaseHeld(d)
  /\ isActive[ConfigOf[d]]
  /\ attempts' = [attempts EXCEPT ![d] = NextAttempt(d)]
  /\ status' = [status EXCEPT ![d] = "processing"]
  /\ next' = [next EXCEPT ![d] = "future"]
  /\ pc' = [pc EXCEPT ![w] = "sending"]
  /\ job' = [job EXCEPT ![w] = d]
  /\ token' = [token EXCEPT ![w] = NextAttempt(d)]
  /\ UNCHANGED <<received, configVars, outcome, lost>>

(* The post.  A 2xx means the destination accepted; an answer that is lost  *)
(* on the way back is a retryable failure although it accepted; a missing   *)
(* key never reaches it; a bad URL or a 4xx is terminal and not accepted.   *)

Send(w) ==
  /\ pc[w] = "sending"
  /\ \E o \in Outcomes, accepted \in BOOLEAN :
       /\ o = "delivered" => accepted
       /\ o = "terminal" => ~accepted
       /\ outcome' = [outcome EXCEPT ![w] = o]
       /\ received' = [received EXCEPT ![job[w]] = @ \/ accepted]
  /\ pc' = [pc EXCEPT ![w] = "settling"]
  /\ UNCHANGED <<rowVars, configVars, queued, job, token, lost>>

-----------------------------------------------------------------------------
(* _deliver_once, second transaction: the settlement.                       *)

Free(w) ==
  /\ pc' = [pc EXCEPT ![w] = "idle"]
  /\ job' = [job EXCEPT ![w] = None]
  /\ token' = [token EXCEPT ![w] = 0]
  /\ outcome' = [outcome EXCEPT ![w] = None]

Superseded_NoFence(w) == status[job[w]] = "delivered"

Superseded(w) == status[job[w]] = "delivered" \/ attempts[job[w]] # token[w]

PostSucceeded_AnyAnswer(w) == outcome[w] # "retry"

PostSucceeded(w) == outcome[w] = "delivered"

SettleStale(w) ==
  /\ pc[w] = "settling"
  /\ Superseded(w)
  /\ Free(w)
  /\ UNCHANGED <<rowVars, received, configVars, queued, lost>>

SettleDelivered(w) ==
  /\ pc[w] = "settling"
  /\ ~Superseded(w)
  /\ PostSucceeded(w)
  /\ status' = [status EXCEPT ![job[w]] = "delivered"]
  /\ next' = [next EXCEPT ![job[w]] = "none"]
  /\ failureCount' = [failureCount EXCEPT ![ConfigOf[job[w]]] = 0]
  /\ Free(w)
  /\ UNCHANGED <<attempts, received, isActive, queued, lost>>

IsTerminal(w) == outcome[w] = "terminal" \/ token[w] >= MAX_DELIVERY_ATTEMPTS

RetryAt_Short(w) ==
  IF outcome[w] = "terminal" \/ token[w] + 1 >= MAX_DELIVERY_ATTEMPTS THEN "none" ELSE "future"

RetryAt(w) == IF IsTerminal(w) THEN "none" ELSE "future"

Disables_Late(c) == failureCount[c] + 1 > FAILURE_THRESHOLD

Disables(c) == failureCount[c] + 1 >= FAILURE_THRESHOLD

SettleFailed(w) ==
  LET d == job[w]
      c == ConfigOf[job[w]]
  IN  /\ pc[w] = "settling"
      /\ ~Superseded(w)
      /\ ~PostSucceeded(w)
      /\ status' = [status EXCEPT ![d] = IF IsTerminal(w) THEN "failed" ELSE "pending"]
      /\ next' = [next EXCEPT ![d] = RetryAt(w)]
      /\ failureCount' = [failureCount EXCEPT ![c] = @ + 1]
      /\ isActive' = [isActive EXCEPT ![c] = @ /\ ~Disables(c)]
      /\ Free(w)
      /\ UNCHANGED <<attempts, received, queued, lost>>

(* The worker dies, or the task raises and is retried: acks_late and        *)
(* reject_on_worker_lost put the message back.                              *)

WorkerLost(w) ==
  /\ pc[w] # "idle"
  /\ lost < MaxLost
  /\ lost' = lost + 1
  /\ queued' = [queued EXCEPT ![job[w]] = @ + 1]
  /\ Free(w)
  /\ UNCHANGED <<rowVars, received, configVars>>

-----------------------------------------------------------------------------
Deliver(w, d) == ClaimRefused(w, d) \/ ClaimInactive(w, d) \/ Claim(w, d)

Settle(w) == SettleStale(w) \/ SettleDelivered(w) \/ SettleFailed(w)

Next ==
  \/ \E d \in Deliveries : HandleOutboundWebhook(d) \/ ClockReaches(d)
  \/ SweepPendingDeliveries
  \/ \E w \in Workers, d \in Deliveries : Deliver(w, d)
  \/ \E w \in Workers : Send(w) \/ Settle(w) \/ WorkerLost(w)

Spec == Init /\ [][Next]_vars

(* Beat runs the sweep every minute, the pool always has a worker that      *)
(* takes the next message, a started task runs to its end unless it is      *)
(* lost, and the clock advances.                                            *)

Fairness ==
  /\ WF_vars(SweepPendingDeliveries)
  /\ \A d \in Deliveries :
       WF_vars(ClockReaches(d)) /\ WF_vars(\E w \in Workers : Deliver(w, d))
  /\ \A w \in Workers : WF_vars(Send(w)) /\ WF_vars(Settle(w))

FairSpec == Spec /\ Fairness

-----------------------------------------------------------------------------
Busy(w) == pc[w] # "idle"

Settled(d) == status[d] \in {"delivered", "failed"}

(* Fencing tokens are unique: two workers in flight on one delivery never   *)
(* hold the same attempt number, and never one the row has not reached.     *)
(* The settlement's check attempts != mine (webhook.py:168) rests on this.  *)
OneHolderPerAttempt ==
  \A v, w \in Workers :
    Busy(v) /\ Busy(w) /\ job[v] = job[w] =>
      /\ token[w] <= attempts[job[w]]
      /\ token[v] = token[w] => v = w

(* A row marked "delivered" was accepted by its destination, whichever of   *)
(* several overlapping attempts settled it and in whatever order.           *)
DeliveredWasReceived ==
  \A d \in Deliveries : status[d] = "delivered" => received[d]

(* An unsettled row always carries a next_attempt_at and a settled one      *)
(* never does, so no interleaving of claims, losses and settlements leaves  *)
(* a row the sweep's next_attempt_at filter cannot see.                     *)
UnsettledIsScheduled ==
  \A d \in Deliveries :
    status[d] \in {"pending", "processing"} <=> next[d] # "none"

(* A configuration whose consecutive failures reached the threshold is      *)
(* disabled, also when several deliveries of it fail at the same time.      *)
DisabledAtThreshold ==
  \A c \in Configs : failureCount[c] >= FAILURE_THRESHOLD => ~isActive[c]

(* "delivered" is final: no duplicate message, late settlement or disabled  *)
(* configuration reopens the row or starts another attempt on it.           *)
DeliveredIsFinal ==
  [][\A d \in Deliveries :
       status[d] = "delivered" =>
         status'[d] = "delivered" /\ attempts'[d] = attempts[d]]_vars

(* While a lease runs, only the worker that holds the row's current attempt *)
(* can move the row out of "processing"; an overtaken worker changes        *)
(* nothing (webhook.py:109-114 and 166-169).                                *)
LeaseHolderSettles ==
  [][\A d \in Deliveries :
       LeaseHeld(d) /\ status'[d] # "processing" =>
         \E w \in Workers : /\ pc[w] = "settling" /\ job[w] = d
                            /\ token[w] = attempts[d]
                            /\ pc'[w] = "idle"]_vars

(* No row below the attempt limit is forgotten: it is settled, or reaches   *)
(* the limit, although workers are lost in the middle of attempts.          *)
EveryAttemptConcludes ==
  \A d \in Deliveries :
    status[d] # "absent" ~> Settled(d) \/ attempts[d] >= MAX_DELIVERY_ATTEMPTS

(* A busy worker works on a real delivery and holds an attempt the row has  *)
(* reached, holders of one attempt are unique, and a post reported as       *)
(* delivered was received.                                                  *)
HolderInv ==
  /\ \A w \in Workers : Busy(w) => job[w] \in Deliveries
  /\ OneHolderPerAttempt
  /\ \A w \in Workers :
       pc[w] = "settling" /\ outcome[w] = "delivered" => received[job[w]]

(* However deliver, retry_due and the settings routes interleave and        *)
(* workers are lost: no two workers hold the same attempt of a delivery; a  *)
(* delivery marked delivered was received by its endpoint; one carries the  *)
(* next_attempt_at the sweep looks for exactly while it is unsettled; and a *)
(* configuration is disabled once its failures have reached the threshold.  *)
(* The conjunction is inductive.                                            *)
WebhookInv ==
  /\ TypeOK
  /\ HolderInv
  /\ DeliveredWasReceived
  /\ UnsettledIsScheduled
  /\ DisabledAtThreshold
=============================================================================
