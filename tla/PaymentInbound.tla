--------------------------- MODULE PaymentInbound ---------------------------
(***************************************************************************)
(* Verified Razorpay events applied to payments                            *)
(* (application/payments/inbound.py, domain/payments/state_machine.py).    *)
(*                                                                         *)
(* A delivery is one transaction: it reads the event row and the payment   *)
(* without a lock, then waits for the payment's row lock and applies the   *)
(* event.  The locked SELECTs return objects that the session has already  *)
(* loaded, and SQLAlchemy refreshes a loaded object only on request        *)
(* (populate_existing): the payment's status, and processed_at of an event *)
(* that the first read found, keep the values of the unlocked read.        *)
(***************************************************************************)
EXTENDS Naturals, Sequences

CONSTANTS
  Payments,
  Events,         \* provider event ids
  PaymentOf,      \* [Events -> Payments]
  Target,         \* [Events -> Statuses \cup {"unsupported"}]: EVENT_STATUS
  Disagreeing,    \* events whose amount, currency or payment id differs from the row's
  Handlers,       \* concurrent webhook requests
  None,           \* no event
  MaxDeliveries   \* bound on deliveries, first ones and repeated ones

Statuses == {"created", "attempted", "captured", "failed", "refunded"}

ASSUME PaymentAssumption ==
  /\ PaymentOf \in [Events -> Payments]
  /\ Target \in [Events -> (Statuses \ {"created"}) \cup {"unsupported"}]
  /\ Disagreeing \subseteq Events
  /\ None \notin Events
  /\ MaxDeliveries \in Nat

VARIABLES
  mapped,       \* payments whose row, with the provider's order id, exists
  status,       \* payments.status
  history,      \* payment_transitions in sequence order
  event,        \* provider_webhook_events row: "absent", "pending" or "processed"
  parked,       \* events that were committed unprocessed
  handling,     \* per request: its event, or None
  seenEvent,    \* per request: the event row as first read
  seenStatus,   \* per request: the payment's status as first read, "unmapped" or "unread"
  deliveries

requests == <<handling, seenEvent, seenStatus>>
vars == <<mapped, status, history, event, parked, requests, deliveries>>

Rows == {"absent", "pending", "processed"}
Transition == [from : Statuses, to : Statuses, by : Events]

TypeOK ==
  /\ mapped \subseteq Payments /\ parked \subseteq Events
  /\ status \in [Payments -> Statuses]
  /\ history \in [Payments -> Seq(Transition)]
  /\ event \in [Events -> Rows]
  /\ handling \in [Handlers -> Events \cup {None}]
  /\ seenEvent \in [Handlers -> Rows]
  /\ seenStatus \in [Handlers -> Statuses \cup {"unmapped", "unread"}]
  /\ deliveries \in Nat

Init ==
  /\ mapped = {} /\ parked = {}
  /\ status = [p \in Payments |-> "created"]
  /\ history = [p \in Payments |-> <<>>]
  /\ event = [e \in Events |-> "absent"]
  /\ handling = [h \in Handlers |-> None]
  /\ seenEvent = [h \in Handlers |-> "absent"]
  /\ seenStatus = [h \in Handlers |-> "unread"]
  /\ deliveries = 0

-----------------------------------------------------------------------------
ALLOWED ==
  [created   |-> {"attempted", "failed"},
   attempted |-> {"captured", "failed"},
   captured  |-> {"refunded"},
   failed    |-> {},
   refunded  |-> {}]

(* assert_transition succeeds and changes the status.                       *)
Moves_AnyCapture(current, target) ==
  target = "captured" \/ target \in ALLOWED[current]

Moves(current, target) == target \in ALLOWED[current]

(* The row that maps the provider's order to a payment is written.          *)
StorePayment(p) ==
  /\ p \notin mapped
  /\ mapped' = mapped \cup {p}
  /\ UNCHANGED <<status, history, event, parked, requests, deliveries>>

(* _find_event without lock; a processed event is a duplicate at once.      *)
Lookup(h, e) ==
  /\ handling[h] = None
  /\ event[e] # "processed"
  /\ deliveries < MaxDeliveries
  /\ deliveries' = deliveries + 1
  /\ handling' = [handling EXCEPT ![h] = e]
  /\ seenEvent' = [seenEvent EXCEPT ![h] = event[e]]
  /\ UNCHANGED <<mapped, status, history, event, parked, seenStatus>>

(* _resolve_payment loads the payment, also without lock.                   *)
Resolve(h) ==
  /\ handling[h] # None
  /\ seenStatus[h] = "unread"
  /\ seenStatus' = [seenStatus EXCEPT ![h] =
                      IF PaymentOf[handling[h]] \in mapped
                      THEN status[PaymentOf[handling[h]]] ELSE "unmapped"]
  /\ UNCHANGED <<mapped, status, history, event, parked, handling, seenEvent, deliveries>>

Done(h) ==
  /\ handling' = [handling EXCEPT ![h] = None]
  /\ seenEvent' = [seenEvent EXCEPT ![h] = "absent"]
  /\ seenStatus' = [seenStatus EXCEPT ![h] = "unread"]
  /\ UNCHANGED <<mapped, deliveries>>

(* The insert ... on conflict do nothing, and the commit of a row that      *)
(* stays unprocessed.                                                       *)
Park(e) ==
  /\ event' = [event EXCEPT ![e] = IF @ = "absent" THEN "pending" ELSE @]
  /\ parked' = parked \cup {e}

(* Only an event row that the first read did not find is read afresh.       *)
KnownProcessed_Never(h) == FALSE

KnownProcessed(h) == seenEvent[h] = "absent" /\ event[handling[h]] = "processed"

Unmapped(h) ==
  /\ handling[h] # None
  /\ seenStatus[h] = "unmapped"
  /\ IF KnownProcessed(h) THEN UNCHANGED <<event, parked>> ELSE Park(handling[h])
  /\ Done(h)
  /\ UNCHANGED <<status, history>>

Duplicate(h) ==
  /\ handling[h] # None
  /\ seenStatus[h] \in Statuses
  /\ KnownProcessed(h)
  /\ Done(h)
  /\ UNCHANGED <<status, history, event, parked>>

(* The payment's row lock is held and the event is not known as processed.  *)
Locked(h) == handling[h] # None /\ seenStatus[h] \in Statuses /\ ~KnownProcessed(h)

(* _validate_provider_identity fails: pending_reconciliation.               *)
Disagrees(h) ==
  /\ Locked(h)
  /\ handling[h] \in Disagreeing
  /\ Park(handling[h])
  /\ Done(h)
  /\ UNCHANGED <<status, history>>

Applies(h) ==
  /\ handling[h] \notin Disagreeing
  /\ Target[handling[h]] # "unsupported"
  /\ Moves(seenStatus[h], Target[handling[h]])

(* Unsupported, out of order, or already there: _mark_ignored.              *)
Ignore(h) ==
  /\ Locked(h)
  /\ handling[h] \notin Disagreeing
  /\ ~Applies(h)
  /\ event' = [event EXCEPT ![handling[h]] = "processed"]
  /\ Done(h)
  /\ UNCHANGED <<status, history, parked>>

NewRow_NoEvent(h) == [from |-> seenStatus[h], to |-> Target[handling[h]], by |-> None]

NewRow(h) == [from |-> seenStatus[h], to |-> Target[handling[h]], by |-> handling[h]]

Applied(h, p) ==
  /\ status' = [status EXCEPT ![p] = Target[handling[h]]]
  /\ history' = [history EXCEPT ![p] = Append(@, NewRow(h))]

(* Status, transition row, audit row, outbox row and processed_at commit    *)
(* together.                                                                *)
Apply(h) ==
  /\ Locked(h)
  /\ Applies(h)
  /\ Applied(h, PaymentOf[handling[h]])
  /\ event' = [event EXCEPT ![handling[h]] = "processed"]
  /\ Done(h)
  /\ UNCHANGED parked

(* The request dies and its transaction is rolled back; the provider        *)
(* delivers the event again.                                                *)
Abort(h) ==
  /\ handling[h] # None
  /\ Done(h)
  /\ UNCHANGED <<status, history, event, parked>>

Handle(h) ==
  \/ \E e \in Events : Lookup(h, e)
  \/ Resolve(h) \/ Unmapped(h) \/ Duplicate(h) \/ Disagrees(h) \/ Ignore(h) \/ Apply(h) \/ Abort(h)

Next ==
  \/ \E p \in Payments : StorePayment(p)
  \/ \E h \in Handlers : Handle(h)

Spec == Init /\ [][Next]_vars

-----------------------------------------------------------------------------
(* The row and its history agree: the status is the target of the last      *)
(* transition, however deliveries interleave (inbound.py:187-242).          *)
StatusIsLastTransition ==
  \A p \in Payments :
    status[p] = IF history[p] = <<>> THEN "created" ELSE history[p][Len(history[p])].to

(* Before its i-th transition the payment had status s.                     *)
Had(p, i, s) == s = "created" \/ \E j \in 1..(i - 1) : history[p][j].to = s

(* No status is invented: every transition leaves a status that the payment *)
(* had before and enters one the machine allows from there, so nothing is   *)
(* refunded that was not captured, even by a request that read long ago     *)
(* (state_machine.py:35).                                                   *)
NothingInvented ==
  \A p \in Payments : \A i \in 1..Len(history[p]) :
    /\ Had(p, i, history[p][i].from)
    /\ history[p][i].to \in ALLOWED[history[p][i].from]

(* An event that never was committed unprocessed is applied at most once,   *)
(* whatever is redelivered and whoever races (inbound.py:117-140).          *)
AppliedOnce ==
  \A p \in Payments : \A i, j \in 1..Len(history[p]) :
    i # j /\ history[p][i].by = history[p][j].by => history[p][i].by \in parked

(* A captured payment is only refunded: no late event rewrites it           *)
(* (state_machine.py:4).                                                    *)
CapturedIsNotRewritten ==
  [][\A p \in Payments : status[p] = "captured" => status'[p] \in {"captured", "refunded"}]_vars
=============================================================================
