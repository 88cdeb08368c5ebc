---------------------------- MODULE RecordProofs ----------------------------
(* Payment events, the members and invitations of organisations, and the    *)
(* contacts the CRM event handlers write, for every number of each.         *)
EXTENDS PaymentInbound, Identity, CrmEvents, TLAPS

(* Payments.                                                                *)

(* What a request has read was true when it read it.                        *)
SeenInv ==
  \A h \in Handlers :
    /\ seenEvent[h] # "processed"
    /\ seenEvent[h] = "pending" => handling[h] \in parked
    /\ seenStatus[h] \in Statuses =>
         /\ handling[h] \in Events
         /\ Had(PaymentOf[handling[h]], Len(history[PaymentOf[handling[h]]]) + 1, seenStatus[h])

(* An event in a history is processed; an unprocessed row is parked.        *)
EventInv ==
  /\ \A e \in Events : event[e] = "pending" => e \in parked
  /\ \A p \in Payments : \A i \in 1..Len(history[p]) : event[history[p][i].by] = "processed"

PaymentInv ==
  TypeOK /\ SeenInv /\ EventInv /\ StatusIsLastTransition /\ NothingInvented /\ AppliedOnce

(* The status of a payment is one it had.                                   *)
LEMMA CurrentWasHad ==
  ASSUME TypeOK, StatusIsLastTransition, NEW p \in Payments
  PROVE  Had(p, Len(history[p]) + 1, status[p])
<1>1. history[p] \in Seq(Transition) /\ Len(history[p]) \in Nat
  BY DEF TypeOK
<1>2. CASE history[p] = <<>>
  BY Zenon, <1>2 DEF StatusIsLastTransition, Had
<1>3. CASE history[p] # <<>>
  <2>1. Len(history[p]) \in 1..(Len(history[p]) + 1 - 1)
    BY <1>1, <1>3
  <2> QED
    BY <1>3, <2>1 DEF StatusIsLastTransition, Had
<1> QED
  BY Zenon, <1>2, <1>3

(* A step that leaves histories, statuses and processed rows alone.         *)
LEMMA QuietStep ==
  ASSUME PaymentInv, TypeOK', UNCHANGED <<status, history>>, SeenInv',
         parked \subseteq parked',
         \A e \in Events : event[e] = "processed" => event'[e] = "processed",
         \A e \in Events : event'[e] = "pending" => e \in parked'
  PROVE  PaymentInv'
<1> USE DEF PaymentInv
<1>1. EventInv'
  <2>1. \A p \in Payments : \A i \in 1..Len(history[p]) : history[p][i] \in Transition
    BY DEF TypeOK
  <2>2. \A p \in Payments : \A i \in 1..Len(history[p]) : history[p][i].by \in Events
    BY Zenon, <2>1 DEF Transition
  <2> QED
    BY Zenon, <2>2 DEF EventInv
<1>2. StatusIsLastTransition' /\ NothingInvented'
  BY Zenon DEF StatusIsLastTransition, NothingInvented, Had
<1>3. AppliedOnce'
  BY Zenon DEF AppliedOnce
<1> QED
  BY Zenon, <1>1, <1>2, <1>3

(* A request that ends leaves nothing read behind.                          *)
LEMMA DoneSeen ==
  ASSUME PaymentInv, NEW h \in Handlers, Done(h), parked \subseteq parked',
         \A k \in Handlers \ {h} : seenStatus[k] \in Statuses =>
           Had(PaymentOf[handling[k]], Len(history[PaymentOf[handling[k]]]) + 1, seenStatus[k])'
  PROVE  SeenInv'
<1> SUFFICES ASSUME NEW k \in Handlers
             PROVE  (/\ seenEvent[k] # "processed"
                     /\ seenEvent[k] = "pending" => handling[k] \in parked
                     /\ seenStatus[k] \in Statuses =>
                          /\ handling[k] \in Events
                          /\ Had(PaymentOf[handling[k]],
                                 Len(history[PaymentOf[handling[k]]]) + 1, seenStatus[k]))'
  BY Zenon DEF SeenInv
<1>1. CASE k = h
  <2>1. seenStatus'[h] = "unread" /\ seenEvent'[h] = "absent"
    BY Zenon DEF Done, PaymentInv, TypeOK
  <2>2. "unread" \notin Statuses
    BY Zenon DEF Statuses
  <2> QED
    BY Zenon, <1>1, <2>1, <2>2
<1>2. CASE k # h
  BY Zenon, <1>2 DEF Done, PaymentInv, SeenInv, TypeOK
<1> QED
  BY Zenon, <1>1, <1>2

(* The steps that neither start nor apply an event (inbound.py:86-185).     *)
LEMMA OtherStep ==
  ASSUME PaymentInv, NEW h \in Handlers,
         Unmapped(h) \/ Duplicate(h) \/ Disagrees(h) \/ Ignore(h) \/ Abort(h)
  PROVE  PaymentInv'
<1> USE DEF PaymentInv
<1>1. Done(h) /\ UNCHANGED <<status, history>> /\ parked \subseteq parked'
  BY Zenon DEF Unmapped, Duplicate, Disagrees, Ignore, Abort, Park
<1>2. handling[h] \in Events
  BY Zenon DEF Unmapped, Duplicate, Disagrees, Ignore, Abort, Locked, TypeOK
<1>3. /\ event' \in [Events -> Rows] /\ parked' \subseteq Events
      /\ \A e \in Events : event[e] = "processed" => event'[e] = "processed"
      /\ \A e \in Events : event'[e] = "pending" => e \in parked'
  BY <1>2 DEF Unmapped, Duplicate, Disagrees, Ignore, Abort, Park, TypeOK, Rows, EventInv
<1>4. TypeOK'
  BY Zenon, <1>1, <1>3 DEF TypeOK, Done, Rows
<1>5. \A k \in Handlers \ {h} : seenStatus[k] \in Statuses =>
        (Had(PaymentOf[handling[k]], Len(history[PaymentOf[handling[k]]]) + 1, seenStatus[k]))'
  BY Zenon, <1>1 DEF SeenInv, Done, TypeOK, Had
<1>6. SeenInv'
  BY Zenon, <1>1, <1>5, DoneSeen
<1> QED
  BY Zenon, <1>1, <1>3, <1>4, <1>6, QuietStep

(* The transaction that applies an event (inbound.py:187-258).              *)
LEMMA ApplyStep ==
  ASSUME PaymentInv, NEW h \in Handlers, Apply(h)
  PROVE  PaymentInv'
<1> USE DEF PaymentInv
<1>a. PICK e \in Events : e = handling[h]
  BY Zenon DEF Apply, Locked, TypeOK
<1>b. PICK p \in Payments : p = PaymentOf[e]
  BY Zenon, PaymentAssumption
<1>c. PICK n \in Nat : n = Len(history[p])
  BY DEF TypeOK
<1>d. PICK s0 \in Statuses : s0 = seenStatus[h]
  BY Zenon DEF Apply, Locked, TypeOK
<1>1. Target[e] \in Statuses /\ Target[e] \in ALLOWED[s0]
  BY Zenon, <1>a, <1>d, PaymentAssumption DEF Apply, Applies, Moves
<1>1a. NewRow(h) = [from |-> s0, to |-> Target[e], by |-> e]
  BY Zenon, <1>a, <1>d DEF NewRow
<1>2. history[p] \in Seq(Transition) /\ n \in Nat /\ NewRow(h) \in Transition
  <2>1. history[p] \in Seq(Transition)
    BY Zenon DEF TypeOK
  <2>2. NewRow(h) \in Transition
    BY <1>1, <1>1a DEF Transition
  <2> QED
    BY Zenon, <2>1, <2>2
<1>3. /\ history' = [history EXCEPT ![p] = Append(@, NewRow(h))]
      /\ status' = [status EXCEPT ![p] = Target[e]]
      /\ event' = [event EXCEPT ![e] = "processed"]
      /\ parked' = parked /\ Done(h)
  BY Zenon, <1>a, <1>b DEF Apply, Applied
<1>4. /\ Len(history'[p]) = n + 1 /\ history'[p][n + 1] = NewRow(h)
      /\ \A i \in 1..n : history'[p][i] = history[p][i]
      /\ \A q \in Payments \ {p} : history'[q] = history[q]
  <2>1. history'[p] = Append(history[p], NewRow(h))
    BY Zenon, <1>3 DEF TypeOK
  <2>2. \A q \in Payments \ {p} : history'[q] = history[q]
    BY Zenon, <1>3 DEF TypeOK
  <2> QED
    BY <1>c, <1>2, <2>1, <2>2
<1>5. TypeOK'
  <2>1. history' \in [Payments -> Seq(Transition)]
    BY <1>1, <1>2, <1>3 DEF TypeOK
  <2>2. event' \in [Events -> Rows] /\ status' \in [Payments -> Statuses]
    BY Zenon, <1>1, <1>3 DEF TypeOK, Rows
  <2> QED
    BY Zenon, <1>3, <2>1, <2>2 DEF TypeOK, Done, Rows
<1>7. ASSUME NEW k \in Handlers \ {h}, seenStatus[k] \in Statuses
      PROVE  (Had(PaymentOf[handling[k]], Len(history[PaymentOf[handling[k]]]) + 1, seenStatus[k]))'
  <2> DEFINE q == PaymentOf[handling[k]]
  <2>1. handling[k] \in Events /\ q \in Payments /\ Had(q, Len(history[q]) + 1, seenStatus[k])
    BY Zenon, <1>7, PaymentAssumption DEF SeenInv
  <2>2. handling'[k] = handling[k] /\ seenStatus'[k] = seenStatus[k]
    BY Zenon, <1>3 DEF Done, TypeOK
  <2>3. Len(history[q]) \in Nat /\ Len(history'[q]) \in {Len(history[q]), Len(history[q]) + 1}
    <3>1. Len(history[q]) \in Nat
      BY <2>1 DEF TypeOK
    <3>2. CASE q = p
      BY Zenon, <1>c, <1>4, <3>1, <3>2
    <3>3. CASE q # p
      BY Zenon, <1>4, <2>1, <3>1, <3>3
    <3> QED
      BY Zenon, <3>1, <3>2, <3>3
  <2>4. CASE seenStatus[k] = "created"
    BY Zenon, <2>2, <2>4 DEF Had
  <2>5. CASE seenStatus[k] # "created"
    <3>1. PICK j \in 1..Len(history[q]) : history[q][j].to = seenStatus[k]
      BY <2>1, <2>3, <2>5 DEF Had
    <3>2. j \in 1..Len(history'[q]) /\ history'[q][j] = history[q][j]
      <4> HIDE DEF PaymentInv
      <4>1. j \in 1..Len(history'[q])
        BY <2>3, <3>1
      <4>2. history'[q][j] = history[q][j]
        BY Zenon, <1>c, <1>4, <2>1, <3>1
      <4> QED
        BY Zenon, <4>1, <4>2
    <3> QED
      BY SMTT(40), <2>2, <2>3, <3>1, <3>2 DEF Had
  <2> QED
    BY Zenon, <2>4, <2>5
<1>8. SeenInv'
  BY Zenon, <1>3, <1>7, DoneSeen
<1>9. StatusIsLastTransition'
  <2> SUFFICES ASSUME NEW q \in Payments
               PROVE  (status[q] = IF history[q] = <<>> THEN "created"
                                   ELSE history[q][Len(history[q])].to)'
    BY Zenon DEF StatusIsLastTransition
  <2>1. CASE q = p
    <3>1. history'[p] # <<>>
      BY <1>4
    <3> QED
      BY <1>1a, <1>3, <1>4, <2>1, <3>1 DEF TypeOK
  <2>2. CASE q # p
    BY Zenon, <1>3, <1>4, <2>2 DEF StatusIsLastTransition, TypeOK
  <2> QED
    BY Zenon, <2>1, <2>2
<1>10. NothingInvented'
  <2> SUFFICES ASSUME NEW q \in Payments, NEW i \in 1..Len(history'[q])
               PROVE  (/\ Had(q, i, history[q][i].from)
                       /\ history[q][i].to \in ALLOWED[history[q][i].from])'
    BY Zenon DEF NothingInvented
  <2>1. CASE q = p /\ i = n + 1
    <3>1. Had(p, n + 1, s0)
      BY Zenon, <1>a, <1>b, <1>c, <1>d DEF SeenInv, Apply, Locked
    <3>3. history'[p][n + 1].from = s0 /\ history'[p][n + 1].to = Target[e]
      BY <1>1a, <1>4
    <3>4. (Had(p, n + 1, s0))'
      <4>1. \A j \in 1..(n + 1 - 1) : history'[p][j] = history[p][j]
        BY <1>2, <1>4
      <4>2. CASE s0 = "created"
        BY Zenon, <4>2 DEF Had
      <4>3. CASE s0 # "created"
        <5>1. PICK j \in 1..(n + 1 - 1) : history[p][j].to = s0
          BY <3>1, <4>3 DEF Had
        <5>2. history'[p][j].to = s0
          BY Zenon, <4>1, <5>1
        <5> QED
          BY <5>2 DEF Had
      <4> QED
        BY Zenon, <4>2, <4>3
    <3> QED
      BY Zenon, <1>1, <2>1, <3>3, <3>4
  <2>2. CASE ~(q = p /\ i = n + 1)
    <3>1. i \in 1..Len(history[q]) /\ history'[q][i] = history[q][i]
      BY <1>c, <1>4, <2>2
    <3>2. Had(q, i, history[q][i].from) /\ history[q][i].to \in ALLOWED[history[q][i].from]
      BY Zenon, <3>1 DEF NothingInvented
    <3>3. Len(history[q]) \in Nat
      BY DEF TypeOK
    <3>4. (Had(q, i, history[q][i].from))'
      <4> PICK r : r = history[q][i].from
        OBVIOUS
      <4>1. (Had(q, i, r))'
        <5>1. \A j \in 1..(i - 1) : history'[q][j] = history[q][j]
          <6>1. \A j \in 1..(i - 1) : j \in 1..Len(history[q])
            BY <3>1, <3>3
          <6>2. CASE q = p
            BY Zenon, <1>c, <1>4, <6>1, <6>2
          <6>3. CASE q # p
            BY Zenon, <1>4, <6>3
          <6> QED
            BY Zenon, <6>2, <6>3
        <5> QED
          BY Zenon, <3>2, <5>1 DEF Had
      <4> QED
        BY Zenon, <3>1, <4>1
    <3> QED
      BY Zenon, <3>1, <3>2, <3>4
  <2> QED
    BY Zenon, <2>1, <2>2
<1>11. e \in parked \/ \A q \in Payments : \A i \in 1..Len(history[q]) : history[q][i].by # e
  <2>1. seenEvent[h] \in {"absent", "pending"}
    BY Zenon DEF SeenInv, TypeOK, Rows
  <2>2. seenEvent[h] = "absent" => event[e] # "processed"
    BY Zenon, <1>a DEF Apply, Locked, KnownProcessed
  <2>3. seenEvent[h] = "pending" => e \in parked
    BY Zenon, <1>a DEF SeenInv
  <2> QED
    BY Zenon, <2>1, <2>2, <2>3 DEF EventInv
<1>12. AppliedOnce'
  <2> SUFFICES ASSUME NEW q \in Payments, NEW i \in 1..Len(history'[q]),
                      NEW j \in 1..Len(history'[q]), i # j,
                      history'[q][i].by = history'[q][j].by
               PROVE  history'[q][i].by \in parked
    BY <1>3 DEF AppliedOnce
  <2>1. CASE q # p
    BY Zenon, <1>4, <2>1 DEF AppliedOnce
  <2>2. CASE q = p /\ i # n + 1 /\ j # n + 1
    <3>1. /\ i \in 1..Len(history[p]) /\ history'[p][i] = history[p][i]
          /\ j \in 1..Len(history[p]) /\ history'[p][j] = history[p][j]
      BY SMTT(40), <1>c, <1>4, <2>2
    <3> QED
      BY Zenon, <2>2, <3>1 DEF AppliedOnce
  <2>3. CASE q = p /\ (i = n + 1 \/ j = n + 1)
    <3>1. history'[p][n + 1].by = e
      BY <1>1a, <1>4
    <3> QED
      <4>1. \A m \in 1..Len(history'[p]) : m # n + 1 =>
              m \in 1..Len(history[p]) /\ history'[p][m] = history[p][m]
        <5> HIDE DEF PaymentInv
        <5>1. \A m \in 1..(n + 1) : m # n + 1 => m \in 1..n
          OBVIOUS
        <5> QED
          BY Zenon, <1>c, <1>4, <5>1
      <4>2. CASE i = n + 1
        <5>1. j \in 1..Len(history[p]) /\ history[p][j].by = e
          BY Zenon, <2>3, <3>1, <4>1, <4>2
        <5>2. e \in parked
          BY Zenon, <1>11, <5>1
        <5> QED
          BY Zenon, <2>3, <3>1, <4>2, <5>2
      <4>3. CASE j = n + 1
        <5>1. i \in 1..Len(history[p]) /\ history[p][i].by = e
          BY Zenon, <2>3, <3>1, <4>1, <4>3
        <5>2. e \in parked
          BY Zenon, <1>11, <5>1
        <5> QED
          BY Zenon, <2>3, <3>1, <4>3, <5>2
      <4> QED
        BY Zenon, <2>3, <4>2, <4>3
  <2> QED
    BY Zenon, <2>1, <2>2, <2>3
<1>13. EventInv'
  <2>1. \A q \in Payments : \A i \in 1..Len(history'[q]) : event'[history'[q][i].by] = "processed"
    <3> SUFFICES ASSUME NEW q \in Payments, NEW i \in 1..Len(history'[q])
                 PROVE  event'[history'[q][i].by] = "processed"
      OBVIOUS
    <3>1. CASE q = p /\ i = n + 1
      BY SMTT(40), <1>1a, <1>3, <1>4, <3>1 DEF TypeOK
    <3>2. CASE ~(q = p /\ i = n + 1)
      <4>1. i \in 1..Len(history[q]) /\ history'[q][i] = history[q][i]
        BY <1>c, <1>4, <3>2
      <4>2. event[history[q][i].by] = "processed"
        BY Zenon, <4>1 DEF EventInv
      <4> QED
        BY SMTT(40), <1>1, <1>3, <4>1, <4>2 DEF TypeOK
    <3> QED
      BY Zenon, <3>1, <3>2
  <2>2. \A f \in Events : event'[f] = "pending" => f \in parked'
    BY Zenon, <1>1, <1>3 DEF EventInv, TypeOK
  <2> QED
    BY Zenon, <2>1, <2>2 DEF EventInv
<1> QED
  BY Zenon, <1>5, <1>8, <1>9, <1>10, <1>12, <1>13

(* The unlocked read of the event row (inbound.py:81-83).                   *)
LEMMA LookupStep ==
  ASSUME PaymentInv, NEW h \in Handlers, NEW e \in Events, Lookup(h, e)
  PROVE  PaymentInv'
<1> USE DEF PaymentInv
<1>1. TypeOK'
  BY DEF Lookup, TypeOK, Rows
<1>2. SeenInv'
  <2> SUFFICES ASSUME NEW k \in Handlers
               PROVE  (/\ seenEvent[k] # "processed"
                       /\ seenEvent[k] = "pending" => handling[k] \in parked
                       /\ seenStatus[k] \in Statuses =>
                            /\ handling[k] \in Events
                            /\ Had(PaymentOf[handling[k]],
                                   Len(history[PaymentOf[handling[k]]]) + 1, seenStatus[k]))'
    BY Zenon DEF SeenInv
  <2>1. CASE k = h
    <3>1. seenStatus[h] \notin Statuses
      BY Zenon, PaymentAssumption DEF SeenInv, Lookup
    <3> QED
      BY Zenon, <2>1, <3>1 DEF Lookup, TypeOK, Rows, EventInv
  <2>2. CASE k # h
    BY Zenon, <2>2 DEF Lookup, TypeOK, SeenInv, Had
  <2> QED
    BY Zenon, <2>1, <2>2
<1> QED
  BY Zenon, <1>1, <1>2, QuietStep DEF Lookup, EventInv

(* The unlocked read of the payment records a status it has                 *)
(* (inbound.py:85).                                                         *)
LEMMA ResolveStep ==
  ASSUME PaymentInv, NEW h \in Handlers, Resolve(h)
  PROVE  PaymentInv'
<1> USE DEF PaymentInv
<1>1. handling[h] \in Events /\ PaymentOf[handling[h]] \in Payments
  BY Zenon, PaymentAssumption DEF Resolve, TypeOK
<1>2. TypeOK'
  BY Zenon, <1>1 DEF Resolve, TypeOK, Rows
<1>3. SeenInv'
  <2> SUFFICES ASSUME NEW k \in Handlers
               PROVE  (/\ seenEvent[k] # "processed"
                       /\ seenEvent[k] = "pending" => handling[k] \in parked
                       /\ seenStatus[k] \in Statuses =>
                            /\ handling[k] \in Events
                            /\ Had(PaymentOf[handling[k]],
                                   Len(history[PaymentOf[handling[k]]]) + 1, seenStatus[k]))'
    BY Zenon DEF SeenInv
  <2>1. CASE k = h
    <3>1. Had(PaymentOf[handling[h]], Len(history[PaymentOf[handling[h]]]) + 1,
              status[PaymentOf[handling[h]]])
      BY Zenon, <1>1, CurrentWasHad
    <3>2. seenStatus'[h] \in Statuses => seenStatus'[h] = status[PaymentOf[handling[h]]]
      BY Zenon DEF Resolve, TypeOK, Statuses
    <3> QED
      BY Zenon, <1>1, <2>1, <3>1, <3>2 DEF Resolve, SeenInv, Had
  <2>2. CASE k # h
    BY Zenon, <2>2 DEF Resolve, TypeOK, SeenInv, Had
  <2> QED
    BY Zenon, <2>1, <2>2
<1> QED
  BY Zenon, <1>2, <1>3, QuietStep DEF Resolve, EventInv

(* The inductive invariant.                                                 *)
THEOREM PaymentInvariant == Spec => []PaymentInv
<1>1. Init => PaymentInv
  BY DEF Init, PaymentInv, TypeOK, SeenInv, EventInv, StatusIsLastTransition, NothingInvented,
     AppliedOnce, Statuses, Rows
<1>2. PaymentInv /\ [Next]_vars => PaymentInv'
  <2> SUFFICES ASSUME PaymentInv, [Next]_vars PROVE PaymentInv'
    OBVIOUS
  <2>1. ASSUME NEW p \in Payments, StorePayment(p) PROVE PaymentInv'
    <3>1. TypeOK' /\ SeenInv'
      BY Zenon, <2>1 DEF PaymentInv, StorePayment, requests, TypeOK, SeenInv, Had
    <3> QED
      BY Zenon, <2>1, <3>1, QuietStep DEF StorePayment, PaymentInv, EventInv
  <2>2. CASE UNCHANGED vars
    <3>1. TypeOK' /\ SeenInv'
      BY Zenon, <2>2 DEF PaymentInv, vars, requests, TypeOK, SeenInv, Had
    <3> QED
      BY Zenon, <2>2, <3>1, QuietStep DEF vars, PaymentInv, EventInv
  <2> QED
    BY Zenon, <2>1, <2>2, LookupStep, ResolveStep, OtherStep, ApplyStep DEF Next, Handle
<1> QED
  BY <1>1, <1>2, PTL DEF Spec

(* Rows, histories and requests keep their types.                           *)
THEOREM TypeCorrect == Spec => []TypeOK
  BY PaymentInvariant, PTL DEF PaymentInv

(* Row and history agree in every interleaving (inbound.py:187-242).        *)
THEOREM HistoryAgrees == Spec => []StatusIsLastTransition
  BY PaymentInvariant, PTL DEF PaymentInv

(* Transitions leave statuses that were real and enter allowed ones, even   *)
(* when the request's read is stale (state_machine.py:35).                  *)
THEOREM HistoryIsReal == Spec => []NothingInvented
  BY PaymentInvariant, PTL DEF PaymentInv

(* An event that never was parked is applied at most once (inbound.py:117). *)
THEOREM EventsApplyOnce == Spec => []AppliedOnce
  BY PaymentInvariant, PTL DEF PaymentInv

-----------------------------------------------------------------------------
(* Organisations, members and invitations.                                  *)

(* An organisation somebody belongs to.                                     *)
Staffed(users, o) == \E m \in Members : m[1] = o /\ users[m].status # "none"

(* A sign-up goes on in an organisation nobody belongs to yet, and an       *)
(* invitation is written in one that has a member.                          *)
OrgRequestOK(os, users, invites, links, r) ==
  \/ r.op = "tenant" /\ r.email \in Emails
  \/ /\ r.op = "owner" /\ r.who \in Members
     /\ r.who[1] \in os \ {Workspace} /\ ~Staffed(users, r.who[1])
  \/ r.op = "reset" /\ r.link \in DOMAIN links
  \/ /\ r.op = "invite" /\ r.who \in Members /\ r.role \in Roles
     /\ Staffed(users, r.who[1])
  \/ r.op \in {"revoke", "accept"} /\ r.invitation \in DOMAIN invites

Owns(r) == r # NoOrg /\ r.op = "owner"

OrgRequestInv ==
  /\ DOMAIN orgReq = OrgRequests
  /\ \A q \in OrgRequests : orgReq[q] # NoOrg => OrgRequestOK(orgs, user, invitation, link, orgReq[q])
  /\ \A p, q \in OrgRequests : p # q /\ Owns(orgReq[p]) /\ Owns(orgReq[q])
                               => orgReq[p].who[1] # orgReq[q].who[1]

(* Whoever is made by an invitation is present, and whoever is present has  *)
(* an organisation and a role.                                              *)
UserOK(m) ==
  /\ user[m].by \in DOMAIN invitation \cup {NoOrg}
  /\ ~Present(m) => user[m].by = NoOrg
  /\ Present(m) => m[1] \in orgs /\ <<m[1], user[m].role>> \in roleRows

UsersInv == user \in [Members -> User0] /\ \A m \in Members : UserOK(m)

InvitationOK(i) ==
  LET n == invitation[i] IN
    /\ n \in Invitation
    /\ Staffed(user, n.who[1]) /\ <<n.who[1], n.role>> \in roleRows
    /\ n.accepted_at <=> user[n.who].by = i
    /\ n.accepted_at => user[n.who].role = n.role

OneUnsettled ==
  \A i, j \in DOMAIN invitation :
    Pending(i) /\ Pending(j) /\ invitation[i].who = invitation[j].who => i = j

InvitesInv ==
  /\ DOMAIN invitation \subseteq Invitations
  /\ \A i \in DOMAIN invitation : InvitationOK(i)
  /\ OneUnsettled

LinksInv == \A k \in DOMAIN link : link[k] \in PasswordReset /\ Present(link[k].who)

OrgRowsInv == UsersInv /\ InvitesInv /\ LinksInv

OrgInv == OrgRowsInv /\ OrgRequestInv

(* Rows stay: members, invitations and links are never removed.             *)
Growing ==
  /\ orgs \subseteq orgs'
  /\ DOMAIN invitation \subseteq DOMAIN invitation' /\ DOMAIN link \subseteq DOMAIN link'
  /\ \A m \in Members : Present(m) => Present(m)'

(* New members are in the workspace or where there was one before.          *)
Sparing == \A m \in Members : Present(m)' => m[1] = Workspace \/ Staffed(user, m[1])

(* An organisation with a member keeps one.                                 *)
LEMMA StaffedGrows ==
  ASSUME Growing, NEW o, Staffed(user, o)
  PROVE  Staffed(user', o)
  BY Zenon DEF Growing, Staffed, Present

(* What a request in flight relies on survives steps that keep rows.        *)
LEMMA RequestGrows ==
  ASSUME Growing, NEW r, OrgRequestOK(orgs, user, invitation, link, r),
         r.op = "owner" => ~Staffed(user', r.who[1])
  PROVE  OrgRequestOK(orgs', user', invitation', link', r)
<1>1. CASE r.op = "tenant" /\ r.email \in Emails
  BY Zenon, <1>1 DEF OrgRequestOK
<1>2. CASE r.op = "owner" /\ r.who \in Members /\ r.who[1] \in orgs \ {Workspace}
  BY Zenon, <1>2 DEF OrgRequestOK, Growing
<1>3. CASE r.op = "reset" /\ r.link \in DOMAIN link
  BY Zenon, <1>3 DEF OrgRequestOK, Growing
<1>4. CASE r.op = "invite" /\ r.who \in Members /\ r.role \in Roles /\ Staffed(user, r.who[1])
  BY Zenon, <1>4, StaffedGrows DEF OrgRequestOK
<1>5. CASE r.op \in {"revoke", "accept"} /\ r.invitation \in DOMAIN invitation
  BY Zenon, <1>5 DEF OrgRequestOK, Growing
<1> QED
  BY Zenon, <1>1, <1>2, <1>3, <1>4, <1>5 DEF OrgRequestOK

(* An organisation whose owner is being written stays without members.      *)
LEMMA OwnerSpared ==
  ASSUME Sparing, NEW r, OrgRequestOK(orgs, user, invitation, link, r), r.op = "owner"
  PROVE  ~Staffed(user', r.who[1])
<1>1. r.who[1] # Workspace /\ ~Staffed(user, r.who[1])
  BY DEF OrgRequestOK
<1> QED
  BY Zenon, <1>1 DEF Sparing, Staffed, Present

(* The requests after a step in which one of them goes on, or none.         *)
LEMMA RequestsNext ==
  ASSUME OrgRequestInv, Growing, Sparing, NEW q \in OrgRequests, NEW x,
         orgReq' = [orgReq EXCEPT ![q] = x],
         x # NoOrg => OrgRequestOK(orgs', user', invitation', link', x),
         ~Owns(x)
  PROVE  OrgRequestInv'
<1>1. DOMAIN orgReq' = OrgRequests /\ orgReq'[q] = x
  BY Zenon DEF OrgRequestInv
<1>2. \A p \in OrgRequests : p # q => orgReq'[p] = orgReq[p]
  BY Zenon DEF OrgRequestInv
<1>3. ASSUME NEW p \in OrgRequests, orgReq'[p] # NoOrg
      PROVE  OrgRequestOK(orgs', user', invitation', link', orgReq'[p])
  <2>1. CASE p = q
    BY Zenon, <1>1, <1>3, <2>1
  <2>2. CASE p # q
    <3>1. orgReq[p] # NoOrg /\ orgReq'[p] = orgReq[p]
      BY Zenon, <1>2, <1>3, <2>2
    <3>2. OrgRequestOK(orgs, user, invitation, link, orgReq[p])
      BY Zenon, <3>1 DEF OrgRequestInv
    <3> QED
      BY Zenon, <3>1, <3>2, RequestGrows, OwnerSpared
  <2> QED
    BY Zenon, <2>1, <2>2
<1>4. ASSUME NEW p \in OrgRequests, Owns(orgReq'[p])
      PROVE  p # q /\ orgReq'[p] = orgReq[p]
  BY Zenon, <1>1, <1>2, <1>4
<1>5. \A o, p \in OrgRequests : o # p /\ Owns(orgReq'[o]) /\ Owns(orgReq'[p])
                               => orgReq'[o].who[1] # orgReq'[p].who[1]
  <2> SUFFICES ASSUME NEW o \in OrgRequests, NEW p \in OrgRequests,
                      o # p, Owns(orgReq'[o]), Owns(orgReq'[p])
               PROVE  orgReq'[o].who[1] # orgReq'[p].who[1]
    BY Zenon
  <2>1. orgReq'[o] = orgReq[o] /\ orgReq'[p] = orgReq[p]
    BY Zenon, <1>4
  <2>2. orgReq[o].who[1] # orgReq[p].who[1]
    BY Zenon, <2>1 DEF OrgRequestInv
  <2> QED
    BY Zenon, <2>1, <2>2
<1> QED
  BY Zenon, <1>1, <1>3, <1>5 DEF OrgRequestInv

(* No request goes on and the rows only grow.                               *)
LEMMA RequestsWait ==
  ASSUME OrgRequestInv, Growing, Sparing, orgReq' = orgReq
  PROVE  OrgRequestInv'
<1>1. ASSUME NEW p \in OrgRequests, orgReq[p] # NoOrg
      PROVE  OrgRequestOK(orgs', user', invitation', link', orgReq[p])
  BY Zenon, <1>1, RequestGrows, OwnerSpared DEF OrgRequestInv
<1> QED
  BY Zenon, <1>1 DEF OrgRequestInv

(* A step of one request that writes no row.                                *)
LEMMA StepOfRequest ==
  ASSUME OrgInv, NEW q \in OrgRequests, NEW x, Continue(q, x),
         UNCHANGED <<orgs, roleRows, user, team, invitation, link>>,
         x # NoOrg => OrgRequestOK(orgs, user, invitation, link, x), ~Owns(x)
  PROVE  OrgInv'
<1>1. Growing /\ Sparing
  BY Zenon DEF Growing, Sparing, Present, Staffed
<1>2. OrgRequestInv'
  BY Zenon, <1>1, RequestsNext DEF OrgInv, Continue
<1>3. OrgRowsInv'
  BY Zenon DEF OrgInv, OrgRowsInv, UsersInv, UserOK, InvitesInv, InvitationOK, OneUnsettled,
     LinksInv, Pending, Present, Staffed
<1> QED
  BY Zenon, <1>2, <1>3 DEF OrgInv

-----------------------------------------------------------------------------
(* What a step may do to a member: nothing; keep role and inviter; or make  *)
(* a member that nobody invited.                                            *)
Keeps(m) ==
  \/ user'[m] = user[m]
  \/ /\ Present(m) /\ Present(m)'
     /\ user'[m].by = user[m].by /\ user'[m].role = user[m].role
  \/ /\ ~Present(m) /\ Present(m)' /\ user'[m].by = NoOrg
     /\ m[1] \in orgs' /\ <<m[1], user'[m].role>> \in roleRows'

(* A step that does to every member one of these keeps the user rows.       *)
LEMMA UsersChange ==
  ASSUME OrgRowsInv, orgs \subseteq orgs', roleRows \subseteq roleRows',
         user' \in [Members -> User0], \A m \in Members : Keeps(m),
         invitation' = invitation
  PROVE  /\ UsersInv' /\ InvitesInv'
         /\ \A m \in Members : Present(m) => Present(m)'
<1>1. ASSUME NEW m \in Members
      PROVE  /\ Present(m) => Present(m)'
             /\ UserOK(m)'
             /\ user[m].by # NoOrg => user'[m].by = user[m].by /\ user'[m].role = user[m].role
             /\ user'[m].by # NoOrg => user'[m].by = user[m].by
  <2>1. UserOK(m) /\ Keeps(m)
    BY Zenon DEF OrgRowsInv, UsersInv
  <2>2. CASE user'[m] = user[m]
    BY Zenon, <2>1, <2>2 DEF UserOK, Present
  <2>3. CASE /\ Present(m) /\ Present(m)'
             /\ user'[m].by = user[m].by /\ user'[m].role = user[m].role
    BY Zenon, <2>1, <2>3 DEF UserOK
  <2>4. CASE /\ ~Present(m) /\ Present(m)' /\ user'[m].by = NoOrg
             /\ m[1] \in orgs' /\ <<m[1], user'[m].role>> \in roleRows'
    BY Zenon, <2>1, <2>4 DEF UserOK
  <2> QED
    BY Zenon, <2>1, <2>2, <2>3, <2>4 DEF Keeps
<1>2. UsersInv'
  BY Zenon, <1>1 DEF UsersInv
<1>3. ASSUME NEW i \in DOMAIN invitation
      PROVE  InvitationOK(i)'
  <2> DEFINE n == invitation[i]
  <2>1. /\ InvitationOK(i) /\ i \in Invitations /\ i # NoOrg
    BY Zenon, OrgAssumption DEF OrgRowsInv, InvitesInv
  <2>2. n \in Invitation /\ Staffed(user, n.who[1]) /\ <<n.who[1], n.role>> \in roleRows
        /\ (n.accepted_at <=> user[n.who].by = i) /\ (n.accepted_at => user[n.who].role = n.role)
    BY Zenon, <2>1 DEF InvitationOK
  <2>3. n.who \in Members
    BY <2>2 DEF Invitation
  <2>4. Staffed(user', n.who[1])
    BY Zenon, <1>1, <2>2 DEF Staffed, Present
  <2>5. n.accepted_at <=> user'[n.who].by = i
    BY Zenon, <1>1, <2>1, <2>2, <2>3
  <2>6. n.accepted_at => user'[n.who].role = n.role
    BY Zenon, <1>1, <2>1, <2>2, <2>3
  <2> HIDE DEF n
  <2>7. invitation'[i] = n
    BY Zenon DEF n
  <2> QED
    BY Zenon, <2>2, <2>4, <2>5, <2>6, <2>7 DEF InvitationOK
<1>4. InvitesInv'
  BY Zenon, <1>3 DEF OrgRowsInv, InvitesInv, OneUnsettled, Pending
<1> QED
  BY Zenon, <1>1, <1>2, <1>4

(* What a step may do to the links: use one, or send one to a member.       *)
LEMMA LinksChange ==
  ASSUME LinksInv, \A m \in Members : Present(m) => Present(m)',
         \A k \in DOMAIN link' :
           /\ link'[k] \in PasswordReset
           /\ \/ k \in DOMAIN link /\ link'[k].who = link[k].who
              \/ Present(link'[k].who)
  PROVE  LinksInv'
<1>1. ASSUME NEW k \in DOMAIN link'
      PROVE  link'[k] \in PasswordReset /\ user'[link'[k].who].status # "none"
  <2>1. link'[k] \in PasswordReset /\ Present(link'[k].who)
    BY Zenon DEF LinksInv
  <2>2. link'[k].who \in Members
    BY <2>1 DEF PasswordReset
  <2> QED
    BY Zenon, <2>1, <2>2 DEF Present
<1> QED
  BY Zenon, <1>1 DEF LinksInv, Present

(* What a step may do to an invitation: settle it, or let it expire.        *)
LEMMA InvitationsChange ==
  ASSUME OrgRowsInv, UNCHANGED <<orgs, roleRows, user, link>>,
         DOMAIN invitation' = DOMAIN invitation,
         \A i \in DOMAIN invitation :
           /\ invitation'[i] \in Invitation
           /\ invitation'[i].who = invitation[i].who /\ invitation'[i].role = invitation[i].role
           /\ invitation'[i].accepted_at = invitation[i].accepted_at
           /\ Pending(i)' => Pending(i)
  PROVE  OrgRowsInv'
<1>1. UsersInv' /\ LinksInv'
  BY Zenon DEF OrgRowsInv, UsersInv, UserOK, LinksInv, Present
<1>2. ASSUME NEW i \in DOMAIN invitation
      PROVE  InvitationOK(i)'
  <2>1. InvitationOK(i)
    BY Zenon DEF OrgRowsInv, InvitesInv
  <2> QED
    BY Zenon, <2>1 DEF InvitationOK
<1>3. OneUnsettled'
  BY Zenon DEF OneUnsettled, OrgRowsInv, InvitesInv
<1> QED
  BY Zenon, <1>1, <1>2, <1>3 DEF OrgRowsInv, InvitesInv

(* Only the workspace exists.                                               *)
LEMMA OrgInit_Inv == OrgInit => OrgInv
<1> SUFFICES ASSUME OrgInit PROVE OrgInv
  OBVIOUS
<1>1. DOMAIN invitation = {} /\ DOMAIN link = {}
  BY DEF OrgInit
<1>2. user \in [Members -> User0]
  BY DEF OrgInit, User0, Roles
<1>3. ASSUME NEW m \in Members PROVE UserOK(m)
  BY DEF OrgInit, UserOK, Present
<1>4. OrgRequestInv
  BY Zenon DEF OrgInit, OrgRequestInv, Owns
<1> QED
  BY Zenon, <1>1, <1>2, <1>3, <1>4 DEF OrgInv, OrgRowsInv, UsersInv, InvitesInv, OneUnsettled, LinksInv

-----------------------------------------------------------------------------
(* The steps that write members.                                            *)
LEMMA ActivateStep ==
  ASSUME OrgInv, NEW m \in Members, Present(m), user' = [user EXCEPT ![m].status = "active"],
         UNCHANGED <<orgs, roleRows, team, invitation>>
  PROVE  /\ user' \in [Members -> User0] /\ Sparing
         /\ \A n \in Members : Keeps(n)
         /\ \A n \in Members : Present(n) => Present(n)'
<1>1. user \in [Members -> User0]
  BY Zenon DEF OrgInv, OrgRowsInv, UsersInv
<1>2. user' \in [Members -> User0]
  BY <1>1 DEF User0
<1>3. ASSUME NEW n \in Members, n # m PROVE user'[n] = user[n]
  BY Zenon, <1>1, <1>3
<1>4. user'[m].status = "active" /\ user'[m].by = user[m].by /\ user'[m].role = user[m].role
  BY <1>1 DEF User0
<1>5. Present(m)'
  BY <1>4 DEF Present
<1>6. Sparing
  BY Zenon, <1>3 DEF Sparing, Staffed, Present
<1> QED
  BY Zenon, <1>2, <1>3, <1>4, <1>5, <1>6 DEF Keeps, Present

(* verify_email.                                                            *)
LEMMA VerifyStep ==
  ASSUME OrgInv, NEW m \in Members, verify_email(m)
  PROVE  OrgInv'
<1>1. Present(m)
  BY DEF verify_email, Present
<1>2. /\ user' \in [Members -> User0] /\ Sparing
      /\ \A n \in Members : Keeps(n)
      /\ \A n \in Members : Present(n) => Present(n)'
  BY Zenon, <1>1, ActivateStep DEF verify_email
<1>3. UNCHANGED <<orgs, roleRows, invitation, link, orgReq>>
  BY Zenon DEF verify_email
<1>4. UsersInv' /\ InvitesInv'
  BY Zenon, <1>2, <1>3, UsersChange DEF OrgInv
<1>5. LinksInv'
  BY Zenon, <1>2, <1>3, LinksChange DEF OrgInv, OrgRowsInv, LinksInv
<1>6. Growing
  BY Zenon, <1>2, <1>3 DEF Growing
<1> QED
  BY Zenon, <1>2, <1>3, <1>4, <1>5, <1>6, RequestsWait DEF OrgInv, OrgRowsInv

(* reset_password marks the link used and sets the password.                *)
LEMMA ResetStep ==
  ASSUME OrgInv, NEW q \in OrgRequests, reset_password_link(q)
  PROVE  OrgInv'
<1> DEFINE k == orgReq[q].link
<1>1. /\ orgReq[q] # NoOrg /\ orgReq[q].op = "reset" /\ orgReq' = [orgReq EXCEPT ![q] = NoOrg]
      /\ link' = [link EXCEPT ![k].used_at = TRUE]
      /\ user' = [user EXCEPT ![link[k].who].status = "active"]
      /\ UNCHANGED <<orgs, roleRows, team, invitation>>
  BY Zenon DEF reset_password_link, Doing, Continue
<1>2. OrgRequestOK(orgs, user, invitation, link, orgReq[q])
  BY Zenon, <1>1 DEF OrgInv, OrgRequestInv
<1>3. k \in DOMAIN link
  BY <1>1, <1>2 DEF OrgRequestOK
<1> HIDE DEF k
<1>4. link[k] \in PasswordReset /\ Present(link[k].who)
  BY Zenon, <1>3 DEF OrgInv, OrgRowsInv, LinksInv
<1>5. link[k].who \in Members
  BY <1>4 DEF PasswordReset
<1>6. /\ user' \in [Members -> User0] /\ Sparing
      /\ \A n \in Members : Keeps(n)
      /\ \A n \in Members : Present(n) => Present(n)'
  BY Zenon, <1>1, <1>4, <1>5, ActivateStep
<1>7. UsersInv' /\ InvitesInv'
  BY Zenon, <1>1, <1>6, UsersChange DEF OrgInv
<1>8. DOMAIN link' = DOMAIN link
  BY Zenon, <1>1
<1>9. ASSUME NEW j \in DOMAIN link
      PROVE  link'[j] \in PasswordReset /\ link'[j].who = link[j].who
  <2>1. link[j] \in PasswordReset
    BY Zenon DEF OrgInv, OrgRowsInv, LinksInv
  <2>2. CASE j # k
    BY Zenon, <1>1, <2>1, <2>2
  <2>3. CASE j = k
    <3>1. link'[k] = [link[k] EXCEPT !.used_at = TRUE]
      BY Zenon, <1>1, <1>3
    <3> QED
      BY Zenon, <3>1, <2>1, <2>3 DEF PasswordReset
  <2> QED
    BY Zenon, <2>2, <2>3
<1>10. LinksInv'
  BY Zenon, <1>6, <1>8, <1>9, LinksChange DEF OrgInv, OrgRowsInv
<1>11. Growing
  BY Zenon, <1>1, <1>6, <1>8 DEF Growing
<1>12. OrgRequestInv'
  BY Zenon, <1>1, <1>6, <1>11, RequestsNext DEF OrgInv, Owns
<1> QED
  BY Zenon, <1>7, <1>10, <1>12 DEF OrgInv, OrgRowsInv

(* forgot_password sends a link to a member.                                *)
LEMMA ForgotStep ==
  ASSUME OrgInv, NEW m \in Members, NEW k, forgot_password(m, k)
  PROVE  OrgInv'
<1>1. /\ Present(m) /\ DOMAIN link' = DOMAIN link \cup {k}
      /\ UNCHANGED <<orgs, roleRows, user, team, invitation, orgReq>>
  BY Zenon DEF forgot_password
<1>2. ASSUME NEW j \in DOMAIN link'
      PROVE  \/ j \in DOMAIN link /\ link'[j] = link[j]
             \/ link'[j] = [who |-> m, used_at |-> FALSE]
  BY Zenon, <1>1 DEF forgot_password
<1>3. ASSUME NEW j \in DOMAIN link'
      PROVE  /\ link'[j] \in PasswordReset
             /\ (j \in DOMAIN link /\ link'[j].who = link[j].who) \/ Present(link'[j].who)
  <2>1. CASE j \in DOMAIN link /\ link'[j] = link[j]
    BY Zenon, <2>1 DEF OrgInv, OrgRowsInv, LinksInv
  <2>2. CASE link'[j] = [who |-> m, used_at |-> FALSE]
    BY <1>1, <2>2 DEF PasswordReset
  <2> QED
    BY Zenon, <1>2, <2>1, <2>2
<1>4. \A n \in Members : Present(n) => Present(n)'
  BY Zenon, <1>1 DEF Present
<1>5. LinksInv'
  BY Zenon, <1>3, <1>4, LinksChange DEF OrgInv, OrgRowsInv
<1>6. UsersInv' /\ InvitesInv'
  BY Zenon, <1>1 DEF OrgInv, OrgRowsInv, UsersInv, UserOK, InvitesInv, InvitationOK, OneUnsettled,
     Pending, Present, Staffed
<1>7. Growing /\ Sparing
  BY Zenon, <1>1, <1>4 DEF Growing, Sparing, Present, Staffed
<1> QED
  BY Zenon, <1>1, <1>5, <1>6, <1>7, RequestsWait DEF OrgInv, OrgRowsInv

(* The organisation of a new owner is one nobody belongs to.                *)
LEMMA TenantStep ==
  ASSUME OrgInv, NEW q \in OrgRequests, NEW o \in Orgs, InsertTenant(q, o)
  PROVE  OrgInv'
<1> DEFINE x == [op |-> "owner", who |-> <<o, orgReq[q].email>>]
<1>1. /\ orgReq[q] # NoOrg /\ orgReq[q].op = "tenant" /\ orgReq' = [orgReq EXCEPT ![q] = x]
      /\ o \notin orgs /\ o # Workspace /\ orgs' = orgs \cup {o}
      /\ UNCHANGED <<roleRows, user, team, invitation, link>>
  BY Zenon DEF InsertTenant, Doing, Continue
<1>2. OrgRequestOK(orgs, user, invitation, link, orgReq[q])
  BY Zenon, <1>1 DEF OrgInv, OrgRequestInv
<1>3. orgReq[q].email \in Emails
  BY <1>1, <1>2 DEF OrgRequestOK
<1>4. x.op = "owner" /\ x.who \in Members /\ x.who[1] = o
  BY <1>3 DEF Members
<1> HIDE DEF x
<1>5. ~Staffed(user, o)
  BY Zenon, <1>1 DEF OrgInv, OrgRowsInv, UsersInv, UserOK, Staffed, Present
<1>6. Growing /\ Sparing
  BY Zenon, <1>1 DEF Growing, Sparing, Present, Staffed
<1>7. OrgRowsInv'
  BY ZenonT(40), <1>1 DEF OrgInv, OrgRowsInv, UsersInv, UserOK, InvitesInv, InvitationOK, OneUnsettled,
     LinksInv, Pending, Present, Staffed
<1>8. DOMAIN orgReq' = OrgRequests /\ orgReq'[q] = x
      /\ \A p \in OrgRequests : p # q => orgReq'[p] = orgReq[p]
  BY Zenon, <1>1 DEF OrgInv, OrgRequestInv
<1>9. OrgRequestOK(orgs', user', invitation', link', x)
  BY Zenon, <1>1, <1>4, <1>5 DEF OrgRequestOK
<1>10. ASSUME NEW p \in OrgRequests, p # q, orgReq[p] # NoOrg
       PROVE  /\ OrgRequestOK(orgs', user', invitation', link', orgReq[p])
              /\ orgReq[p].op = "owner" => orgReq[p].who[1] # o
  <2>1. OrgRequestOK(orgs, user, invitation, link, orgReq[p])
    BY Zenon, <1>10 DEF OrgInv, OrgRequestInv
  <2>2. orgReq[p].op = "owner" => orgReq[p].who[1] \in orgs
    BY <2>1 DEF OrgRequestOK
  <2> QED
    BY Zenon, <1>1, <1>6, <2>1, <2>2, RequestGrows, OwnerSpared
<1>11. ASSUME NEW p \in OrgRequests, orgReq'[p] # NoOrg
       PROVE  OrgRequestOK(orgs', user', invitation', link', orgReq'[p])
  BY Zenon, <1>8, <1>9, <1>10, <1>11
<1>12. ASSUME NEW p \in OrgRequests, NEW r \in OrgRequests, p # r,
              Owns(orgReq'[p]), Owns(orgReq'[r])
       PROVE  orgReq'[p].who[1] # orgReq'[r].who[1]
  <2>1. CASE p = q
    BY Zenon, <1>4, <1>8, <1>10, <1>12, <2>1 DEF Owns
  <2>2. CASE r = q
    BY Zenon, <1>4, <1>8, <1>10, <1>12, <2>2 DEF Owns
  <2>3. CASE p # q /\ r # q
    BY Zenon, <1>8, <1>12, <2>3 DEF OrgInv, OrgRequestInv
  <2> QED
    BY Zenon, <2>1, <2>2, <2>3
<1>13. OrgRequestInv'
  BY Zenon, <1>8, <1>11, <1>12 DEF OrgRequestInv
<1> QED
  BY Zenon, <1>7, <1>13 DEF OrgInv

(* signup writes the owner of the organisation it made.                     *)
LEMMA SignupStep ==
  ASSUME OrgInv, NEW q \in OrgRequests, signup(q)
  PROVE  OrgInv'
<1>1. orgReq[q] # NoOrg /\ orgReq[q].op = "owner" /\ orgReq' = [orgReq EXCEPT ![q] = NoOrg]
  BY Zenon DEF signup, Doing, Continue
<1>2. OrgRequestOK(orgs, user, invitation, link, orgReq[q])
  BY Zenon, <1>1 DEF OrgInv, OrgRequestInv
<1>3. PICK w \in Members : w = orgReq[q].who /\ w[1] \in orgs /\ ~Staffed(user, w[1])
  BY <1>1, <1>2 DEF OrgRequestOK
<1>4. \A p \in OrgRequests : p # q /\ Owns(orgReq[p]) => orgReq[p].who[1] # w[1]
  BY Zenon, <1>1, <1>3 DEF OrgInv, OrgRequestInv, Owns
<1>5. /\ roleRows' = roleRows \cup {<<w[1], "owner">>}
      /\ user' = [user EXCEPT ![w] = [@ EXCEPT !.status = "invited", !.role = "owner"]]
      /\ UNCHANGED <<orgs, team, invitation, link>>
  BY Zenon, <1>3 DEF signup
<1>6. user \in [Members -> User0] /\ UserOK(w) /\ ~Present(w)
  BY Zenon, <1>3 DEF OrgInv, OrgRowsInv, UsersInv, Staffed, Present
<1>7. user'[w] = [user[w] EXCEPT !.status = "invited", !.role = "owner"]
      /\ \A m \in Members : m # w => user'[m] = user[m]
  BY Zenon, <1>5, <1>3, <1>6
<1>8. user[w] \in User0
  BY Zenon, <1>3, <1>6
<1>9. user'[w] \in User0 /\ user'[w].status = "invited" /\ user'[w].role = "owner"
      /\ user'[w].by = user[w].by
  BY Zenon, <1>7, <1>8 DEF User0, Roles
<1>10. user' \in [Members -> User0]
  BY Zenon, <1>5, <1>3, <1>6, <1>7, <1>9
<1>11. Keeps(w)
  <2>1. user'[w].by = NoOrg
    BY Zenon, <1>6, <1>9 DEF UserOK
  <2>2. Present(w)'
    BY <1>9 DEF Present
  <2>3. <<w[1], user'[w].role>> \in roleRows'
    BY <1>5, <1>9
  <2> QED
    BY Zenon, <1>5, <1>3, <1>6, <2>1, <2>2, <2>3 DEF Keeps
<1>12. \A m \in Members : Keeps(m)
  BY Zenon, <1>7, <1>11 DEF Keeps
<1>13. UsersInv' /\ InvitesInv' /\ \A m \in Members : Present(m) => Present(m)'
  BY Zenon, <1>5, <1>10, <1>12, UsersChange DEF OrgInv
<1>14. LinksInv'
  BY Zenon, <1>5, <1>13, LinksChange DEF OrgInv, OrgRowsInv, LinksInv
<1>15. Growing
  BY Zenon, <1>5, <1>13 DEF Growing
<1>16. DOMAIN orgReq' = OrgRequests /\ orgReq'[q] = NoOrg
       /\ \A p \in OrgRequests : p # q => orgReq'[p] = orgReq[p]
  BY Zenon, <1>1 DEF OrgInv, OrgRequestInv
<1>17. ASSUME NEW p \in OrgRequests, p # q, orgReq[p] # NoOrg
       PROVE  OrgRequestOK(orgs', user', invitation', link', orgReq[p])
  <2>1. OrgRequestOK(orgs, user, invitation, link, orgReq[p])
    BY Zenon, <1>17 DEF OrgInv, OrgRequestInv
  <2>2. ASSUME orgReq[p].op = "owner" PROVE ~Staffed(user', orgReq[p].who[1])
    <3>1. orgReq[p].who[1] # w[1] /\ ~Staffed(user, orgReq[p].who[1])
      BY Zenon, <1>4, <1>17, <2>1, <2>2 DEF Owns, OrgRequestOK
    <3> QED
      BY Zenon, <1>7, <3>1 DEF Staffed
  <2> QED
    BY Zenon, <1>15, <2>1, <2>2, RequestGrows
<1>18. OrgRequestInv'
  <2>1. ASSUME NEW p \in OrgRequests, orgReq'[p] # NoOrg
        PROVE  OrgRequestOK(orgs', user', invitation', link', orgReq'[p])
    BY Zenon, <1>16, <1>17, <2>1
  <2>2. ASSUME NEW p \in OrgRequests, NEW r \in OrgRequests, p # r,
               Owns(orgReq'[p]), Owns(orgReq'[r])
        PROVE  orgReq'[p].who[1] # orgReq'[r].who[1]
    BY ZenonT(40), <1>16, <2>2 DEF OrgInv, OrgRequestInv, Owns
  <2> QED
    BY Zenon, <1>16, <2>1, <2>2 DEF OrgRequestInv
<1> QED
  BY Zenon, <1>13, <1>14, <1>18 DEF OrgInv, OrgRowsInv

(* A first sign-in through single sign-on makes a member of the workspace.  *)
LEMMA ProvisionStep ==
  ASSUME OrgInv, provision_workspace
  PROVE  OrgInv'
<1>1. /\ orgs' = orgs \cup {Workspace} /\ UNCHANGED <<invitation, link, orgReq>>
      /\ roleRows' = roleRows \cup {ensure_role(e) : e \in Staff}
      /\ user' = ensure_people
  BY Zenon DEF provision_workspace, ensure_tenant
<1>2. user \in [Members -> User0]
  BY Zenon DEF OrgInv, OrgRowsInv, UsersInv
<1>3. ASSUME NEW m \in Members
      PROVE  user'[m] = user[m] \/
             /\ m[1] = Workspace /\ m[2] \in Staff /\ ~Present(m)
             /\ user'[m] = [status |-> "active", role |-> StaffRole(m[2]), by |-> NoOrg]
  BY Zenon, <1>1 DEF ensure_people
<1>4. ASSUME NEW m \in Members, m[2] \in Staff, ~Present(m), m[1] = Workspace,
             user'[m] = [status |-> "active", role |-> StaffRole(m[2]), by |-> NoOrg]
      PROVE  user'[m] \in User0 /\ Keeps(m)
  <2>1. StaffRole(m[2]) \in Roles
    BY DEF StaffRole, Roles
  <2>2. user'[m] \in User0 /\ user'[m].status = "active" /\ user'[m].role = StaffRole(m[2])
        /\ user'[m].by = NoOrg
    BY <1>4, <2>1 DEF User0
  <2>3. Present(m)'
    BY <2>2 DEF Present
  <2>4. <<m[1], user'[m].role>> \in roleRows'
    BY Zenon, <1>1, <1>4, <2>2 DEF ensure_role
  <2> QED
    BY Zenon, <1>1, <1>4, <2>2, <2>3, <2>4 DEF Keeps
<1>5. \A m \in Members : user'[m] \in User0 /\ Keeps(m)
  BY Zenon, <1>2, <1>3, <1>4 DEF Keeps
<1>6. user' \in [Members -> User0]
  BY Zenon, <1>1, <1>5 DEF ensure_people
<1>7. UsersInv' /\ InvitesInv' /\ \A m \in Members : Present(m) => Present(m)'
  BY Zenon, <1>1, <1>5, <1>6, UsersChange DEF OrgInv
<1>8. LinksInv'
  BY Zenon, <1>1, <1>7, LinksChange DEF OrgInv, OrgRowsInv, LinksInv
<1>9. Growing /\ Sparing
  BY Zenon, <1>1, <1>3, <1>7 DEF Growing, Sparing, Staffed, Present
<1> QED
  BY Zenon, <1>1, <1>7, <1>8, <1>9, RequestsWait DEF OrgInv, OrgRowsInv

(* accept_invitation: the member and the settlement, at once.               *)
LEMMA AcceptRows ==
  ASSUME OrgRowsInv, NEW i \in DOMAIN invitation, NEW m, m = invitation[i].who, ~Present(m),
         user' = [user EXCEPT ![m] = [status |-> "active", role |-> invitation[i].role, by |-> i]],
         invitation' = [invitation EXCEPT ![i].accepted_at = TRUE],
         UNCHANGED <<orgs, roleRows, team, link>>
  PROVE  /\ OrgRowsInv' /\ Sparing
         /\ \A n \in Members : Present(n) => Present(n)'
         /\ DOMAIN invitation' = DOMAIN invitation
<1> DEFINE role == invitation[i].role
<1>1. /\ InvitationOK(i) /\ i \in Invitations /\ i # NoOrg
      /\ user \in [Members -> User0] /\ \A n \in Members : UserOK(n)
  BY Zenon, OrgAssumption DEF OrgRowsInv, InvitesInv, UsersInv
<1>2. /\ invitation[i] \in Invitation /\ Staffed(user, m[1]) /\ <<m[1], role>> \in roleRows
  BY Zenon, <1>1 DEF InvitationOK
<1>3. m \in Members /\ role \in Roles
  BY <1>2 DEF Invitation
<1>4. user[m].by = NoOrg
  BY Zenon, <1>1, <1>3 DEF UserOK
<1>5. user'[m] = [status |-> "active", role |-> role, by |-> i]
      /\ \A n \in Members : n # m => user'[n] = user[n]
  BY Zenon, <1>1, <1>3
<1> HIDE DEF role
<1>6. user'[m] \in User0 /\ user'[m].status = "active" /\ user'[m].role = role /\ user'[m].by = i
  BY <1>1, <1>3, <1>5 DEF User0
<1>7. user' \in [Members -> User0]
  BY Zenon, <1>1, <1>3, <1>5, <1>6
<1>8. Present(m)' /\ \A n \in Members : Present(n) => Present(n)'
  BY <1>5, <1>6 DEF Present
<1>9. m[1] \in orgs
  BY Zenon, <1>1, <1>2 DEF Staffed, UserOK, Present
<1>10. DOMAIN invitation' = DOMAIN invitation
       /\ invitation'[i] = [invitation[i] EXCEPT !.accepted_at = TRUE]
       /\ \A j \in DOMAIN invitation : j # i => invitation'[j] = invitation[j]
  BY Zenon
<1>11. invitation'[i] \in Invitation /\ invitation'[i].who = m /\ invitation'[i].role = role
       /\ invitation'[i].accepted_at /\ roleRows' = roleRows
  BY Zenon, <1>2, <1>10 DEF Invitation, role
<1>12. ASSUME NEW n \in Members PROVE UserOK(n)'
  <2>1. CASE n = m
    <3>1. <<m[1], user'[m].role>> \in roleRows'
      BY <1>2, <1>6
    <3> QED
      BY Zenon, <1>6, <1>8, <1>9, <1>10, <2>1, <3>1 DEF UserOK
  <2>2. CASE n # m
    BY Zenon, <1>1, <1>5, <1>10, <2>2 DEF UserOK, Present
  <2> QED
    BY Zenon, <2>1, <2>2
<1>13. UsersInv'
  BY Zenon, <1>7, <1>12 DEF UsersInv
<1>14. ASSUME NEW j \in DOMAIN invitation PROVE InvitationOK(j)'
  <2>1. InvitationOK(j) /\ j \in Invitations /\ j # NoOrg
    BY Zenon, OrgAssumption DEF OrgRowsInv, InvitesInv
  <2>2. \A o : Staffed(user, o) => Staffed(user', o)
    BY Zenon, <1>8 DEF Staffed, Present
  <2>3. CASE j = i
    BY Zenon, <1>2, <1>6, <1>11, <2>2, <2>3 DEF InvitationOK
  <2>4. CASE j # i
    <3>1. invitation'[j] = invitation[j] /\ invitation[j] \in Invitation
          /\ Staffed(user, invitation[j].who[1])
          /\ <<invitation[j].who[1], invitation[j].role>> \in roleRows
      BY Zenon, <1>10, <2>1, <2>4 DEF InvitationOK
    <3>2. invitation[j].who \in Members
      BY <3>1 DEF Invitation
    <3>3. CASE invitation[j].who = m
      <4>1. ~invitation[j].accepted_at /\ user'[m].by # j
        BY Zenon, <1>4, <1>6, <2>1, <2>4, <3>3 DEF InvitationOK
      <4> QED
        BY Zenon, <1>11, <2>2, <3>1, <3>3, <4>1 DEF InvitationOK
    <3>4. CASE invitation[j].who # m
      <4>1. user'[invitation[j].who] = user[invitation[j].who]
        BY Zenon, <1>5, <3>2, <3>4
      <4> QED
        BY Zenon, <1>11, <2>1, <2>2, <3>1, <4>1 DEF InvitationOK
    <3> QED
      BY Zenon, <3>3, <3>4
  <2> QED
    BY Zenon, <2>3, <2>4
<1>15. \A j \in DOMAIN invitation : Pending(j)' => Pending(j) /\ j # i
  BY Zenon, <1>10, <1>11 DEF Pending
<1>16. OneUnsettled'
  BY Zenon, <1>10, <1>15 DEF OneUnsettled, OrgRowsInv, InvitesInv
<1>17. LinksInv'
  BY Zenon, <1>8, LinksChange DEF OrgRowsInv, LinksInv
<1>18. Sparing
  BY Zenon, <1>2, <1>5 DEF Sparing, Staffed, Present
<1> QED
  BY Zenon, <1>8, <1>10, <1>13, <1>14, <1>16, <1>17, <1>18 DEF OrgRowsInv, InvitesInv

(* The requests once an invitation is accepted.                             *)
LEMMA AcceptStep ==
  ASSUME OrgInv, NEW q \in OrgRequests, accept_invitation(q)
  PROVE  OrgInv'
<1>1. /\ orgReq[q] # NoOrg /\ orgReq[q].op = "accept"
      /\ UNCHANGED <<orgs, roleRows, team, link>> /\ Continue(q, NoOrg)
  BY Zenon DEF accept_invitation, Doing
<1>2. OrgRequestOK(orgs, user, invitation, link, orgReq[q])
  BY Zenon, <1>1 DEF OrgInv, OrgRequestInv
<1>3. orgReq[q].invitation \in DOMAIN invitation
  BY <1>1, <1>2 DEF OrgRequestOK
<1>4. PICK i \in DOMAIN invitation : i = orgReq[q].invitation
  BY Zenon, <1>3
<1>5. PICK m : m = invitation[i].who
  BY Zenon
<1>6. \/ /\ ~Present(m)
         /\ user' = [user EXCEPT ![m] = [status |-> "active", role |-> invitation[i].role, by |-> i]]
         /\ invitation' = [invitation EXCEPT ![i].accepted_at = TRUE]
      \/ UNCHANGED <<user, invitation>>
  BY Zenon, <1>4, <1>5 DEF accept_invitation, tenant_email_active
<1>7. CASE UNCHANGED <<user, invitation>>
  BY Zenon, <1>1, <1>7, StepOfRequest DEF Owns
<1>8. CASE /\ ~Present(m)
           /\ user' = [user EXCEPT ![m] = [status |-> "active", role |-> invitation[i].role, by |-> i]]
           /\ invitation' = [invitation EXCEPT ![i].accepted_at = TRUE]
  <2>1. /\ OrgRowsInv' /\ Sparing
        /\ \A n \in Members : Present(n) => Present(n)'
        /\ DOMAIN invitation' = DOMAIN invitation
    BY Zenon, <1>1, <1>5, <1>8, AcceptRows DEF OrgInv
  <2>2. Growing
    BY Zenon, <1>1, <2>1 DEF Growing
  <2> QED
    BY Zenon, <1>1, <2>1, <2>2, RequestsNext DEF OrgInv, Owns, Continue
<1> QED
  BY Zenon, <1>6, <1>7, <1>8

(* invite_user: the unique index lets the insert pass only when everything  *)
(* unsettled for the address is retired with it.                            *)
LEMMA InviteRows ==
  ASSUME OrgRowsInv, NEW i \in Invitations, i \notin DOMAIN invitation,
         NEW r, r.who \in Members, r.role \in Roles, Staffed(user, r.who[1]),
         Unsettled(r.who) \subseteq r.old,
         invitation' =
           [j \in DOMAIN invitation \cup {i} |->
              IF j = i THEN [who |-> r.who, role |-> r.role, accepted_at |-> FALSE,
                             revoked_at |-> FALSE, expired |-> FALSE]
              ELSE IF j \in r.old THEN [invitation[j] EXCEPT !.revoked_at = TRUE]
              ELSE invitation[j]],
         roleRows' = roleRows \cup {<<r.who[1], r.role>>},
         orgs' = orgs, user' = user, link' = link
  PROVE  OrgRowsInv' /\ DOMAIN invitation' = DOMAIN invitation \cup {i}
<1> DEFINE n == [who |-> r.who, role |-> r.role, accepted_at |-> FALSE,
                 revoked_at |-> FALSE, expired |-> FALSE]
<1>1. DOMAIN invitation' = DOMAIN invitation \cup {i} /\ invitation'[i] = n
  BY Zenon
<1>2. ASSUME NEW j \in DOMAIN invitation
      PROVE  /\ j # i
             /\ IF j \in r.old THEN invitation'[j] = [invitation[j] EXCEPT !.revoked_at = TRUE]
                               ELSE invitation'[j] = invitation[j]
  BY Zenon
<1>3. /\ n \in Invitation /\ n.who = r.who /\ n.role = r.role /\ ~n.accepted_at
  BY DEF Invitation
<1> HIDE DEF n
<1>4. /\ user \in [Members -> User0] /\ i # NoOrg
      /\ \A m \in Members : UserOK(m)
  BY Zenon, OrgAssumption DEF OrgRowsInv, UsersInv
<1>5. UsersInv' /\ LinksInv'
  BY Zenon, <1>1, <1>4 DEF OrgRowsInv, UsersInv, UserOK, LinksInv, Present
<1>6. user[r.who].by # i
  BY Zenon, <1>4 DEF UserOK
<1>7. InvitationOK(i)'
  BY Zenon, <1>1, <1>3, <1>6 DEF InvitationOK
<1>8. ASSUME NEW j \in DOMAIN invitation
      PROVE  /\ invitation'[j] \in Invitation /\ invitation'[j].who = invitation[j].who
             /\ invitation'[j].role = invitation[j].role
             /\ invitation'[j].accepted_at = invitation[j].accepted_at
             /\ Pending(j)' => Pending(j) /\ j \notin r.old
  <2>1. invitation[j] \in Invitation
    BY Zenon DEF OrgRowsInv, InvitesInv, InvitationOK
  <2>2. CASE j \in r.old
    <3>1. invitation'[j] = [invitation[j] EXCEPT !.revoked_at = TRUE]
      BY Zenon, <1>2, <2>2
    <3> QED
      BY Zenon, <2>1, <3>1 DEF Invitation, Pending
  <2>3. CASE j \notin r.old
    BY Zenon, <1>2, <2>1, <2>3 DEF Pending
  <2> QED
    BY Zenon, <2>2, <2>3
<1>9. ASSUME NEW j \in DOMAIN invitation PROVE InvitationOK(j)'
  <2>1. InvitationOK(j)
    BY Zenon DEF OrgRowsInv, InvitesInv
  <2>2. <<invitation'[j].who[1], invitation'[j].role>> \in roleRows'
    BY <1>8, <2>1 DEF InvitationOK
  <2> QED
    BY Zenon, <1>8, <2>1, <2>2 DEF InvitationOK
<1>10. ASSUME NEW j \in DOMAIN invitation, Pending(j)' PROVE invitation[j].who # r.who
  BY Zenon, <1>8, <1>10 DEF Unsettled
<1>11. OneUnsettled'
  BY ZenonT(40), <1>1, <1>3, <1>8, <1>10 DEF OneUnsettled, OrgRowsInv, InvitesInv
<1>12. InvitesInv'
  BY Zenon, <1>1, <1>7, <1>9, <1>11 DEF OrgRowsInv, InvitesInv
<1> QED
  BY Zenon, <1>1, <1>5, <1>12 DEF OrgRowsInv

(* The requests once an invitation is written or refused.                   *)
LEMMA InviteStep ==
  ASSUME OrgInv, NEW q \in OrgRequests, NEW i \in Invitations, invite_user(q, i)
  PROVE  OrgInv'
<1>1. PICK r : r = orgReq[q]
  BY Zenon
<1>2. /\ r # NoOrg /\ r.op = "invite" /\ i \notin DOMAIN invitation
      /\ Continue(q, NoOrg) /\ UNCHANGED <<orgs, user, team, link>>
  BY Zenon, <1>1 DEF invite_user, Doing
<1>3. OrgRequestOK(orgs, user, invitation, link, r)
  BY Zenon, <1>1, <1>2 DEF OrgInv, OrgRequestInv
<1>4. r.who \in Members /\ r.role \in Roles /\ Staffed(user, r.who[1])
  BY <1>2, <1>3 DEF OrgRequestOK
<1>5. CASE tenant_email_pending(r.who, r.old)
  <2>1. OrgRowsInv' /\ DOMAIN invitation' = DOMAIN invitation \cup {i}
    BY Zenon, <1>1, <1>2, <1>4, <1>5, InviteRows DEF OrgInv, invite_user, tenant_email_pending
  <2>2. Growing /\ Sparing
    BY Zenon, <1>2, <2>1 DEF Growing, Sparing, Present, Staffed
  <2> QED
    BY Zenon, <1>2, <2>1, <2>2, RequestsNext DEF OrgInv, Owns, Continue
<1>6. CASE ~tenant_email_pending(r.who, r.old)
  <2>1. UNCHANGED <<invitation, roleRows>>
    BY Zenon, <1>1, <1>6 DEF invite_user
  <2> QED
    BY Zenon, <1>2, <2>1, StepOfRequest DEF Owns
<1> QED
  BY Zenon, <1>5, <1>6

(* An invitation is revoked, or expires.                                    *)
LEMMA RetireRows ==
  ASSUME OrgRowsInv, NEW i \in DOMAIN invitation,
         \/ invitation' = [invitation EXCEPT ![i].revoked_at = TRUE]
         \/ invitation' = [invitation EXCEPT ![i].expired = TRUE],
         UNCHANGED <<orgs, roleRows, user, link>>
  PROVE  OrgRowsInv' /\ Growing /\ Sparing
<1>1. /\ DOMAIN invitation' = DOMAIN invitation
      /\ \/ invitation'[i] = [invitation[i] EXCEPT !.revoked_at = TRUE]
         \/ invitation'[i] = [invitation[i] EXCEPT !.expired = TRUE]
      /\ \A j \in DOMAIN invitation : j # i => invitation'[j] = invitation[j]
  BY Zenon
<1>2. \A j \in DOMAIN invitation : invitation[j] \in Invitation
  BY Zenon DEF OrgRowsInv, InvitesInv, InvitationOK
<1>3. /\ invitation'[i] \in Invitation /\ invitation'[i].who = invitation[i].who
      /\ invitation'[i].role = invitation[i].role
      /\ invitation'[i].accepted_at = invitation[i].accepted_at
      /\ invitation[i].revoked_at => invitation'[i].revoked_at
  BY Zenon, <1>1, <1>2 DEF Invitation
<1>4. ASSUME NEW j \in DOMAIN invitation
      PROVE  /\ invitation'[j] \in Invitation /\ invitation'[j].who = invitation[j].who
             /\ invitation'[j].role = invitation[j].role
             /\ invitation'[j].accepted_at = invitation[j].accepted_at
             /\ Pending(j)' => Pending(j)
  BY Zenon, <1>1, <1>2, <1>3 DEF Pending
<1>5. OrgRowsInv'
  BY Zenon, <1>1, <1>4, InvitationsChange
<1>6. Growing /\ Sparing
  BY Zenon, <1>1 DEF Growing, Sparing, Present, Staffed
<1> QED
  BY Zenon, <1>5, <1>6

(* revoke_invitation.                                                       *)
LEMMA RevokeStep ==
  ASSUME OrgInv, NEW q \in OrgRequests, revoke_invitation(q)
  PROVE  OrgInv'
<1>1. /\ orgReq[q] # NoOrg /\ orgReq[q].op = "revoke" /\ Continue(q, NoOrg)
      /\ UNCHANGED <<orgs, roleRows, user, team, link>>
  BY Zenon DEF revoke_invitation, Doing
<1>2. OrgRequestOK(orgs, user, invitation, link, orgReq[q])
  BY Zenon, <1>1 DEF OrgInv, OrgRequestInv
<1>3. orgReq[q].invitation \in DOMAIN invitation
  BY <1>1, <1>2 DEF OrgRequestOK
<1>4. OrgRowsInv' /\ Growing /\ Sparing
  BY Zenon, <1>1, <1>3, RetireRows DEF OrgInv, revoke_invitation
<1> QED
  BY Zenon, <1>1, <1>4, RequestsNext DEF OrgInv, Owns, Continue

(* An invitation runs out.                                                  *)
LEMMA ExpireStep ==
  ASSUME OrgInv, NEW i \in DOMAIN invitation, InvitationExpires(i)
  PROVE  OrgInv'
<1>1. OrgRowsInv' /\ Growing /\ Sparing /\ orgReq' = orgReq
  BY Zenon, RetireRows DEF OrgInv, InvitationExpires
<1> QED
  BY Zenon, <1>1, RequestsWait DEF OrgInv

(* The steps that only load.                                                *)
LEMMA LoadStep ==
  ASSUME OrgInv, NEW q \in OrgRequests,
         \/ \E e \in Emails : CheckSignup(q, e)
         \/ SignupDies(q)
         \/ \E k \in DOMAIN link : LoadReset(q, k)
         \/ \E actor \in Members, e \in Emails, role \in Roles : LoadInvite(q, actor, e, role)
         \/ \E i \in DOMAIN invitation : LoadRevocation(q, i) \/ LoadAcceptance(q, i)
  PROVE  OrgInv'
<1>1. CASE \E e \in Emails : CheckSignup(q, e)
  <2>1. PICK e \in Emails : CheckSignup(q, e)
    BY Zenon, <1>1
  <2> DEFINE x == [op |-> "tenant", email |-> e]
  <2>2. x.op = "tenant" /\ x.email = e /\ x.op # "owner"
    BY DEF x
  <2> HIDE DEF x
  <2>3. OrgRequestOK(orgs, user, invitation, link, x) /\ ~Owns(x)
    BY Zenon, <2>2 DEF OrgRequestOK, Owns
  <2>4. Continue(q, x) /\ UNCHANGED <<orgs, roleRows, user, team, invitation, link>>
    BY Zenon, <2>1 DEF CheckSignup, x
  <2> QED
    BY Zenon, <2>3, <2>4, StepOfRequest
<1>2. CASE SignupDies(q)
  BY Zenon, <1>2, StepOfRequest DEF SignupDies, Owns
<1>3. CASE \E k \in DOMAIN link : LoadReset(q, k)
  <2>1. PICK k \in DOMAIN link : LoadReset(q, k)
    BY Zenon, <1>3
  <2> DEFINE x == [op |-> "reset", link |-> k]
  <2>2. x.op = "reset" /\ x.link = k /\ x.op # "owner"
    BY DEF x
  <2> HIDE DEF x
  <2>3. OrgRequestOK(orgs, user, invitation, link, x) /\ ~Owns(x)
    BY Zenon, <2>2 DEF OrgRequestOK, Owns
  <2>4. Continue(q, x) /\ UNCHANGED <<orgs, roleRows, user, team, invitation, link>>
    BY Zenon, <2>1 DEF LoadReset, x
  <2> QED
    BY Zenon, <2>3, <2>4, StepOfRequest
<1>4. CASE \E actor \in Members, e \in Emails, role \in Roles : LoadInvite(q, actor, e, role)
  <2>1. PICK actor \in Members, e \in Emails, role \in Roles : LoadInvite(q, actor, e, role)
    BY Zenon, <1>4
  <2> DEFINE x == [op |-> "invite", who |-> <<actor[1], e>>, role |-> role,
                   old |-> Unsettled(<<actor[1], e>>)]
  <2>2. x.op = "invite" /\ x.who = <<actor[1], e>> /\ x.role = role /\ x.op # "owner"
    BY DEF x
  <2>3. Continue(q, x) /\ UNCHANGED <<orgs, roleRows, user, team, invitation, link>>
    BY Zenon, <2>1 DEF LoadInvite, x
  <2>4. user[actor].status = "active"
    BY ZenonT(40), <2>1 DEF LoadInvite
  <2> HIDE DEF x
  <2>5. x.who \in Members /\ x.who[1] = actor[1]
    <3>1. actor[1] \in Orgs
      BY DEF Members
    <3>2. <<actor[1], e>> \in Members /\ <<actor[1], e>>[1] = actor[1]
      BY <3>1 DEF Members
    <3> QED
      BY Zenon, <2>2, <3>2
  <2>6. Staffed(user, actor[1])
    BY <2>4 DEF Staffed
  <2>7. OrgRequestOK(orgs, user, invitation, link, x) /\ ~Owns(x)
    BY Zenon, <2>2, <2>5, <2>6 DEF OrgRequestOK, Owns
  <2> QED
    BY Zenon, <2>3, <2>7, StepOfRequest
<1>5. CASE \E i \in DOMAIN invitation : LoadRevocation(q, i) \/ LoadAcceptance(q, i)
  <2>1. PICK i \in DOMAIN invitation, op \in {"revoke", "accept"} :
          /\ Continue(q, [op |-> op, invitation |-> i])
          /\ UNCHANGED <<orgs, roleRows, user, team, invitation, link>>
    BY Zenon, <1>5 DEF LoadRevocation, LoadAcceptance
  <2> DEFINE x == [op |-> op, invitation |-> i]
  <2>2. x.op \in {"revoke", "accept"} /\ x.invitation = i /\ x.op # "owner"
    BY DEF x
  <2> HIDE DEF x
  <2>3. OrgRequestOK(orgs, user, invitation, link, x) /\ ~Owns(x)
    BY Zenon, <2>2 DEF OrgRequestOK, Owns
  <2> QED
    BY Zenon, <2>1, <2>3, StepOfRequest DEF x
<1> QED
  BY Zenon, <1>1, <1>2, <1>3, <1>4, <1>5

(* Every step of every request keeps OrgInv.                                *)
LEMMA OrgNext_Inv == OrgInv /\ [OrgNext]_orgVars => OrgInv'
<1> SUFFICES ASSUME OrgInv, [OrgNext]_orgVars PROVE OrgInv'
  OBVIOUS
<1>1. CASE UNCHANGED orgVars
  BY Zenon, <1>1 DEF orgVars, OrgInv, OrgRowsInv, UsersInv, UserOK, InvitesInv, InvitationOK,
     OneUnsettled, LinksInv, Pending, Present, Staffed, OrgRequestInv
<1>2. CASE provision_workspace
  BY Zenon, <1>2, ProvisionStep
<1>3. ASSUME NEW q \in OrgRequests, AccountRoutes(q) PROVE OrgInv'
  BY Zenon, <1>3, LoadStep, TenantStep, SignupStep, ResetStep, VerifyStep, ForgotStep DEF AccountRoutes
<1>4. ASSUME NEW q \in OrgRequests, InvitationRoutes(q) PROVE OrgInv'
  BY Zenon, <1>4, LoadStep, InviteStep, RevokeStep, AcceptStep, ExpireStep DEF InvitationRoutes
<1> QED
  BY Zenon, <1>1, <1>2, <1>3, <1>4 DEF OrgNext

(* OrgInv holds throughout.                                                 *)
THEOREM OrgsInvariant == OrgSpec => []OrgInv
<1> QED
  BY OrgInit_Inv, OrgNext_Inv, PTL DEF OrgSpec

(* However sign-ups, invitations, acceptances and resets interleave, over   *)
(* any addresses and any number of requests: one unsettled invitation to a  *)
(* member at most, whoever an invitation made has the role it offered, an   *)
(* accepted invitation made its member, and every member has an             *)
(* organisation and a role of it.                                           *)
THEOREM InvitationsKept == OrgSpec => []InvitationsAreKept
<1>1. OrgInv => InvitationsAreKept
  <2> SUFFICES ASSUME OrgInv PROVE InvitationsAreKept
    OBVIOUS
  <2>1. \A m \in Members : \A i, j \in Unsettled(m) : i = j
    BY Zenon DEF OrgInv, OrgRowsInv, InvitesInv, OneUnsettled, Unsettled
  <2>2. \A i \in DOMAIN invitation :
          /\ invitation[i].accepted_at <=> user[invitation[i].who].by = i
          /\ invitation[i].accepted_at => user[invitation[i].who].role = invitation[i].role
    BY Zenon DEF OrgInv, OrgRowsInv, InvitesInv, InvitationOK
  <2>3. \A m \in Members : Present(m) => m[1] \in orgs /\ <<m[1], user[m].role>> \in roleRows
    BY Zenon DEF OrgInv, OrgRowsInv, UsersInv, UserOK
  <2> QED
    BY Zenon, <2>1, <2>2, <2>3 DEF InvitationsAreKept
<1> QED
  BY <1>1, OrgsInvariant, PTL

-----------------------------------------------------------------------------
(* Contacts and the handlers of CRM events.                                 *)

(* What a handler run loaded and what it will set.                          *)
Old(r) == r.writes["contact"].old
New(r) == r.writes["contact"].new

(* A contact's columns hold a name the account has had and a time at which  *)
(* there was an activity.                                                   *)
Cols == [company : Nat \cup {Nameless, Own}, last_contact_at : Nat]

ColsOK(name, last, c) ==
  /\ c \in Cols /\ c.last_contact_at <= last
  /\ c.company \in Nat => c.company <= name

(* Events are numbered as they happen.                                      *)
EventOK(name, last, edit, e) ==
  /\ e \in [type : {"contact.updated", "account.updated", "activity.logged"}, at : Nat]
  /\ e.type = "account.updated" => e.at <= name
  /\ e.type = "activity.logged" => e.at <= last
  /\ e.type = "contact.updated" => e.at <= edit

(* What each handler makes of what it loaded.                               *)
HandlerOK(r) ==
  LET old == Old(r)
      new == New(r)
  IN /\ r.event.type = "contact.updated" =>
          /\ old.company # Nameless => new = old
          /\ old.company = Nameless => new.company \in Nat /\ new.last_contact_at = old.last_contact_at
     /\ r.event.type = "account.updated" =>
          /\ new.company \in Nat /\ r.event.at <= new.company
          /\ new.last_contact_at = old.last_contact_at
          /\ old.company \in Nat => old.company <= new.company
     /\ r.event.type = "activity.logged" =>
          /\ new.company = old.company
          /\ r.event.at <= new.last_contact_at /\ old.last_contact_at <= new.last_contact_at

RunOK(name, last, edit, row, r) ==
  /\ {"event", "writes", "stale"} \subseteq DOMAIN r
  /\ Dirty(r) = {"contact"} /\ r.stale \subseteq {"contact"}
  /\ EventOK(name, last, edit, r.event)
  /\ ColsOK(name, last, Old(r)) /\ ColsOK(name, last, New(r))
  /\ HandlerOK(r)
  /\ r.stale = {} => row = Old(r)

RunsOK ==
  /\ DOMAIN running = Pollers
  /\ \A p \in Pollers : running[p] # NoRun => RunOK(accountName, spoken, edits, person, running[p])

TablesOK ==
  /\ {accountName, spoken, edits} \subseteq Nat /\ ColsOK(accountName, spoken, person)
  /\ \A e \in toDispatch : EventOK(accountName, spoken, edits, e)

(* An event is owed until it was handled: a run of its handler has found    *)
(* nothing to change, or has committed its change.                          *)
Owed(events, runs, e) ==
  /\ e \in events
  /\ \A p \in Pollers : runs[p] # NoRun /\ runs[p].event = e => Changes(runs[p])

Renaming(name) == [type |-> "account.updated", at |-> name]
Activity(last) == [type |-> "activity.logged", at |-> last]
Edit(edit) == [type |-> "contact.updated", at |-> edit]

(* No contact, stored or about to be, shows an earlier name.                *)
Behind(name, c) == c.company \in Nat /\ c.company # name

NothingBehind(name, row, runs) ==
  /\ ~Behind(name, row)
  /\ \A p \in Pollers : runs[p] # NoRun /\ runs[p].stale = {} => ~Behind(name, New(runs[p]))

NameKept == Owed(toDispatch, running, Renaming(accountName)) \/ NothingBehind(accountName, person, running)
TimeKept == Owed(toDispatch, running, Activity(spoken)) \/ person.last_contact_at = spoken
EditKept == Owed(toDispatch, running, Edit(edits)) \/ person.company # Nameless

EventsInv == TablesOK /\ RunsOK /\ (~collided => NameKept /\ TimeKept /\ EditKept)

(* The contact has no name yet, and the event that will give it one is      *)
(* owed.                                                                    *)
LEMMA EventsInit_Inv == EventsInit => EventsInv
<1> SUFFICES ASSUME EventsInit PROVE EventsInv
  OBVIOUS
<1>1. person \in Cols /\ person.company = Nameless /\ person.last_contact_at = 0
  BY DEF EventsInit, Cols
<1>2. accountName = 1 /\ spoken = 0 /\ edits = 0 /\ toDispatch = {Edit(0)}
  BY DEF EventsInit, Edit
<1>3. DOMAIN running = Pollers /\ \A p \in Pollers : running[p] = NoRun
  BY Zenon DEF EventsInit
<1>4. ColsOK(1, 0, person) /\ ~Behind(1, person)
  BY <1>1, EventsAssumption DEF ColsOK, Behind
<1>5. EventOK(1, 0, 0, Edit(0))
  BY DEF EventOK, Edit
<1>6. TablesOK
  BY <1>2, <1>4, <1>5 DEF TablesOK
<1>7. RunsOK /\ NothingBehind(1, person, running) /\ Owed(toDispatch, running, Edit(0))
  BY Zenon, <1>2, <1>3, <1>4 DEF RunsOK, NothingBehind, Owed
<1> QED
  BY Zenon, <1>1, <1>2, <1>6, <1>7 DEF EventsInv, NameKept, TimeKept, EditKept

(* Renamings, activities and edits only ever increase the numbers.          *)
LEMMA ColsGrow ==
  ASSUME NEW name \in Nat, NEW last \in Nat, NEW name2 \in Nat, NEW last2 \in Nat,
         name <= name2, last <= last2, NEW c, ColsOK(name, last, c)
  PROVE  ColsOK(name2, last2, c)
  BY DEF ColsOK, Cols

(* The same for an event.                                                   *)
LEMMA EventGrows ==
  ASSUME NEW name \in Nat, NEW last \in Nat, NEW edit \in Nat,
         NEW name2 \in Nat, NEW last2 \in Nat, NEW edit2 \in Nat,
         name <= name2, last <= last2, edit <= edit2, NEW e, EventOK(name, last, edit, e)
  PROVE  EventOK(name2, last2, edit2, e)
  BY DEF EventOK

(* The same for a handler run.                                              *)
LEMMA RunGrows ==
  ASSUME NEW name \in Nat, NEW last \in Nat, NEW edit \in Nat,
         NEW name2 \in Nat, NEW last2 \in Nat, NEW edit2 \in Nat,
         name <= name2, last <= last2, edit <= edit2, NEW row, NEW r, RunOK(name, last, edit, row, r)
  PROVE  RunOK(name2, last2, edit2, row, r)
  BY Zenon, ColsGrow, EventGrows DEF RunOK

-----------------------------------------------------------------------------
(* A new event is owed: its number is a new one.                            *)
LEMMA NewIsOwed ==
  ASSUME RunsOK, {accountName, spoken, edits} \subseteq Nat, NEW events, NEW e, e \in events,
         \/ e = Renaming(accountName + 1) \/ e = Activity(spoken + 1) \/ e = Edit(edits + 1)
  PROVE  Owed(events, running, e)
<1>1. ASSUME NEW p \in Pollers, running[p] # NoRun PROVE running[p].event # e
  <2>1. EventOK(accountName, spoken, edits, running[p].event)
    BY Zenon, <1>1 DEF RunsOK, RunOK
  <2> QED
    BY <2>1 DEF EventOK, Renaming, Activity, Edit
<1> QED
  BY Zenon, <1>1 DEF Owed

(* The same for all runs.                                                   *)
LEMMA RunsGrow ==
  ASSUME RunsOK, {accountName, spoken, edits} \subseteq Nat,
         NEW name \in Nat, NEW last \in Nat, NEW edit \in Nat,
         accountName <= name, spoken <= last, edits <= edit
  PROVE  \A p \in Pollers : running[p] # NoRun => RunOK(name, last, edit, person, running[p])
  BY Zenon, RunGrows DEF RunsOK

(* The same for the row and the events not yet handled.                     *)
LEMMA EventsGrow ==
  ASSUME TablesOK, NEW name \in Nat, NEW last \in Nat, NEW edit \in Nat,
         accountName <= name, spoken <= last, edits <= edit
  PROVE  /\ ColsOK(name, last, person)
         /\ \A e \in toDispatch : EventOK(name, last, edit, e)
  BY Zenon, ColsGrow, EventGrows DEF TablesOK

(* An account is renamed: its event is owed.                                *)
LEMMA RenameStep ==
  ASSUME EventsInv, RenameAccount
  PROVE  EventsInv'
<1> DEFINE n == accountName + 1
<1>1. /\ accountName' = n /\ toDispatch' = toDispatch \cup {Renaming(n)}
      /\ UNCHANGED <<person, spoken, edits, running, collided>>
  BY Zenon DEF RenameAccount, Emitted, Renaming
<1>2. {accountName, spoken, edits} \subseteq Nat /\ RunsOK /\ TablesOK
  BY Zenon DEF EventsInv, TablesOK
<1>3. accountName \in Nat /\ spoken \in Nat /\ edits \in Nat /\ n \in Nat /\ accountName <= n
      /\ spoken <= spoken /\ edits <= edits
  BY <1>2
<1>4. Owed(toDispatch', running, Renaming(n))
  BY Zenon, <1>1, <1>2, NewIsOwed
<1>5. EventOK(n, spoken, edits, Renaming(n))
  BY <1>3 DEF EventOK, Renaming
<1> HIDE DEF n
<1>6. RunsOK'
  BY Zenon, <1>1, <1>2, <1>3, RunsGrow DEF RunsOK
<1>7. ColsOK(n, spoken, person) /\ \A e \in toDispatch : EventOK(n, spoken, edits, e)
  BY Zenon, <1>2, <1>3, EventsGrow
<1>8. TablesOK'
  BY Zenon, <1>1, <1>3, <1>5, <1>7 DEF TablesOK
<1>9. \A e : Owed(toDispatch, running, e) => Owed(toDispatch', running, e)
  BY Zenon, <1>1 DEF Owed
<1>10. NameKept'
  BY Zenon, <1>1, <1>4 DEF NameKept
<1>11. ~collided' => TimeKept' /\ EditKept'
  BY Zenon, <1>1, <1>9 DEF EventsInv, TimeKept, EditKept
<1> QED
  BY Zenon, <1>6, <1>8, <1>10, <1>11 DEF EventsInv

(* An activity is logged: its event is owed if it is outward.               *)
LEMMA ActivityStep ==
  ASSUME EventsInv, NEW outward \in BOOLEAN, log_activity(outward)
  PROVE  EventsInv'
<1> DEFINE n == spoken + 1
<1>1. UNCHANGED <<accountName, person, edits, running, collided>>
  BY Zenon DEF log_activity
<1>2. CASE ~outward
  <2>1. spoken' = spoken /\ toDispatch' = toDispatch
    BY Zenon, <1>2 DEF log_activity
  <2> QED
    BY Zenon, <1>1, <2>1 DEF EventsInv, TablesOK, RunsOK, NameKept, TimeKept, EditKept
<1>3. CASE outward
  <2>1. spoken' = n /\ toDispatch' = toDispatch \cup {Activity(n)}
    BY Zenon, <1>3 DEF log_activity, Emitted, Activity
  <2>2. {accountName, spoken, edits} \subseteq Nat /\ RunsOK /\ TablesOK
    BY Zenon DEF EventsInv, TablesOK
  <2>3. accountName \in Nat /\ spoken \in Nat /\ edits \in Nat /\ n \in Nat /\ spoken <= n
        /\ accountName <= accountName /\ edits <= edits
    BY <2>2
  <2>4. Owed(toDispatch', running, Activity(n))
    BY Zenon, <2>1, <2>2, NewIsOwed
  <2>5. EventOK(accountName, n, edits, Activity(n))
    BY <2>3 DEF EventOK, Activity
  <2> HIDE DEF n
  <2>6. RunsOK'
    BY Zenon, <1>1, <2>1, <2>2, <2>3, RunsGrow DEF RunsOK
  <2>7. ColsOK(accountName, n, person) /\ \A e \in toDispatch : EventOK(accountName, n, edits, e)
    BY Zenon, <2>2, <2>3, EventsGrow
  <2>8. TablesOK'
    BY Zenon, <1>1, <2>1, <2>3, <2>5, <2>7 DEF TablesOK
  <2>9. \A e : Owed(toDispatch, running, e) => Owed(toDispatch', running, e)
    BY Zenon, <2>1 DEF Owed
  <2>10. TimeKept'
    BY Zenon, <1>1, <2>1, <2>4 DEF TimeKept
  <2>11. ~collided' => NameKept' /\ EditKept'
    BY Zenon, <1>1, <2>9 DEF EventsInv, NameKept, EditKept
  <2> QED
    BY Zenon, <2>6, <2>8, <2>10, <2>11 DEF EventsInv
<1> QED
  BY Zenon, <1>2, <1>3

-----------------------------------------------------------------------------
(* The runs a commit has outdated keep their event and their writes.        *)
LEMMA OutdatedRun ==
  ASSUME NEW name, NEW last, NEW edit, NEW row, NEW row2, NEW r, RunOK(name, last, edit, row, r)
  PROVE  LET s == Outdate(r, {"contact"}) IN
           /\ s.event = r.event /\ s.writes = r.writes /\ s.stale # {}
           /\ RunOK(name, last, edit, row2, s)
<1> DEFINE s == Outdate(r, {"contact"})
<1>1. {"event", "writes", "stale"} \subseteq DOMAIN r /\ Dirty(r) = {"contact"} /\ r.stale \subseteq {"contact"}
  BY Zenon DEF RunOK
<1>2. "event" \in DOMAIN r /\ "writes" \in DOMAIN r /\ "stale" \in DOMAIN r
  BY Zenon, <1>1
<1>3. DOMAIN s = DOMAIN r /\ s.event = r.event /\ s.writes = r.writes
      /\ s.stale = r.stale \cup ({"contact"} \cap Dirty(r))
  BY Zenon, <1>2 DEF Outdate
<1>4. s.stale = {"contact"}
  BY Zenon, <1>1, <1>3
<1> HIDE DEF s
<1>5. Dirty(s) = Dirty(r) /\ Old(s) = Old(r) /\ New(s) = New(r)
  BY Zenon, <1>3 DEF Dirty, Old, New
<1>6. HandlerOK(s)
  BY Zenon, <1>3, <1>5 DEF RunOK, HandlerOK
<1>7. RunOK(name, last, edit, row2, s)
  BY Zenon, <1>1, <1>3, <1>4, <1>5, <1>6 DEF RunOK
<1> QED
  BY Zenon, <1>3, <1>4, <1>7 DEF s

(* All runs but one, once the contact was written.                          *)
LEMMA OthersOutdated ==
  ASSUME RunsOK, NEW x, NEW row, NEW o \in Pollers, o # x
  PROVE  LET s == Others(x)[o] IN
           /\ running[o] = NoRun => s = NoRun
           /\ running[o] # NoRun =>
                /\ s.event = running[o].event /\ s.writes = running[o].writes /\ s.stale # {}
                /\ RunOK(accountName, spoken, edits, row, s)
<1> DEFINE s == Others(x)[o]
<1>1. s = IF running[o] # NoRun THEN Outdate(running[o], {"contact"}) ELSE running[o]
  BY Zenon DEF Others
<1>2. CASE running[o] = NoRun
  BY Zenon, <1>1, <1>2
<1>3. CASE running[o] # NoRun
  <2>1. s = Outdate(running[o], {"contact"})
    BY Zenon, <1>1, <1>3
  <2>2. RunOK(accountName, spoken, edits, person, running[o])
    BY Zenon, <1>3 DEF RunsOK
  <2>3. LET t == Outdate(running[o], {"contact"}) IN
          /\ t.event = running[o].event /\ t.writes = running[o].writes /\ t.stale # {}
          /\ RunOK(accountName, spoken, edits, row, t)
    BY Zenon, <2>2, OutdatedRun
  <2> QED
    BY Zenon, <1>3, <2>1, <2>3
<1> QED
  BY Zenon, <1>2, <1>3

(* A person edits the company: the event is owed and every run is outdated. *)
LEMMA EditStep ==
  ASSUME EventsInv, NEW company \in {Nameless, Own}, EditContact(company)
  PROVE  EventsInv'
<1> DEFINE n == edits + 1
<1>1. /\ edits' = n /\ person' = [person EXCEPT !.company = company]
      /\ toDispatch' = toDispatch \cup {Edit(n)} /\ running' = Others(NoRun)
      /\ UNCHANGED <<accountName, spoken, collided>>
  BY Zenon DEF EditContact, Emitted, Edit
<1>2. {accountName, spoken, edits} \subseteq Nat /\ RunsOK /\ TablesOK
  BY Zenon DEF EventsInv, TablesOK
<1>3. accountName \in Nat /\ spoken \in Nat /\ edits \in Nat /\ n \in Nat /\ edits <= n
      /\ accountName <= accountName /\ spoken <= spoken
  BY <1>2
<1>4. ColsOK(accountName, spoken, person)
  BY Zenon DEF EventsInv, TablesOK
<1>5. ColsOK(accountName, spoken, person') /\ person'.company = company
      /\ person'.last_contact_at = person.last_contact_at /\ ~Behind(accountName, person')
  BY <1>1, <1>4, EventsAssumption DEF ColsOK, Cols, Behind
<1>6. Owed(toDispatch', running, Edit(n))
  BY Zenon, <1>1, <1>2, NewIsOwed
<1>7. EventOK(accountName, spoken, n, Edit(n))
  BY <1>3 DEF EventOK, Edit
<1> HIDE DEF n
<1>8. ASSUME NEW o \in Pollers
      PROVE  /\ running[o] = NoRun => running'[o] = NoRun
             /\ running[o] # NoRun =>
                  /\ running'[o].event = running[o].event /\ running'[o].writes = running[o].writes
                  /\ running'[o].stale # {}
                  /\ RunOK(accountName, spoken, edits, person', running'[o])
  <2>1. o # NoRun
    BY Zenon, EventsAssumption
  <2> QED
    BY Zenon, <1>1, <1>2, <2>1, OthersOutdated
<1>9. DOMAIN running' = Pollers
  BY Zenon, <1>1 DEF Others
<1>10. RunsOK'
  BY ZenonT(40), <1>1, <1>3, <1>8, <1>9, RunGrows DEF RunsOK
<1>11. TablesOK'
  <2>1. \A e \in toDispatch : EventOK(accountName, spoken, n, e)
    BY Zenon, <1>2, <1>3, EventsGrow
  <2> QED
    BY Zenon, <1>1, <1>3, <1>5, <1>7, <2>1 DEF TablesOK
<1>12. ASSUME NEW events, NEW e, Owed(events, running, e), events \subseteq toDispatch'
       PROVE  Owed(toDispatch', running', e)
  BY Zenon, <1>8, <1>12 DEF Owed, Changes
<1>13. NothingBehind(accountName, person', running')
  BY Zenon, <1>5, <1>8 DEF NothingBehind
<1>14. NameKept' /\ EditKept'
  BY Zenon, <1>1, <1>6, <1>12, <1>13 DEF NameKept, EditKept
<1>15. ~collided' => TimeKept'
  BY Zenon, <1>1, <1>5, <1>12 DEF EventsInv, TimeKept
<1> QED
  BY Zenon, <1>10, <1>11, <1>14, <1>15 DEF EventsInv

-----------------------------------------------------------------------------
(* What the handler of an event makes of the contact, and when that is what *)
(* it was.                                                                  *)
LEMMA HandlerMakes ==
  ASSUME TablesOK, NEW e, EventOK(accountName, spoken, edits, e)
  PROVE  LET new == handlers_for(e) IN
           /\ ColsOK(accountName, spoken, new)
           /\ ~Behind(accountName, person) => ~Behind(accountName, new)
           /\ e.type = "contact.updated" =>
                /\ person.company # Nameless => new = person
                /\ person.company = Nameless =>
                     new.company \in Nat /\ new.last_contact_at = person.last_contact_at
           /\ e.type = "account.updated" =>
                /\ new.company = accountName /\ new.last_contact_at = person.last_contact_at
           /\ e.type = "activity.logged" =>
                /\ new.company = person.company
                /\ e.at <= new.last_contact_at /\ person.last_contact_at <= new.last_contact_at
<1> DEFINE new == handlers_for(e)
<1>1. /\ accountName \in Nat /\ spoken \in Nat /\ ColsOK(accountName, spoken, person)
  BY DEF TablesOK
<1>2. e.at \in Nat /\ (e.type = "activity.logged" => e.at <= spoken)
  BY DEF EventOK
<1>3. CASE e.type = "contact.updated"
  <2>1. new = IF person.company = Nameless THEN [person EXCEPT !.company = accountName] ELSE person
    BY <1>3 DEF handlers_for, sync_contact_company
  <2> HIDE DEF new
  <2> QED
    BY <1>1, <1>3, <2>1 DEF ColsOK, Cols, Behind, new
<1>4. CASE e.type = "account.updated"
  <2>1. new = [person EXCEPT !.company = accountName]
    BY <1>4 DEF handlers_for, propagate_account_rename
  <2> HIDE DEF new
  <2> QED
    BY <1>1, <1>4, <2>1 DEF ColsOK, Cols, Behind, new
<1>5. CASE e.type = "activity.logged"
  <2>1. new = IF person.last_contact_at >= e.at THEN person ELSE [person EXCEPT !.last_contact_at = e.at]
    BY <1>5 DEF handlers_for, stamp_last_contact_at
  <2> HIDE DEF new
  <2> QED
    BY <1>1, <1>2, <1>5, <2>1 DEF ColsOK, Cols, Behind, new
<1>6. e.type \in {"contact.updated", "account.updated", "activity.logged"}
  BY DEF EventOK
<1> QED
  BY Zenon, <1>3, <1>4, <1>5, <1>6

(* A handler run loads the contact.                                         *)
LEMMA RunStep ==
  ASSUME EventsInv, NEW q \in Pollers, NEW e \in toDispatch, RunHandler(q, e)
  PROVE  EventsInv'
<1> DEFINE new == handlers_for(e)
           r == [event |-> e, writes |-> Write("contact", person, new), stale |-> {}]
<1>1. /\ running' = [running EXCEPT ![q] = r]
      /\ UNCHANGED <<accountName, person, spoken, edits, toDispatch, collided>>
  BY Zenon DEF RunHandler
<1>2. /\ r.event = e /\ r.writes = Write("contact", person, new) /\ r.stale = {}
      /\ {"event", "writes", "stale"} \subseteq DOMAIN r
  BY Zenon
<1> HIDE DEF r
<1>3. Dirty(r) = {"contact"} /\ Old(r) = person /\ New(r) = new
  BY <1>2 DEF Dirty, Old, New, Write
<1>4. TablesOK /\ RunsOK /\ EventOK(accountName, spoken, edits, e) /\ ColsOK(accountName, spoken, person)
  BY Zenon DEF EventsInv, TablesOK
<1>5. /\ ColsOK(accountName, spoken, new)
      /\ ~Behind(accountName, person) => ~Behind(accountName, new)
      /\ e.type = "contact.updated" =>
           /\ person.company # Nameless => new = person
           /\ person.company = Nameless =>
                new.company \in Nat /\ new.last_contact_at = person.last_contact_at
      /\ e.type = "account.updated" =>
           /\ new.company = accountName /\ new.last_contact_at = person.last_contact_at
      /\ e.type = "activity.logged" =>
           /\ new.company = person.company
           /\ e.at <= new.last_contact_at /\ person.last_contact_at <= new.last_contact_at
  BY Zenon, <1>4, HandlerMakes
<1> HIDE DEF new
<1>6. HandlerOK(r)
  <2>1. accountName \in Nat /\ (person.company \in Nat => person.company <= accountName)
        /\ (e.type = "account.updated" => e.at <= accountName)
    BY <1>4 DEF TablesOK, ColsOK, EventOK
  <2> QED
    BY Zenon, <1>2, <1>3, <1>5, <2>1 DEF HandlerOK
<1>7. RunOK(accountName, spoken, edits, person, r)
  BY Zenon, <1>2, <1>3, <1>4, <1>5, <1>6 DEF RunOK
<1>8. DOMAIN running' = Pollers /\ running'[q] = r
      /\ \A o \in Pollers : o # q => running'[o] = running[o]
  BY Zenon, <1>1, <1>4 DEF RunsOK
<1>9. RunsOK'
  BY Zenon, <1>1, <1>4, <1>7, <1>8 DEF RunsOK
<1>10. TablesOK'
  BY Zenon, <1>1, <1>4 DEF TablesOK
<1>11. Changes(r) <=> new # person
  BY Zenon, <1>3 DEF Changes, Old, New
<1>12. ASSUME NEW x, Owed(toDispatch, running, x)
       PROVE  Owed(toDispatch, running', x) \/ (x = e /\ new = person)
  BY Zenon, <1>2, <1>8, <1>11, <1>12 DEF Owed
<1>13. ~collided => NameKept'
  <2> SUFFICES ASSUME ~collided
               PROVE  \/ Owed(toDispatch, running', Renaming(accountName))
                      \/ NothingBehind(accountName, person, running')
    BY Zenon, <1>1 DEF NameKept
  <2>1. CASE NothingBehind(accountName, person, running)
    BY Zenon, <1>3, <1>5, <1>8, <2>1 DEF NothingBehind
  <2>2. CASE Renaming(accountName) = e /\ new = person
    <3>1. person.company = accountName /\ accountName \in Nat
      BY <1>4, <1>5, <2>2 DEF Renaming, TablesOK
    <3>2. ~Behind(accountName, person)
      BY Zenon, <3>1 DEF Behind
    <3>3. ASSUME NEW o \in Pollers, o # q, running[o] # NoRun, running[o].stale = {}
          PROVE  ~Behind(accountName, New(running[o]))
      <4>1. RunOK(accountName, spoken, edits, person, running[o])
        BY Zenon, <1>4, <3>3 DEF RunsOK
      <4>2. /\ EventOK(accountName, spoken, edits, running[o].event) /\ HandlerOK(running[o])
            /\ Old(running[o]) = person /\ ColsOK(accountName, spoken, New(running[o]))
        BY Zenon, <3>3, <4>1 DEF RunOK
      <4>3. accountName # Nameless
        BY <3>1, EventsAssumption
      <4> QED
        BY <3>1, <4>2, <4>3 DEF HandlerOK, EventOK, ColsOK, Behind
    <3> QED
      BY ZenonT(40), <1>3, <1>8, <2>2, <3>2, <3>3 DEF NothingBehind
  <2> QED
    BY Zenon, <1>12, <2>1, <2>2 DEF EventsInv, NameKept
<1>14. ~collided => TimeKept'
  <2>1. ASSUME Activity(spoken) = e, new = person PROVE person.last_contact_at = spoken
    BY <1>4, <1>5, <2>1 DEF Activity, TablesOK, ColsOK, Cols
  <2> QED
    BY ZenonT(40), <1>1, <1>12, <2>1 DEF EventsInv, TimeKept
<1>15. ~collided => EditKept'
  <2>1. ASSUME Edit(edits) = e, new = person PROVE person.company # Nameless
    BY <1>5, <2>1, EventsAssumption DEF Edit
  <2> QED
    BY Zenon, <1>1, <1>12, <2>1 DEF EventsInv, EditKept
<1> QED
  BY Zenon, <1>1, <1>9, <1>10, <1>13, <1>14, <1>15 DEF EventsInv

-----------------------------------------------------------------------------
(* What is stored after a run's commit.                                     *)
LEMMA RunFlushes ==
  ASSUME TablesOK, NEW r, RunOK(accountName, spoken, edits, person, r)
  PROVE  LET row == Commit([contact |-> person], r).contact IN
           /\ ColsOK(accountName, spoken, row)
           /\ ~Changes(r) => row = person
           /\ r.stale = {} => row = New(r)
<1> DEFINE row == Commit([contact |-> person], r).contact
<1>1. /\ ColsOK(accountName, spoken, person) /\ ColsOK(accountName, spoken, Old(r))
      /\ ColsOK(accountName, spoken, New(r)) /\ Dirty(r) = {"contact"}
      /\ r.stale = {} => person = Old(r)
  BY Zenon DEF TablesOK, RunOK
<1>2. row = Flush(person, Old(r), New(r))
  BY <1>1 DEF Commit, Old, New
<1> HIDE DEF row
<1>3. Changes(r) <=> New(r) # Old(r)
  BY Zenon DEF Changes, Old, New
<1>4. ASSUME NEW old \in Cols, NEW new \in Cols
      PROVE  LET out == Flush(person, old, new) IN
               /\ out \in Cols
               /\ out.company = IF new.company # old.company THEN new.company ELSE person.company
               /\ out.last_contact_at = IF new.last_contact_at # old.last_contact_at
                                           THEN new.last_contact_at ELSE person.last_contact_at
               /\ old = new => out = person
               /\ old = person => out = new
  BY <1>1 DEF Flush, Cols, ColsOK
<1>5. Old(r) \in Cols /\ New(r) \in Cols
  BY Zenon, <1>1 DEF ColsOK
<1>6. /\ row \in Cols
      /\ row.company = IF New(r).company # Old(r).company THEN New(r).company ELSE person.company
      /\ row.last_contact_at = IF New(r).last_contact_at # Old(r).last_contact_at
                                   THEN New(r).last_contact_at ELSE person.last_contact_at
      /\ Old(r) = New(r) => row = person
      /\ Old(r) = person => row = New(r)
  BY ZenonT(40), <1>2, <1>4, <1>5
<1>7. ColsOK(accountName, spoken, row)
  BY <1>1, <1>6 DEF ColsOK
<1> QED
  BY Zenon, <1>1, <1>3, <1>6, <1>7 DEF row

(* A handler run commits, and its event is marked or stays.                 *)
LEMMA FinishStep ==
  ASSUME EventsInv, NEW q \in Pollers, NEW marked \in BOOLEAN, FinishHandler(q, marked)
  PROVE  EventsInv'
<1> DEFINE r == running[q]
<1>1. /\ r # NoRun /\ person' = Commit([contact |-> person], r).contact
      /\ running' = [(IF Changes(r) THEN Others(q) ELSE running) EXCEPT ![q] = NoRun]
      /\ collided' = (collided \/ (Changes(r) /\ r.stale # {}))
      /\ toDispatch' = IF marked THEN toDispatch \ {r.event} ELSE toDispatch
      /\ UNCHANGED <<accountName, spoken, edits>>
  BY Zenon DEF FinishHandler
<1>2. TablesOK /\ RunsOK /\ RunOK(accountName, spoken, edits, person, r)
  BY Zenon, <1>1 DEF EventsInv, RunsOK
<1>3. /\ ColsOK(accountName, spoken, person')
      /\ ~Changes(r) => person' = person
      /\ r.stale = {} => person' = New(r)
  BY Zenon, <1>1, <1>2, RunFlushes
<1>4. /\ r.stale = {} => person = Old(r)
      /\ HandlerOK(r) /\ EventOK(accountName, spoken, edits, r.event)
      /\ ColsOK(accountName, spoken, Old(r)) /\ ColsOK(accountName, spoken, New(r))
  BY Zenon, <1>2 DEF RunOK
<1>5. DOMAIN running' = Pollers /\ running'[q] = NoRun
  BY Zenon, <1>1, <1>2 DEF Others, RunsOK
<1> HIDE DEF r
<1>6. ASSUME NEW o \in Pollers, o # q
      PROVE  /\ running[o] = NoRun => running'[o] = NoRun
             /\ running[o] # NoRun =>
                  /\ running'[o].event = running[o].event /\ running'[o].writes = running[o].writes
                  /\ RunOK(accountName, spoken, edits, person', running'[o])
                  /\ running'[o].stale = {} => ~Changes(r) /\ running'[o] = running[o]
  <2>1. CASE Changes(r)
    <3>1. running'[o] = Others(q)[o]
      BY Zenon, <1>1, <1>6, <2>1 DEF Others
    <3>2. LET s == Others(q)[o] IN
            /\ running[o] = NoRun => s = NoRun
            /\ running[o] # NoRun =>
                 /\ s.event = running[o].event /\ s.writes = running[o].writes /\ s.stale # {}
                 /\ RunOK(accountName, spoken, edits, person', s)
      BY Zenon, <1>2, <1>6, OthersOutdated
    <3> QED
      BY Zenon, <3>1, <3>2
  <2>2. CASE ~Changes(r)
    <3>1. running'[o] = running[o] /\ person' = person
      BY Zenon, <1>1, <1>2, <1>3, <1>6, <2>2 DEF RunsOK
    <3> QED
      BY Zenon, <1>2, <2>2, <3>1 DEF RunsOK
  <2> QED
    BY Zenon, <2>1, <2>2
<1>7. RunsOK'
  BY Zenon, <1>1, <1>5, <1>6 DEF RunsOK
<1>8. TablesOK'
  BY Zenon, <1>1, <1>2, <1>3 DEF TablesOK
<1>9. ASSUME NEW x, Owed(toDispatch, running, x)
      PROVE  Owed(toDispatch', running', x) \/ (x = r.event /\ Changes(r))
  <2>1. x \in toDispatch /\ (x = r.event => Changes(r))
    BY Zenon, <1>1, <1>9 DEF Owed, r
  <2>2. x # r.event => x \in toDispatch'
    BY Zenon, <1>1, <2>1
  <2>3. \A p \in Pollers : running'[p] # NoRun /\ running'[p].event = x => Changes(running'[p])
    BY Zenon, <1>5, <1>6, <1>9 DEF Owed, Changes
  <2> QED
    BY Zenon, <2>1, <2>2, <2>3 DEF Owed
<1>10. ASSUME ~collided' PROVE ~collided /\ (Changes(r) => r.stale = {})
  BY Zenon, <1>1, <1>10
<1>11. ASSUME ~collided' PROVE NameKept'
  <2> SUFFICES ASSUME ~Owed(toDispatch', running', Renaming(accountName))
               PROVE  NothingBehind(accountName, person', running')
    BY Zenon, <1>1 DEF NameKept
  <2>1. CASE NothingBehind(accountName, person, running)
    <3>1. ~Behind(accountName, person')
      <4>1. CASE Changes(r)
        BY Zenon, <1>1, <1>3, <1>10, <1>11, <2>1, <4>1 DEF NothingBehind, r
      <4>2. CASE ~Changes(r)
        BY Zenon, <1>3, <2>1, <4>2 DEF NothingBehind
      <4> QED
        BY Zenon, <4>1, <4>2
    <3> QED
      BY Zenon, <1>5, <1>6, <2>1, <3>1 DEF NothingBehind
  <2>2. CASE Renaming(accountName) = r.event /\ Changes(r)
    <3>1. person' = New(r)
      BY ZenonT(40), <1>3, <1>10, <1>11, <2>2
    <3>2. ~Behind(accountName, person')
      BY <1>2, <1>4, <2>2, <3>1 DEF HandlerOK, EventOK, ColsOK, Behind, Renaming, TablesOK
    <3> QED
      BY Zenon, <1>5, <1>6, <2>2, <3>2 DEF NothingBehind
  <2> QED
    BY Zenon, <1>9, <1>10, <1>11, <2>1, <2>2 DEF EventsInv, NameKept
<1>12. ASSUME ~collided' PROVE TimeKept'
  <2> SUFFICES ASSUME ~Owed(toDispatch', running', Activity(spoken))
               PROVE  person'.last_contact_at = spoken
    BY Zenon, <1>1 DEF TimeKept
  <2>1. CASE person.last_contact_at = spoken /\ ~Changes(r)
    BY ZenonT(40), <1>3, <2>1
  <2>2. CASE person.last_contact_at = spoken /\ Changes(r)
    <3>1. person' = New(r) /\ person = Old(r)
      BY ZenonT(40), <1>3, <1>4, <1>10, <1>12, <2>2
    <3> QED
      BY <1>2, <1>4, <2>2, <3>1 DEF HandlerOK, EventOK, ColsOK, Cols, TablesOK
  <2>3. CASE Activity(spoken) = r.event /\ Changes(r)
    <3>1. person' = New(r)
      BY Zenon, <1>3, <1>10, <1>12, <2>3
    <3> QED
      BY <1>2, <1>4, <2>3, <3>1 DEF HandlerOK, EventOK, ColsOK, Cols, Activity, TablesOK
  <2> QED
    BY Zenon, <1>9, <1>10, <1>12, <2>1, <2>2, <2>3 DEF EventsInv, TimeKept
<1>13. ASSUME ~collided' PROVE EditKept'
  <2> SUFFICES ASSUME ~Owed(toDispatch', running', Edit(edits))
               PROVE  person'.company # Nameless
    BY Zenon, <1>1 DEF EditKept
  <2>1. CASE person.company # Nameless /\ ~Changes(r)
    BY ZenonT(40), <1>3, <2>1
  <2>2. CASE person.company # Nameless /\ Changes(r)
    <3>1. person' = New(r) /\ person = Old(r)
      BY ZenonT(40), <1>3, <1>4, <1>10, <1>13, <2>2
    <3> QED
      BY Zenon, <1>4, <2>2, <3>1, EventsAssumption DEF HandlerOK, EventOK
  <2>3. CASE Edit(edits) = r.event /\ Changes(r)
    <3>1. person' = New(r)
      BY ZenonT(40), <1>3, <1>10, <1>13, <2>3
    <3>2. Old(r) # New(r) /\ r.event.type = "contact.updated"
      <4>1. Edit(edits).type = "contact.updated"
        BY Zenon DEF Edit
      <4>2. Old(r) # New(r)
        BY Zenon, <2>3 DEF Changes, Old, New
      <4> QED
        BY Zenon, <2>3, <4>1, <4>2
    <3> QED
      BY Zenon, <1>4, <3>1, <3>2, EventsAssumption DEF HandlerOK
  <2> QED
    BY Zenon, <1>9, <1>10, <1>13, <2>1, <2>2, <2>3 DEF EventsInv, EditKept
<1> QED
  BY Zenon, <1>7, <1>8, <1>11, <1>12, <1>13 DEF EventsInv

(* Every step keeps EventsInv.                                              *)
LEMMA EventsNext_Inv == EventsInv /\ [EventsNext]_eventVars => EventsInv'
<1> SUFFICES ASSUME EventsInv, [EventsNext]_eventVars PROVE EventsInv'
  OBVIOUS
<1>1. CASE UNCHANGED eventVars
  BY Zenon, <1>1 DEF eventVars, EventsInv, TablesOK, RunsOK, NameKept, TimeKept, EditKept
<1>2. CASE EventsNext
  BY Zenon, <1>2, RenameStep, EditStep, ActivityStep, RunStep, FinishStep DEF EventsNext
<1> QED
  BY Zenon, <1>1, <1>2

(* EventsInv holds throughout.                                              *)
THEOREM EventsInvariant == EventsSpec => []EventsInv
<1> QED
  BY EventsInit_Inv, EventsNext_Inv, PTL DEF EventsSpec

(* Whatever the order in which the relay delivers the events and however    *)
(* often, with any number of pollers: once all are handled, and unless two  *)
(* writers collided on the row, the contact shows the account's present     *)
(* name or a person's own and the last time it was spoken to.               *)
THEOREM HandlersDoConverge == EventsSpec => []HandlersConverge
<1>1. EventsInv => HandlersConverge
  <2> SUFFICES ASSUME EventsInv, toDispatch = {}, ~collided
               PROVE  person.company \in {accountName, Own} /\ person.last_contact_at = spoken
    BY Zenon DEF HandlersConverge
  <2>1. \A e : ~Owed(toDispatch, running, e)
    BY Zenon DEF Owed
  <2>2. /\ ~Behind(accountName, person) /\ person.last_contact_at = spoken /\ person.company # Nameless
    BY Zenon, <2>1 DEF EventsInv, NameKept, TimeKept, EditKept, NothingBehind
  <2>3. person.company \in Nat \cup {Nameless, Own}
    BY DEF EventsInv, TablesOK, ColsOK, Cols
  <2> QED
    BY Zenon, <2>2, <2>3 DEF Behind
<1> QED
  BY <1>1, EventsInvariant, PTL
=============================================================================
