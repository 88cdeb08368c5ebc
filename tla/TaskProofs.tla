----------------------------- MODULE TaskProofs -----------------------------
(***************************************************************************)
(* Tasks and the files they scan, for any number of tasks, workers, files  *)
(* and requests: no task vanishes and retries stay within their budget     *)
(* (TaskDelivery), a file that is released is clean, a verdict is final    *)
(* and the status of a document has its timestamps (Files).                *)
(***************************************************************************)
EXTENDS TaskDelivery, Files, FiniteSetTheorems, TLAPS

(* TaskDelivery. NothingVanishes is inductive relative to TypeOK: a letter  *)
(* that is just being replayed already does not count, so marking it        *)
(* replayed takes nothing away.                                             *)

(* A worker that retries has an attempt left: should_retry (retry.py:42).   *)
RetryHasRoom == \A w \in Workers : pc[w] = "retrying" => attempt[w] < max_attempts

Typed == TypeOK /\ RetryHasRoom

(* Every action keeps the types (base.py, reliability.py).                  *)
LEMMA TypeStep == Typed /\ [Next]_vars => Typed'
<1> SUFFICES ASSUME Typed, [Next]_vars PROVE Typed'
  OBVIOUS
<1>0. 1 \in Attempts
  BY TaskAssumption DEF Attempts
<1> USE DEF Typed, RetryHasRoom, TypeOK, vars, worker, letters, operators, bounds
<1>1. ASSUME NEW t \in Tasks, ApplyAsync(t) PROVE Typed'
  <2>1. queue' \in [Tasks -> [Attempts -> Nat]]
    BY <1>0, <1>1 DEF ApplyAsync, Queued
  <2> QED
    BY Zenon, <1>1, <2>1 DEF ApplyAsync
<1>2. ASSUME NEW w \in Workers, NEW t \in Tasks, NEW a \in Attempts, Refuse(w, t, a)
      PROVE Typed'
  <2>1. queue' \in [Tasks -> [Attempts -> Nat]]
    BY <1>2 DEF Refuse, Take
  <2>2. dropped' \subseteq Tasks
    BY Zenon, <1>2 DEF Refuse
  <2> QED
    BY Zenon, <1>2, <2>1, <2>2 DEF Refuse
<1>3. ASSUME NEW w \in Workers, NEW t \in Tasks, NEW a \in Attempts, Start(w, t, a)
      PROVE Typed'
  <2>1. queue' \in [Tasks -> [Attempts -> Nat]]
    BY <1>3 DEF Start, Take
  <2>2. starts' \in [Tasks -> Nat]
    BY <1>3 DEF Start
  <2> QED
    BY Zenon, <1>3, <2>1, <2>2 DEF Start
<1>4. ASSUME NEW w \in Workers, Return(w) PROVE Typed'
  BY Zenon, <1>4 DEF Return, Continue
<1>5. ASSUME NEW w \in Workers, Raise(w) PROVE Typed'
  BY Zenon, <1>5 DEF Raise, Continue, ShouldRetry
<1>6. ASSUME NEW w \in Workers, PublishRetry(w) PROVE Typed'
  <2>1. attempt[w] + 1 \in Attempts /\ task[w] \in Tasks
    BY <1>6, TaskAssumption DEF PublishRetry, Attempts
  <2>2. queue' \in [Tasks -> [Attempts -> Nat]]
    BY <1>6, <2>1 DEF PublishRetry, Queued, NextAttempt
  <2>3. /\ pc' \in [Workers -> {"idle", "running", "retrying", "exhausted", "acking"}]
        /\ \A v \in Workers : pc'[v] # "idle" => pc[v] # "idle"
        /\ \A v \in Workers : pc'[v] = "retrying" => pc[v] = "retrying"
    BY Zenon, <1>6 DEF PublishRetry, Continue
  <2> QED
    BY Zenon, <1>6, <2>2, <2>3 DEF PublishRetry, Continue
<1>7. ASSUME NEW w \in Workers, WriteDeadLetter(w) PROVE Typed'
  BY Zenon, <1>7 DEF WriteDeadLetter, Continue
<1>8. ASSUME NEW w \in Workers, Ack(w) PROVE Typed'
  BY Zenon, <1>0, <1>8 DEF Ack, LetGo
<1>9. ASSUME NEW w \in Workers, Outage(w) PROVE Typed'
  BY <1>0, <1>9 DEF Outage, LetGo
<1>10. ASSUME NEW w \in Workers, WorkerLost(w) PROVE Typed'
  <2>1. queue' \in [Tasks -> [Attempts -> Nat]]
    BY <1>10 DEF WorkerLost, Queued
  <2> QED
    BY <1>0, <1>10, <2>1 DEF WorkerLost, LetGo
<1>11. ASSUME NEW o \in Operators, NEW l \in Letters, ReplayRead(o, l) PROVE Typed'
  BY <1>11 DEF ReplayRead
<1>12. ASSUME NEW o \in Operators, ReplaySend(o) PROVE Typed'
  <2>1. queue' \in [Tasks -> [Attempts -> Nat]]
    BY <1>0, <1>12 DEF ReplaySend, Queued
  <2> QED
    BY Zenon, <1>12, <2>1 DEF ReplaySend
<1>13. ASSUME NEW o \in Operators, ReplayCommit(o) PROVE Typed'
  BY Zenon, <1>13 DEF ReplayCommit, EndReplay
<1>14. ASSUME NEW o \in Operators, ReplayLost(o) PROVE Typed'
  <2>1. /\ lost' \in Nat
        /\ target' \in [Operators -> Letters \cup {0}]
        /\ replaying' \in [Operators -> {"idle", "read", "sent"}]
    BY <1>14 DEF ReplayLost, EndReplay
  <2>2. \A p \in Operators : replaying'[p] # "idle" =>
          replaying[p] # "idle" /\ target'[p] = target[p]
    BY Zenon, <1>14 DEF ReplayLost, EndReplay
  <2> QED
    BY Zenon, <1>14, <2>1, <2>2 DEF ReplayLost
<1>15. ASSUME NEW l \in Letters, Reap(l) PROVE Typed'
  BY Zenon, <1>15 DEF Reap
<1>16. CASE UNCHANGED vars
  BY Zenon, <1>16
<1> QED
  BY Zenon, <1>1, <1>2, <1>3, <1>4, <1>5, <1>6, <1>7, <1>8, <1>9, <1>10, <1>11, <1>12, <1>13,
     <1>14, <1>15, <1>16 DEF Next, Receive, Work
-----------------------------------------------------------------------------
(* What is published waits.                                                 *)
LEMMA Enqueued ==
  ASSUME TypeOK, NEW t \in Tasks, NEW a \in Attempts
  PROVE  Queued(t, a)[t][a] > 0
<1>1. queue[t] \in [Attempts -> Nat]
  BY Zenon DEF TypeOK
<1>2. Queued(t, a)[t][a] = queue[t][a] + 1
  BY Zenon, <1>1 DEF Queued, TypeOK
<1> QED
  BY <1>1, <1>2

(* A step that starts no task, writes or marks no letter, and takes no      *)
(* message away keeps every task that was kept.                             *)
LEMMA KeptStep ==
  ASSUME Typed, NEW t \in Tasks, Kept(t), letterTask' = letterTask,
         \A a \in Attempts : queue[t][a] > 0 => queue'[t][a] > 0,
         \A w \in Workers : task[w] = t /\ pc[w] \in {"running", "retrying", "exhausted"} =>
           task'[w] = t /\ pc'[w] \in {"running", "retrying", "exhausted"},
         \A l \in Letters : Recorded(l) => Recorded(l)'
  PROVE  Kept(t)'
  BY Zenon DEF Kept, Attempts, Letters

(* Every action keeps what it does not finish (base.py:88-122,              *)
(* reliability.py:217-238).                                                 *)
LEMMA VanishStep == Typed /\ NothingVanishes /\ [Next]_vars => NothingVanishes'
<1> SUFFICES ASSUME Typed, NothingVanishes, [Next]_vars,
                    NEW t \in sent' \ (done' \cup dropped')
             PROVE  Kept(t)'
  BY Zenon DEF NothingVanishes
<1> USE DEF vars, worker, letters, operators, bounds
<1>0. t \in Tasks /\ (t \in sent /\ t \notin done \cup dropped => Kept(t))
  <2>1. t \in Tasks
    BY Zenon, TypeStep DEF Typed, TypeOK
  <2> QED
    BY Zenon, <2>1 DEF NothingVanishes
<1>1. ASSUME NEW u \in Tasks, ApplyAsync(u) PROVE Kept(t)'
  <2>1. CASE t = u
    BY <1>1, <2>1, TaskAssumption DEF ApplyAsync, Queued, Kept, Typed, TypeOK, Attempts
  <2>2. CASE t # u
    BY Zenon, <1>0, <1>1, <2>2, KeptStep DEF ApplyAsync, Queued, Recorded, Typed, TypeOK
  <2> QED
    BY Zenon, <2>1, <2>2
<1>2. ASSUME NEW w \in Workers, NEW u \in Tasks, NEW a \in Attempts, Refuse(w, u, a)
      PROVE Kept(t)'
  BY Zenon, <1>0, <1>2, KeptStep DEF Refuse, Take, Recorded, Typed, TypeOK
<1>3. ASSUME NEW w \in Workers, NEW u \in Tasks, NEW a \in Attempts, Start(w, u, a)
      PROVE Kept(t)'
  <2>1. CASE t = u
    BY Zenon, <1>3, <2>1 DEF Start, Kept, Typed, TypeOK
  <2>2. CASE t # u
    BY Zenon, <1>0, <1>3, <2>2, KeptStep DEF Start, Take, Recorded, Typed, TypeOK
  <2> QED
    BY Zenon, <2>1, <2>2
<1>4. ASSUME NEW w \in Workers, Return(w) PROVE Kept(t)'
  BY Zenon, <1>0, <1>4, KeptStep DEF Return, Continue, Recorded, Typed, TypeOK
<1>5. ASSUME NEW w \in Workers, Raise(w) PROVE Kept(t)'
  BY Zenon, <1>0, <1>5, KeptStep DEF Raise, Continue, Recorded, Typed, TypeOK
<1>6. ASSUME NEW w \in Workers, PublishRetry(w) PROVE Kept(t)'
  <2>1. CASE t = task[w]
    <3>1. attempt[w] + 1 \in Attempts
      BY <1>6, TaskAssumption DEF PublishRetry, Typed, RetryHasRoom, TypeOK, Attempts
    <3>2. queue'[t][attempt[w] + 1] > 0
      BY Zenon, <1>0, <1>6, <2>1, <3>1, Enqueued DEF PublishRetry, NextAttempt, Typed
    <3> QED
      BY Zenon, <3>1, <3>2 DEF Kept, Attempts
  <2>2. CASE t # task[w]
    BY Zenon, <1>0, <1>6, <2>2, KeptStep DEF PublishRetry, Continue, Queued, Recorded, Typed, TypeOK
  <2> QED
    BY Zenon, <2>1, <2>2
<1>7. ASSUME NEW w \in Workers, WriteDeadLetter(w) PROVE Kept(t)'
  <2>1. PICK l \in Letters :
          /\ letter[l] = "absent"
          /\ letter' = [letter EXCEPT ![l] = "open"]
          /\ letterTask' = [letterTask EXCEPT ![l] = task[w]]
    BY Zenon, <1>7 DEF WriteDeadLetter
  <2>2. \A o \in Operators : ~(replaying'[o] = "sent" /\ target'[o] = l)
    BY Zenon, <1>7, <2>1 DEF WriteDeadLetter, Continue, Typed, TypeOK
  <2>3. CASE t = task[w]
    BY SMTT(40), <2>1, <2>2, <2>3 DEF Kept, Recorded, Typed, TypeOK, Letters
  <2>4. CASE t # task[w]
    BY <1>0, <1>7, <2>1, <2>2, <2>4
       DEF WriteDeadLetter, Continue, Kept, Recorded, Typed, TypeOK, Letters, Attempts
  <2> QED
    BY Zenon, <2>3, <2>4
<1>8. ASSUME NEW w \in Workers, Ack(w) PROVE Kept(t)'
  BY Zenon, <1>0, <1>8, KeptStep DEF Ack, LetGo, Recorded, Typed, TypeOK
<1>9. ASSUME NEW w \in Workers, Outage(w) PROVE Kept(t)'
  BY Zenon, <1>0, <1>9, KeptStep DEF Outage, LetGo, Recorded, Typed, TypeOK
<1>10. ASSUME NEW w \in Workers, WorkerLost(w) PROVE Kept(t)'
  <2>1. CASE t = task[w]
    <3>1. queue'[t][attempt[w]] > 0
      BY Zenon, <1>0, <1>10, <2>1, Enqueued DEF WorkerLost, Typed, TypeOK
    <3> QED
      BY Zenon, <3>1 DEF Kept, Typed, TypeOK, Attempts
  <2>2. CASE t # task[w]
    BY Zenon, <1>0, <1>10, <2>2, KeptStep DEF WorkerLost, LetGo, Queued, Recorded, Typed, TypeOK
  <2> QED
    BY Zenon, <2>1, <2>2
<1>11. ASSUME NEW o \in Operators, NEW l \in Letters, ReplayRead(o, l) PROVE Kept(t)'
  BY Zenon, <1>0, <1>11, KeptStep DEF ReplayRead, Recorded, Typed, TypeOK
<1>12. ASSUME NEW o \in Operators, ReplaySend(o) PROVE Kept(t)'
  <2> DEFINE u == letterTask[target[o]]
  <2>1. CASE t = u
    <3>1. 1 \in Attempts
      BY TaskAssumption DEF Attempts
    <3>2. queue'[t][1] > 0
      BY <1>0, <1>12, <2>1, <3>1 DEF ReplaySend, Queued, Typed, TypeOK
    <3> QED
      BY Zenon, <3>1, <3>2 DEF Kept, Attempts
  <2>2. CASE t # u
    <3>1. \A a \in Attempts : queue'[t][a] = queue[t][a]
      BY Zenon, <1>0, <1>12, <2>2 DEF ReplaySend, Queued, Typed, TypeOK
    <3>2. \A l \in Letters : letterTask[l] = t /\ Recorded(l) => Recorded(l)'
      BY Zenon, <1>12, <2>2 DEF ReplaySend, Recorded, Typed, TypeOK
    <3> QED
      BY Zenon, <1>0, <1>12, <3>1, <3>2 DEF ReplaySend, Kept, Attempts, Letters
  <2> QED
    BY Zenon, <2>1, <2>2
<1>13. ASSUME NEW o \in Operators, ReplayCommit(o) PROVE Kept(t)'
  <2>1. \A l \in Letters : Recorded(l) => Recorded(l)'
    BY Zenon, <1>13 DEF ReplayCommit, EndReplay, Recorded, Typed, TypeOK
  <2> QED
    BY Zenon, <1>0, <1>13, <2>1, KeptStep DEF ReplayCommit
<1>14. ASSUME NEW o \in Operators, ReplayLost(o) PROVE Kept(t)'
  <2>1. \A l \in Letters : Recorded(l) => Recorded(l)'
    BY Zenon, <1>14 DEF ReplayLost, EndReplay, Recorded, Typed, TypeOK
  <2> QED
    BY Zenon, <1>0, <1>14, <2>1, KeptStep DEF ReplayLost
<1>15. ASSUME NEW l \in Letters, Reap(l) PROVE Kept(t)'
  BY Zenon, <1>0, <1>15, KeptStep DEF Reap, Recorded, Typed, TypeOK
<1>16. CASE UNCHANGED vars
  BY Zenon, <1>0, <1>16, KeptStep DEF Recorded
<1> QED
  BY Zenon, <1>1, <1>2, <1>3, <1>4, <1>5, <1>6, <1>7, <1>8, <1>9, <1>10, <1>11, <1>12, <1>13,
     <1>14, <1>15, <1>16 DEF Next, Receive, Work

(* The strengthened invariant.                                              *)
THEOREM TaskInvariant == Spec => [](Typed /\ NothingVanishes)
<1>1. Init => Typed /\ NothingVanishes
  BY TaskAssumption DEF Init, Typed, TypeOK, RetryHasRoom, NothingVanishes, Attempts, Letters
<1> QED
  BY <1>1, TypeStep, VanishStep, PTL DEF Spec

(* Messages, workers, letters and replays keep their types.                 *)
THEOREM TypeCorrect == Spec => []TypeOK
  BY TaskInvariant, PTL DEF Typed

(* No invocation is forgotten by retries, dead letters, replays or lost     *)
(* workers (base.py:88-122, reliability.py:204-241).                        *)
THEOREM NothingIsForgotten == Spec => []NothingVanishes
  BY TaskInvariant, PTL

-----------------------------------------------------------------------------
(* Starts still to come: each message, running worker and replay about to   *)
(* be sent stands for the attempts it may still lead to, one pair each.     *)
Waiting(t) ==
  {x \in (Attempts \X Nat) \X Attempts : x[1][2] \in 1..queue[t][x[1][1]] /\ x[2] >= x[1][1]}

Running(t) ==
  {x \in Workers \X Attempts : /\ task[x[1]] = t /\ pc[x[1]] \in {"running", "retrying"}
                               /\ x[2] > attempt[x[1]]}

Replaying(t) ==
  {x \in Operators \X Attempts : replaying[x[1]] = "read" /\ letterTask[target[x[1]]] = t}

Calls(t) == IF t \in sent THEN 1 ELSE 0

(* The starts of a task, and those to come, are paid for by its enqueueing  *)
(* and by replays.                                                          *)
PaidFor(t) ==
  /\ IsFiniteSet(Waiting(t)) /\ IsFiniteSet(Running(t)) /\ IsFiniteSet(Replaying(t))
  /\ starts[t] + Cardinality(Waiting(t)) + Cardinality(Running(t)) + Cardinality(Replaying(t))
       <= max_attempts * (Calls(t) + replays)

AllPaidFor == lost = 0 => \A t \in Tasks : PaidFor(t)

(* The attempts from the a-th on.                                           *)
From(h, a) == {h} \X (a..max_attempts)

LEMMA FromCounts ==
  ASSUME NEW h, NEW a \in 1..(max_attempts + 1)
  PROVE  IsFiniteSet(From(h, a)) /\ Cardinality(From(h, a)) = max_attempts + 1 - a
<1>1. a \in Int /\ max_attempts \in Int /\ max_attempts + 1 >= a
  BY TaskAssumption
<1>2. /\ IsFiniteSet(a..max_attempts)
      /\ Cardinality(a..max_attempts) = IF a > max_attempts THEN 0 ELSE max_attempts - a + 1
  BY Zenon, <1>1, FS_Interval
<1>3. IsFiniteSet({h}) /\ Cardinality({h}) = 1
  BY Zenon, FS_Singleton
<1>4. IsFiniteSet(From(h, a)) /\ Cardinality(From(h, a)) = 1 * Cardinality(a..max_attempts)
  BY Zenon, <1>2, <1>3, FS_Product DEF From
<1>5. Cardinality(a..max_attempts) = max_attempts + 1 - a
  BY <1>1, <1>2
<1> QED
  BY <1>1, <1>4, <1>5

(* A holder of attempts is taken away, or comes in.                         *)
LEMMA TakenAway ==
  ASSUME NEW C, IsFiniteSet(C), NEW h, NEW a \in 1..(max_attempts + 1),
         From(h, a) \subseteq C, NEW D, D \subseteq C \ From(h, a)
  PROVE  /\ IsFiniteSet(D) /\ Cardinality(D) \in Nat /\ Cardinality(C) \in Nat
         /\ Cardinality(D) + (max_attempts + 1 - a) <= Cardinality(C)
<1>1. IsFiniteSet(From(h, a)) /\ Cardinality(From(h, a)) = max_attempts + 1 - a
  BY Zenon, FromCounts
<1>2. C \cap From(h, a) = From(h, a)
  BY Zenon
<1>3. /\ IsFiniteSet(C \ From(h, a))
      /\ Cardinality(C \ From(h, a)) = Cardinality(C) - Cardinality(From(h, a))
  BY Zenon, <1>2, FS_Difference
<1>4. D \in SUBSET (C \ From(h, a))
  BY Zenon
<1>5. IsFiniteSet(D) /\ Cardinality(D) <= Cardinality(C \ From(h, a))
  BY Zenon, <1>3, <1>4, FS_Subset
<1>6. Cardinality(D) \in Nat /\ Cardinality(C) \in Nat
  BY Zenon, <1>5, FS_CardinalityType
<1> QED
  BY <1>1, <1>3, <1>5, <1>6, TaskAssumption

LEMMA ComesIn ==
  ASSUME NEW C, IsFiniteSet(C), NEW h, NEW a \in 1..(max_attempts + 1),
         NEW D, D \subseteq C \cup From(h, a)
  PROVE  /\ IsFiniteSet(D) /\ Cardinality(D) \in Nat /\ Cardinality(C) \in Nat
         /\ Cardinality(D) <= Cardinality(C) + (max_attempts + 1 - a)
<1>1. IsFiniteSet(From(h, a)) /\ Cardinality(From(h, a)) = max_attempts + 1 - a
  BY Zenon, FromCounts
<1>2. /\ IsFiniteSet(C \cup From(h, a))
      /\ Cardinality(C \cup From(h, a))
           = Cardinality(C) + Cardinality(From(h, a)) - Cardinality(C \cap From(h, a))
  BY Zenon, <1>1, FS_Union
<1>3. Cardinality(C \cap From(h, a)) \in Nat
  BY Zenon, FS_Intersection, FS_CardinalityType
<1>4. D \in SUBSET (C \cup From(h, a))
  BY Zenon
<1>5. IsFiniteSet(D) /\ Cardinality(D) <= Cardinality(C \cup From(h, a))
  BY Zenon, <1>2, <1>4, FS_Subset
<1>6. Cardinality(D) \in Nat /\ Cardinality(C) \in Nat
  BY Zenon, <1>5, FS_CardinalityType
<1> QED
  BY <1>1, <1>2, <1>3, <1>5, <1>6, TaskAssumption

(* Fewer are left.                                                          *)
LEMMA NoMore ==
  ASSUME NEW C, IsFiniteSet(C), NEW D, D \subseteq C
  PROVE  /\ IsFiniteSet(D) /\ Cardinality(D) \in Nat /\ Cardinality(C) \in Nat
         /\ Cardinality(D) <= Cardinality(C)
<1>1. D \in SUBSET C
  BY Zenon
<1> QED
  BY Zenon, <1>1, FS_Subset, FS_CardinalityType

(* A message is published, or taken.                                        *)
LEMMA WaitingGrows ==
  ASSUME TypeOK, NEW u \in Tasks, NEW a \in Attempts, queue' = Queued(u, a), NEW t \in Tasks
  PROVE  /\ u # t => Waiting(t)' \subseteq Waiting(t)
         /\ u = t => \E h : Waiting(t)' \subseteq Waiting(t) \cup From(h, a)
<1>1. queue[t] \in [Attempts -> Nat] /\ a \in Nat
  BY DEF TypeOK, Attempts
<1>2. CASE u # t
  <2>1. queue'[t] = queue[t]
    BY Zenon, <1>2 DEF Queued, TypeOK
  <2> QED
    BY Zenon, <1>2, <2>1 DEF Waiting
<1>3. CASE u = t
  <2> DEFINE h == <<a, queue[t][a] + 1>>
  <2>1. /\ queue'[t][a] = queue[t][a] + 1
        /\ \A b \in Attempts \ {a} : queue'[t][b] = queue[t][b]
    BY Zenon, <1>1, <1>3 DEF Queued, TypeOK
  <2>2. ASSUME NEW x \in Waiting(t)' PROVE x \in Waiting(t) \cup From(h, a)
    <3>1. PICK b \in Attempts, n \in Nat, k \in Attempts :
            x = <<<<b, n>>, k>> /\ n \in 1..queue'[t][b] /\ k >= b
      BY <2>2 DEF Waiting
    <3>2. CASE b # a
      <4>1. n \in 1..queue[t][b]
        BY Zenon, <2>1, <3>1, <3>2
      <4> QED
        BY <3>1, <4>1 DEF Waiting
    <3>3. CASE b = a /\ n = queue[t][a] + 1
      <4>1. k \in a..max_attempts
        BY <3>1, <3>3 DEF Attempts
      <4> QED
        BY <3>1, <3>3, <4>1 DEF From
    <3>4. CASE b = a /\ n # queue[t][a] + 1
      <4>1. n \in 1..queue[t][b]
        BY <1>1, <2>1, <3>1, <3>4
      <4> QED
        BY <3>1, <4>1 DEF Waiting
    <3> QED
      BY Zenon, <3>2, <3>3, <3>4
  <2> QED
    BY Zenon, <1>3, <2>2
<1> QED
  BY Zenon, <1>2, <1>3

LEMMA WaitingShrinks ==
  ASSUME TypeOK, NEW w \in Workers, NEW u \in Tasks, NEW a \in Attempts, Take(w, u, a),
         NEW t \in Tasks
  PROVE  /\ Waiting(t)' \subseteq Waiting(t)
         /\ u = t => \E h : /\ From(h, a) \subseteq Waiting(t)
                            /\ Waiting(t)' \subseteq Waiting(t) \ From(h, a)
<1>1. queue[t] \in [Attempts -> Nat] /\ a \in Nat
  BY DEF TypeOK, Attempts
<1>2. CASE u # t
  <2>1. queue'[t] = queue[t]
    BY Zenon, <1>2 DEF Take, TypeOK
  <2> QED
    BY Zenon, <1>2, <2>1 DEF Waiting
<1>3. CASE u = t
  <2> DEFINE h == <<a, queue[t][a]>>
  <2>1. /\ queue'[t][a] = queue[t][a] - 1 /\ queue[t][a] > 0
        /\ \A b \in Attempts \ {a} : queue'[t][b] = queue[t][b]
    BY Zenon, <1>1, <1>3 DEF Take, TypeOK
  <2>2. ASSUME NEW x \in Waiting(t)' PROVE x \in Waiting(t) \ From(h, a)
    <3>1. PICK b \in Attempts, n \in Nat, k \in Attempts :
            x = <<<<b, n>>, k>> /\ n \in 1..queue'[t][b] /\ k >= b
      BY <2>2 DEF Waiting
    <3>2. n \in 1..queue[t][b] /\ <<b, n>> # h
      BY <1>1, <2>1, <3>1
    <3>3. x \in Waiting(t)
      BY <3>1, <3>2 DEF Waiting
    <3>4. x \notin From(h, a)
      BY <3>1, <3>2 DEF From
    <3> QED
      BY Zenon, <3>3, <3>4
  <2>3. ASSUME NEW x \in From(h, a) PROVE x \in Waiting(t)
    <3>1. PICK k \in a..max_attempts : x = <<h, k>>
      BY <2>3 DEF From
    <3>2. k \in Attempts /\ k >= a
      BY <3>1, TaskAssumption DEF Attempts
    <3>3. queue[t][a] \in Nat /\ queue[t][a] \in 1..queue[t][a]
      BY <1>1, <2>1
    <3> QED
      BY <3>1, <3>2, <3>3 DEF Waiting
  <2> QED
    BY Zenon, <1>3, <2>2, <2>3
<1> QED
  BY Zenon, <1>2, <1>3

LEMMA PaymentIsNat ==
  ASSUME TypeOK, NEW t \in Tasks
  PROVE  Calls(t) \in Nat /\ replays \in Nat /\ max_attempts * (Calls(t) + replays) \in Nat
<1>1. Calls(t) \in {0, 1}
  BY Zenon DEF Calls
<1>2. replays \in Nat
  BY Zenon DEF TypeOK
<1> QED
  BY <1>1, <1>2, TaskAssumption

(* The budget of a task after a step, from what the step adds and takes.    *)
LEMMA StillPaid ==
  ASSUME Typed, NEW t \in Tasks, PaidFor(t),
         Waiting(t)' \subseteq Waiting(t), Running(t)' \subseteq Running(t),
         Replaying(t)' \subseteq Replaying(t), starts' = starts, UNCHANGED <<sent, replays>>
  PROVE  PaidFor(t)'
<1>1. /\ IsFiniteSet(Waiting(t)') /\ Cardinality(Waiting(t)') <= Cardinality(Waiting(t))
      /\ Cardinality(Waiting(t)') \in Nat /\ Cardinality(Waiting(t)) \in Nat
  BY Zenon, NoMore DEF PaidFor
<1>2. /\ IsFiniteSet(Running(t)') /\ Cardinality(Running(t)') <= Cardinality(Running(t))
      /\ Cardinality(Running(t)') \in Nat /\ Cardinality(Running(t)) \in Nat
  BY Zenon, NoMore DEF PaidFor
<1>3. /\ IsFiniteSet(Replaying(t)') /\ Cardinality(Replaying(t)') <= Cardinality(Replaying(t))
      /\ Cardinality(Replaying(t)') \in Nat /\ Cardinality(Replaying(t)) \in Nat
  BY Zenon, NoMore DEF PaidFor
<1>4. PICK b \in Nat : b = max_attempts * (Calls(t) + replays)
  BY Zenon, PaymentIsNat DEF Typed
<1>5. max_attempts * (Calls(t)' + replays') = b
  BY Zenon, <1>4 DEF Calls
<1>6. starts[t] + Cardinality(Waiting(t)) + Cardinality(Running(t)) + Cardinality(Replaying(t)) <= b
  BY Zenon, <1>4 DEF PaidFor
<1>7. starts[t] \in Nat
  BY Zenon DEF Typed, TypeOK
<1>8. starts'[t] + Cardinality(Waiting(t)') + Cardinality(Running(t)') + Cardinality(Replaying(t)') <= b
  BY <1>1, <1>2, <1>3, <1>6, <1>7
<1> QED
  BY Zenon, <1>1, <1>2, <1>3, <1>5, <1>8 DEF PaidFor

(* The attempts of workers and replays that a step leaves alone.            *)
LEMMA RunningStays ==
  ASSUME NEW t \in Tasks, \A w \in Workers : task'[w] = t /\ pc'[w] \in {"running", "retrying"} =>
           task[w] = t /\ pc[w] \in {"running", "retrying"} /\ attempt'[w] = attempt[w]
  PROVE  Running(t)' \subseteq Running(t)
<1> SUFFICES ASSUME NEW x \in Running(t)' PROVE x \in Running(t)
  BY Zenon
<1>1. PICK w \in Workers, k \in Attempts :
        x = <<w, k>> /\ task'[w] = t /\ pc'[w] \in {"running", "retrying"} /\ k > attempt'[w]
  BY DEF Running
<1>2. task[w] = t /\ pc[w] \in {"running", "retrying"} /\ k > attempt[w]
  BY Zenon, <1>1
<1> QED
  BY <1>1, <1>2 DEF Running

LEMMA ReplayingStays ==
  ASSUME NEW t \in Tasks,
         \A o \in Operators : replaying'[o] = "read" =>
           replaying[o] = "read" /\ letterTask'[target'[o]] = letterTask[target[o]]
  PROVE  Replaying(t)' \subseteq Replaying(t)
<1> SUFFICES ASSUME NEW x \in Replaying(t)' PROVE x \in Replaying(t)
  BY Zenon
<1>1. PICK o \in Operators, k \in Attempts :
        x = <<o, k>> /\ replaying'[o] = "read" /\ letterTask'[target'[o]] = t
  BY DEF Replaying
<1>2. replaying[o] = "read" /\ letterTask[target[o]] = t
  BY Zenon, <1>1
<1> QED
  BY <1>1, <1>2 DEF Replaying

(* ApplyAsync pays for max_attempts starts.                                 *)
LEMMA PaidByCall ==
  ASSUME Typed, NEW u \in Tasks, ApplyAsync(u), NEW t \in Tasks, PaidFor(t)
  PROVE  PaidFor(t)'
<1>0. 1 \in Attempts /\ 1 \in 1..(max_attempts + 1)
  BY TaskAssumption DEF Attempts
<1>1. /\ queue' = Queued(u, 1) /\ sent' = sent \cup {u} /\ u \notin sent
      /\ pc' = pc /\ task' = task /\ attempt' = attempt /\ starts' = starts
      /\ replaying' = replaying /\ target' = target /\ letterTask' = letterTask /\ replays' = replays
  BY Zenon DEF ApplyAsync, worker, operators, letters, bounds
<1>2. Running(t)' = Running(t) /\ Replaying(t)' = Replaying(t)
  BY Zenon, <1>1 DEF Running, Replaying
<1>3. CASE u # t
  <2>1. Waiting(t)' \subseteq Waiting(t)
    BY Zenon, <1>0, <1>1, <1>3, WaitingGrows DEF Typed
  <2>2. Calls(t)' = Calls(t)
    BY Zenon, <1>1, <1>3 DEF Calls
  <2>3. /\ IsFiniteSet(Waiting(t)') /\ Cardinality(Waiting(t)') <= Cardinality(Waiting(t))
        /\ Cardinality(Waiting(t)') \in Nat /\ Cardinality(Waiting(t)) \in Nat
    BY Zenon, <2>1, NoMore DEF PaidFor
  <2>4. Cardinality(Running(t)) \in Nat /\ Cardinality(Replaying(t)) \in Nat /\ starts[t] \in Nat
    BY Zenon, FS_CardinalityType DEF PaidFor, Typed, TypeOK
  <2>5. PICK b \in Nat : b = max_attempts * (Calls(t) + replays)
    BY Zenon, PaymentIsNat DEF Typed
  <2>6. starts[t] + Cardinality(Waiting(t)) + Cardinality(Running(t)) + Cardinality(Replaying(t)) <= b
    BY Zenon, <2>5 DEF PaidFor
  <2>7. starts[t] + Cardinality(Waiting(t)') + Cardinality(Running(t)) + Cardinality(Replaying(t)) <= b
    BY <2>3, <2>4, <2>6
  <2> QED
    BY Zenon, <1>1, <1>2, <2>2, <2>3, <2>5, <2>7 DEF PaidFor
<1>4. CASE u = t
  <2>1. PICK h : Waiting(t)' \subseteq Waiting(t) \cup From(h, 1)
    BY Zenon, <1>0, <1>1, <1>4, WaitingGrows DEF Typed
  <2>2. Calls(t) = 0 /\ Calls(t)' = 1
    BY Zenon, <1>1, <1>4 DEF Calls
  <2>3. /\ IsFiniteSet(Waiting(t)')
        /\ Cardinality(Waiting(t)') <= Cardinality(Waiting(t)) + (max_attempts + 1 - 1)
        /\ Cardinality(Waiting(t)') \in Nat /\ Cardinality(Waiting(t)) \in Nat
    BY Zenon, <1>0, <2>1, ComesIn DEF PaidFor
  <2>4. Cardinality(Running(t)) \in Nat /\ Cardinality(Replaying(t)) \in Nat /\ starts[t] \in Nat
    BY Zenon, FS_CardinalityType DEF PaidFor, Typed, TypeOK
  <2>5. PICK b \in Nat : b = max_attempts * (0 + replays)
    BY TaskAssumption DEF Typed, TypeOK
  <2>6. starts[t] + Cardinality(Waiting(t)) + Cardinality(Running(t)) + Cardinality(Replaying(t)) <= b
    BY Zenon, <2>2, <2>5 DEF PaidFor
  <2>7. max_attempts * (1 + replays) = b + max_attempts
    BY <2>5, TaskAssumption DEF Typed, TypeOK
  <2>8. starts[t] + Cardinality(Waiting(t)') + Cardinality(Running(t)) + Cardinality(Replaying(t))
          <= max_attempts * (1 + replays)
    BY <2>3, <2>4, <2>6, <2>7, TaskAssumption
  <2> QED
    BY Zenon, <1>1, <1>2, <2>2, <2>3, <2>8 DEF PaidFor
<1> QED
  BY Zenon, <1>3, <1>4

(* Reading a letter to replay it pays for max_attempts starts more.         *)
LEMMA PaidByReplay ==
  ASSUME Typed, NEW o \in Operators, NEW l \in Letters, ReplayRead(o, l),
         NEW t \in Tasks, PaidFor(t)
  PROVE  PaidFor(t)'
<1>0. 1 \in 1..(max_attempts + 1)
  BY TaskAssumption
<1>1. /\ queue' = queue /\ sent' = sent /\ pc' = pc /\ task' = task /\ attempt' = attempt
      /\ starts' = starts /\ letterTask' = letterTask /\ replays' = replays + 1
      /\ replaying' = [replaying EXCEPT ![o] = "read"] /\ target' = [target EXCEPT ![o] = l]
  BY Zenon DEF ReplayRead, worker, letters
<1>2. Running(t)' = Running(t) /\ Waiting(t)' = Waiting(t) /\ Calls(t)' = Calls(t)
  BY Zenon, <1>1 DEF Running, Waiting, Calls
<1>3. Replaying(t)' \subseteq Replaying(t) \cup From(o, 1)
  <2> SUFFICES ASSUME NEW x \in Replaying(t)' PROVE x \in Replaying(t) \cup From(o, 1)
    BY Zenon
  <2>1. PICK p \in Operators, k \in Attempts :
          x = <<p, k>> /\ replaying'[p] = "read" /\ letterTask'[target'[p]] = t
    BY DEF Replaying
  <2>2. CASE p = o
    BY SMTT(40), <2>1, <2>2 DEF From, Attempts
  <2>3. CASE p # o
    <3>1. replaying[p] = "read" /\ letterTask[target[p]] = t
      BY Zenon, <1>1, <2>1, <2>3 DEF Typed, TypeOK
    <3> QED
      BY <2>1, <3>1 DEF Replaying
  <2> QED
    BY Zenon, <2>2, <2>3
<1>4. /\ IsFiniteSet(Replaying(t)')
      /\ Cardinality(Replaying(t)') <= Cardinality(Replaying(t)) + (max_attempts + 1 - 1)
      /\ Cardinality(Replaying(t)') \in Nat /\ Cardinality(Replaying(t)) \in Nat
  BY Zenon, <1>0, <1>3, ComesIn DEF PaidFor
<1>5. Cardinality(Running(t)) \in Nat /\ Cardinality(Waiting(t)) \in Nat /\ starts[t] \in Nat
  BY Zenon, FS_CardinalityType DEF PaidFor, Typed, TypeOK
<1>6. PICK b \in Nat : b = max_attempts * (Calls(t) + replays)
  BY Zenon, PaymentIsNat DEF Typed
<1>7. starts[t] + Cardinality(Waiting(t)) + Cardinality(Running(t)) + Cardinality(Replaying(t)) <= b
  BY Zenon, <1>6 DEF PaidFor
<1>8. max_attempts * (Calls(t) + (replays + 1)) = b + max_attempts
  <2>1. Calls(t) \in Nat /\ replays \in Nat
    BY Zenon, PaymentIsNat DEF Typed
  <2> QED
    BY <1>6, <2>1, TaskAssumption
<1>9. starts[t] + Cardinality(Waiting(t)) + Cardinality(Running(t)) + Cardinality(Replaying(t)')
        <= max_attempts * (Calls(t) + (replays + 1))
  BY <1>4, <1>5, <1>7, <1>8, TaskAssumption
<1> QED
  BY Zenon, <1>1, <1>2, <1>4, <1>9 DEF PaidFor

(* Steps that move a task's attempts from one holder to another.            *)
LEMMA PaidAsMuch ==
  ASSUME Typed, NEW t \in Tasks, PaidFor(t), UNCHANGED <<sent, replays>>,
         IsFiniteSet(Waiting(t)'), IsFiniteSet(Running(t)'), IsFiniteSet(Replaying(t)'),
         starts'[t] + Cardinality(Waiting(t)') + Cardinality(Running(t)') + Cardinality(Replaying(t)')
           <= starts[t] + Cardinality(Waiting(t)) + Cardinality(Running(t)) + Cardinality(Replaying(t)),
         starts'[t] \in Nat
  PROVE  PaidFor(t)'
<1>1. /\ Cardinality(Waiting(t)') \in Nat /\ Cardinality(Running(t)') \in Nat
      /\ Cardinality(Replaying(t)') \in Nat
      /\ Cardinality(Waiting(t)) \in Nat /\ Cardinality(Running(t)) \in Nat
      /\ Cardinality(Replaying(t)) \in Nat /\ starts[t] \in Nat
  BY Zenon, FS_CardinalityType DEF PaidFor, Typed, TypeOK
<1>2. PICK b \in Nat : b = max_attempts * (Calls(t) + replays)
  BY Zenon, PaymentIsNat DEF Typed
<1>3. starts[t] + Cardinality(Waiting(t)) + Cardinality(Running(t)) + Cardinality(Replaying(t)) <= b
  BY Zenon, <1>2 DEF PaidFor
<1>4. starts'[t] + Cardinality(Waiting(t)') + Cardinality(Running(t)') + Cardinality(Replaying(t)') <= b
  BY <1>1, <1>3
<1>5. max_attempts * (Calls(t)' + replays') = b
  BY Zenon, <1>2 DEF Calls
<1> QED
  BY Zenon, <1>4, <1>5 DEF PaidFor

LEMMA PaidStart ==
  ASSUME Typed, NEW w \in Workers, NEW u \in Tasks, NEW a \in Attempts, Start(w, u, a),
         NEW t \in Tasks, PaidFor(t)
  PROVE  PaidFor(t)'
<1>0. a \in 1..(max_attempts + 1) /\ a + 1 \in 1..(max_attempts + 1) /\ a \in Nat
  BY TaskAssumption DEF Attempts
<1>1. /\ Take(w, u, a) /\ pc[w] = "idle"
      /\ pc' = [pc EXCEPT ![w] = "running"] /\ task' = [task EXCEPT ![w] = u]
      /\ attempt' = [attempt EXCEPT ![w] = a] /\ starts' = [starts EXCEPT ![u] = @ + 1]
      /\ sent' = sent /\ letterTask' = letterTask /\ replaying' = replaying /\ target' = target
      /\ replays' = replays
  BY Zenon DEF Start, Take, letters, operators, bounds
<1>2. Replaying(t)' = Replaying(t)
  BY Zenon, <1>1 DEF Replaying
<1>3. CASE u # t
  <2>1. Waiting(t)' \subseteq Waiting(t)
    BY Zenon, <1>1, WaitingShrinks DEF Typed
  <2>2. Running(t)' \subseteq Running(t)
    BY Zenon, <1>1, <1>3, RunningStays DEF Typed, TypeOK
  <2>3. starts'[t] = starts[t] /\ starts[t] \in Nat
    BY Zenon, <1>1, <1>3 DEF Typed, TypeOK
  <2>4. /\ IsFiniteSet(Waiting(t)') /\ Cardinality(Waiting(t)') <= Cardinality(Waiting(t))
        /\ Cardinality(Waiting(t)') \in Nat /\ Cardinality(Waiting(t)) \in Nat
        /\ IsFiniteSet(Running(t)') /\ Cardinality(Running(t)') <= Cardinality(Running(t))
        /\ Cardinality(Running(t)') \in Nat /\ Cardinality(Running(t)) \in Nat
    BY Zenon, <2>1, <2>2, NoMore DEF PaidFor
  <2>5. Cardinality(Replaying(t)) \in Nat
    BY Zenon, FS_CardinalityType DEF PaidFor
  <2>6. starts[t] + Cardinality(Waiting(t)') + Cardinality(Running(t)') + Cardinality(Replaying(t))
          <= starts[t] + Cardinality(Waiting(t)) + Cardinality(Running(t)) + Cardinality(Replaying(t))
    BY <2>3, <2>4, <2>5
  <2> QED
    BY Zenon, <1>1, <1>2, <2>3, <2>4, <2>6, PaidAsMuch DEF PaidFor
<1>4. CASE u = t
  <2>1. PICK h : From(h, a) \subseteq Waiting(t) /\ Waiting(t)' \subseteq Waiting(t) \ From(h, a)
    BY Zenon, <1>1, <1>4, WaitingShrinks DEF Typed
  <2>2. Running(t)' \subseteq Running(t) \cup From(w, a + 1)
    <3> SUFFICES ASSUME NEW x \in Running(t)' PROVE x \in Running(t) \cup From(w, a + 1)
      BY Zenon
    <3>1. PICK v \in Workers, k \in Attempts :
            x = <<v, k>> /\ task'[v] = t /\ pc'[v] \in {"running", "retrying"} /\ k > attempt'[v]
      BY DEF Running
    <3>2. CASE v = w
      <4>1. k > a
        BY Zenon, <1>1, <3>1, <3>2 DEF Typed, TypeOK
      <4>2. k \in (a + 1)..max_attempts
        BY <1>0, <4>1, TaskAssumption DEF Attempts
      <4> QED
        BY <3>1, <3>2, <4>2 DEF From
    <3>3. CASE v # w
      <4>1. task[v] = t /\ pc[v] \in {"running", "retrying"} /\ k > attempt[v]
        BY Zenon, <1>1, <3>1, <3>3 DEF Typed, TypeOK
      <4> QED
        BY <3>1, <4>1 DEF Running
    <3> QED
      BY Zenon, <3>2, <3>3
  <2>3. starts'[t] = starts[t] + 1 /\ starts[t] \in Nat
    BY Zenon, <1>1, <1>4 DEF Typed, TypeOK
  <2>4. /\ IsFiniteSet(Waiting(t)')
        /\ Cardinality(Waiting(t)') + (max_attempts + 1 - a) <= Cardinality(Waiting(t))
        /\ Cardinality(Waiting(t)') \in Nat /\ Cardinality(Waiting(t)) \in Nat
    BY Zenon, <1>0, <2>1, TakenAway DEF PaidFor
  <2>5. /\ IsFiniteSet(Running(t)')
        /\ Cardinality(Running(t)') <= Cardinality(Running(t)) + (max_attempts + 1 - (a + 1))
        /\ Cardinality(Running(t)') \in Nat /\ Cardinality(Running(t)) \in Nat
    BY Zenon, <1>0, <2>2, ComesIn DEF PaidFor
  <2>6. Cardinality(Replaying(t)) \in Nat
    BY Zenon, FS_CardinalityType DEF PaidFor
  <2>7. starts'[t] + Cardinality(Waiting(t)') + Cardinality(Running(t)') + Cardinality(Replaying(t))
          <= starts[t] + Cardinality(Waiting(t)) + Cardinality(Running(t)) + Cardinality(Replaying(t))
    BY <1>0, <2>3, <2>4, <2>5, <2>6, TaskAssumption
  <2>8. starts'[t] \in Nat
    BY <2>3
  <2> QED
    BY Zenon, <1>1, <1>2, <2>4, <2>5, <2>7, <2>8, PaidAsMuch DEF PaidFor
<1> QED
  BY Zenon, <1>3, <1>4

LEMMA PaidRetry ==
  ASSUME Typed, NEW w \in Workers, PublishRetry(w), NEW t \in Tasks, PaidFor(t)
  PROVE  PaidFor(t)'
<1>0. PICK u \in Tasks, a \in Attempts : u = task[w] /\ a = attempt[w] /\ a + 1 \in Attempts
  <2>1. task[w] \in Tasks /\ attempt[w] \in Attempts /\ attempt[w] < max_attempts
    BY Zenon DEF PublishRetry, Typed, TypeOK, RetryHasRoom
  <2>2. attempt[w] + 1 \in Attempts
    BY <2>1, TaskAssumption DEF Attempts
  <2> QED
    BY Zenon, <2>1, <2>2
<1>1. /\ pc[w] = "retrying" /\ queue' = Queued(u, a + 1) /\ pc' = [pc EXCEPT ![w] = "acking"]
      /\ task' = task /\ attempt' = attempt /\ starts' = starts /\ sent' = sent
      /\ letterTask' = letterTask /\ replaying' = replaying /\ target' = target /\ replays' = replays
  BY Zenon, <1>0 DEF PublishRetry, NextAttempt, Continue, letters, operators, bounds
<1>2. Replaying(t)' \subseteq Replaying(t)
  BY Zenon, <1>1, ReplayingStays
<1>3. \A v \in Workers : pc'[v] \in {"running", "retrying"} => v # w /\ pc[v] \in {"running", "retrying"}
  BY <1>1 DEF Typed, TypeOK
<1>4. Running(t)' \subseteq Running(t)
  BY Zenon, <1>1, <1>3, RunningStays
<1>5. CASE u # t
  <2>1. Waiting(t)' \subseteq Waiting(t)
    BY Zenon, <1>0, <1>1, <1>5, WaitingGrows DEF Typed
  <2> QED
    BY Zenon, <1>1, <1>2, <1>4, <2>1, StillPaid
<1>6. CASE u = t
  <2>1. a + 1 \in 1..(max_attempts + 1)
    BY <1>0, TaskAssumption DEF Attempts
  <2>2. PICK h : Waiting(t)' \subseteq Waiting(t) \cup From(h, a + 1)
    BY Zenon, <1>0, <1>1, <1>6, WaitingGrows DEF Typed
  <2>3. From(w, a + 1) \subseteq Running(t)
    <3> SUFFICES ASSUME NEW x \in From(w, a + 1) PROVE x \in Running(t)
      BY Zenon
    <3>1. PICK k \in (a + 1)..max_attempts : x = <<w, k>>
      BY DEF From
    <3>2. k \in Attempts /\ k > a
      BY <1>0, <3>1, TaskAssumption DEF Attempts
    <3> QED
      BY Zenon, <1>0, <1>1, <1>6, <3>1, <3>2 DEF Running
  <2>4. Running(t)' \subseteq Running(t) \ From(w, a + 1)
    <3> SUFFICES ASSUME NEW x \in Running(t)' PROVE x \notin From(w, a + 1)
      BY Zenon, <1>4
    <3>1. PICK v \in Workers, k \in Attempts : x = <<v, k>> /\ pc'[v] \in {"running", "retrying"}
      BY DEF Running
    <3>2. v # w
      BY Zenon, <1>3, <3>1
    <3> QED
      BY <3>1, <3>2 DEF From
  <2>5. /\ IsFiniteSet(Waiting(t)')
        /\ Cardinality(Waiting(t)') <= Cardinality(Waiting(t)) + (max_attempts + 1 - (a + 1))
        /\ Cardinality(Waiting(t)') \in Nat /\ Cardinality(Waiting(t)) \in Nat
    BY Zenon, <2>1, <2>2, ComesIn DEF PaidFor
  <2>6. /\ IsFiniteSet(Running(t)')
        /\ Cardinality(Running(t)') + (max_attempts + 1 - (a + 1)) <= Cardinality(Running(t))
        /\ Cardinality(Running(t)') \in Nat /\ Cardinality(Running(t)) \in Nat
    BY Zenon, <2>1, <2>3, <2>4, TakenAway DEF PaidFor
  <2>7. /\ IsFiniteSet(Replaying(t)') /\ Cardinality(Replaying(t)') <= Cardinality(Replaying(t))
        /\ Cardinality(Replaying(t)') \in Nat /\ Cardinality(Replaying(t)) \in Nat
    BY Zenon, <1>2, NoMore DEF PaidFor
  <2>8. starts'[t] \in Nat /\ starts'[t] = starts[t]
    BY Zenon, <1>1 DEF Typed, TypeOK
  <2>9. starts'[t] + Cardinality(Waiting(t)') + Cardinality(Running(t)') + Cardinality(Replaying(t)')
          <= starts[t] + Cardinality(Waiting(t)) + Cardinality(Running(t)) + Cardinality(Replaying(t))
    BY <2>1, <2>5, <2>6, <2>7, <2>8, TaskAssumption
  <2> QED
    BY Zenon, <1>1, <2>5, <2>6, <2>7, <2>8, <2>9, PaidAsMuch
<1> QED
  BY Zenon, <1>5, <1>6

LEMMA PaidSend ==
  ASSUME Typed, NEW o \in Operators, ReplaySend(o), NEW t \in Tasks, PaidFor(t)
  PROVE  PaidFor(t)'
<1>0. 1 \in Attempts /\ 1 \in 1..(max_attempts + 1)
  BY TaskAssumption DEF Attempts
<1>a. replaying[o] = "read"
  BY Zenon DEF ReplaySend
<1>b. PICK u \in Tasks : u = letterTask[target[o]]
  BY Zenon, <1>a DEF Typed, TypeOK
<1>1. /\ queue' = Queued(u, 1) /\ pc' = pc /\ task' = task /\ attempt' = attempt
      /\ starts' = starts /\ sent' = sent /\ letterTask' = letterTask
      /\ replaying' = [replaying EXCEPT ![o] = "sent"] /\ target' = target /\ replays' = replays
  BY Zenon, <1>b DEF ReplaySend, worker, letters, bounds
<1>2. Running(t)' = Running(t)
  BY Zenon, <1>1 DEF Running
<1>3. \A p \in Operators : replaying'[p] = "read" => p # o /\ replaying[p] = "read"
  BY <1>1 DEF Typed, TypeOK
<1>4. Replaying(t)' \subseteq Replaying(t)
  BY Zenon, <1>1, <1>3, ReplayingStays
<1>5. CASE u # t
  <2>1. Waiting(t)' \subseteq Waiting(t)
    BY Zenon, <1>0, <1>1, <1>5, WaitingGrows DEF Typed
  <2> QED
    BY Zenon, <1>1, <1>2, <1>4, <2>1, StillPaid
<1>6. CASE u = t
  <2>2. PICK h : Waiting(t)' \subseteq Waiting(t) \cup From(h, 1)
    BY Zenon, <1>0, <1>1, <1>6, WaitingGrows DEF Typed
  <2>3. From(o, 1) \subseteq Replaying(t)
    <3> SUFFICES ASSUME NEW x \in From(o, 1) PROVE x \in Replaying(t)
      BY Zenon
    <3>1. PICK k \in 1..max_attempts : x = <<o, k>>
      BY DEF From
    <3> QED
      BY Zenon, <1>a, <1>b, <1>6, <3>1 DEF Replaying, Attempts
  <2>4. Replaying(t)' \subseteq Replaying(t) \ From(o, 1)
    <3> SUFFICES ASSUME NEW x \in Replaying(t)' PROVE x \notin From(o, 1)
      BY Zenon, <1>4
    <3>1. PICK p \in Operators, k \in Attempts : x = <<p, k>> /\ replaying'[p] = "read"
      BY DEF Replaying
    <3>2. p # o
      BY Zenon, <1>3, <3>1
    <3> QED
      BY <3>1, <3>2 DEF From
  <2>5. /\ IsFiniteSet(Waiting(t)')
        /\ Cardinality(Waiting(t)') <= Cardinality(Waiting(t)) + (max_attempts + 1 - 1)
        /\ Cardinality(Waiting(t)') \in Nat /\ Cardinality(Waiting(t)) \in Nat
    BY Zenon, <1>0, <2>2, ComesIn DEF PaidFor
  <2>6. /\ IsFiniteSet(Replaying(t)')
        /\ Cardinality(Replaying(t)') + (max_attempts + 1 - 1) <= Cardinality(Replaying(t))
        /\ Cardinality(Replaying(t)') \in Nat /\ Cardinality(Replaying(t)) \in Nat
    BY Zenon, <1>0, <2>3, <2>4, TakenAway DEF PaidFor
  <2>7. Cardinality(Running(t)) \in Nat
    BY Zenon, FS_CardinalityType DEF PaidFor
  <2>8. starts'[t] \in Nat /\ starts'[t] = starts[t]
    BY Zenon, <1>1 DEF Typed, TypeOK
  <2>9. starts'[t] + Cardinality(Waiting(t)') + Cardinality(Running(t)) + Cardinality(Replaying(t)')
          <= starts[t] + Cardinality(Waiting(t)) + Cardinality(Running(t)) + Cardinality(Replaying(t))
    BY <2>5, <2>6, <2>7, <2>8, TaskAssumption
  <2> QED
    BY Zenon, <1>1, <1>2, <2>5, <2>6, <2>8, <2>9, PaidAsMuch DEF PaidFor
<1> QED
  BY Zenon, <1>5, <1>6

(* A step after which no attempt is owed that was not owed before.          *)
LEMMA PaidAlready ==
  ASSUME Typed, NEW t \in Tasks, PaidFor(t), Waiting(t)' \subseteq Waiting(t),
         \A w \in Workers : pc'[w] \in {"running", "retrying"} =>
           pc[w] \in {"running", "retrying"} /\ task'[w] = task[w] /\ attempt'[w] = attempt[w],
         \A o \in Operators : replaying'[o] = "read" =>
           replaying[o] = "read" /\ letterTask'[target'[o]] = letterTask[target[o]],
         UNCHANGED <<starts, sent, replays>>
  PROVE  PaidFor(t)'
<1>1. Running(t)' \subseteq Running(t)
  BY Zenon, RunningStays
<1>2. Replaying(t)' \subseteq Replaying(t)
  BY Zenon, ReplayingStays
<1> QED
  BY Zenon, <1>1, <1>2, StillPaid

LEMMA PaidStep ==
  ASSUME Typed, [Next]_vars, lost' = 0, lost = 0, NEW t \in Tasks, PaidFor(t)
  PROVE  PaidFor(t)'
<1> USE DEF worker, letters, operators, bounds
<1> DEFINE Owes == \A w \in Workers : pc'[w] \in {"running", "retrying"} =>
             pc[w] \in {"running", "retrying"} /\ task'[w] = task[w] /\ attempt'[w] = attempt[w]
           Reads == \A o \in Operators : replaying'[o] = "read" =>
             replaying[o] = "read" /\ letterTask'[target'[o]] = letterTask[target[o]]
<1>w. queue' = queue => Waiting(t)' \subseteq Waiting(t)
  BY Zenon DEF Waiting
<1>r. UNCHANGED <<letterTask, replaying, target>> => Reads
  BY Zenon
<1>o. UNCHANGED <<pc, task, attempt>> => Owes
  BY Zenon
<1>1. ASSUME NEW u \in Tasks, ApplyAsync(u) PROVE PaidFor(t)'
  BY Zenon, <1>1, PaidByCall
<1>2. ASSUME NEW w \in Workers, NEW u \in Tasks, NEW a \in Attempts, Refuse(w, u, a) PROVE PaidFor(t)'
  <2>1. Waiting(t)' \subseteq Waiting(t)
    BY Zenon, <1>2, WaitingShrinks DEF Refuse, Typed
  <2> QED
    BY Zenon, <1>2, <1>r, <1>o, <2>1, PaidAlready DEF Refuse
<1>3. ASSUME NEW w \in Workers, NEW u \in Tasks, NEW a \in Attempts, Start(w, u, a) PROVE PaidFor(t)'
  BY Zenon, <1>3, PaidStart
<1>4. ASSUME NEW w \in Workers, pc' = [pc EXCEPT ![w] = "acking"] \/ pc' = [pc EXCEPT ![w] = "exhausted"]
                                 \/ (pc[w] = "running" /\ pc' = [pc EXCEPT ![w] = "retrying"]),
             UNCHANGED <<task, attempt>>
      PROVE  Owes
  BY Zenon, <1>4 DEF Typed, TypeOK
<1>5. ASSUME NEW w \in Workers, LetGo(w) PROVE Owes /\ UNCHANGED <<starts, sent, replaying, target>>
  BY Zenon, <1>5 DEF Typed, TypeOK, LetGo
<1>6. ASSUME NEW w \in Workers, Return(w) PROVE PaidFor(t)'
  <2>1. Owes
    BY Zenon, <1>4, <1>6 DEF Return, Continue
  <2> QED
    BY Zenon, <1>6, <1>w, <1>r, <2>1, PaidAlready DEF Return, Continue
<1>7. ASSUME NEW w \in Workers, Raise(w) PROVE PaidFor(t)'
  <2>1. Owes
    BY Zenon, <1>4, <1>7 DEF Raise, Continue
  <2>2. UNCHANGED <<sent, starts, replaying, target, queue, letterTask, replays>>
    BY Zenon, <1>7 DEF Raise, Continue
  <2> QED
    BY Zenon, <1>w, <1>r, <2>1, <2>2, PaidAlready
<1>8. ASSUME NEW w \in Workers, PublishRetry(w) PROVE PaidFor(t)'
  BY Zenon, <1>8, PaidRetry
<1>9. ASSUME NEW w \in Workers, WriteDeadLetter(w) PROVE PaidFor(t)'
  <2>1. PICK l \in Letters : letter[l] = "absent" /\ letterTask' = [letterTask EXCEPT ![l] = task[w]]
    BY Zenon, <1>9 DEF WriteDeadLetter
  <2>2. /\ UNCHANGED <<sent, starts, replaying, target, queue, replays, task, attempt>>
        /\ pc' = [pc EXCEPT ![w] = "acking"]
    BY Zenon, <1>9 DEF WriteDeadLetter, Continue
  <2>3. Owes
    BY Zenon, <1>4, <2>2
  <2>4. Reads
    <3> SUFFICES ASSUME NEW o \in Operators, replaying'[o] = "read"
                 PROVE  letterTask'[target'[o]] = letterTask[target[o]]
      BY Zenon, <2>2
    <3>1. target[o] \in Letters /\ letter[target[o]] # "absent"
      BY <2>2 DEF Typed, TypeOK
    <3>2. target[o] # l
      BY Zenon, <2>1, <3>1
    <3> QED
      BY Zenon, <2>1, <2>2, <3>1, <3>2 DEF Typed, TypeOK
  <2> QED
    BY Zenon, <1>w, <2>2, <2>3, <2>4, PaidAlready
<1>10. ASSUME NEW w \in Workers, Ack(w) \/ Outage(w) PROVE PaidFor(t)'
  <2>1. LetGo(w) /\ UNCHANGED <<queue, letterTask, replays>>
    BY Zenon, <1>10 DEF Ack, Outage
  <2>2. Owes /\ UNCHANGED <<starts, sent, replaying, target>>
    BY Zenon, <1>5, <2>1
  <2> QED
    BY Zenon, <1>w, <1>r, <2>1, <2>2, PaidAlready
<1>11. ASSUME NEW w \in Workers, WorkerLost(w) PROVE FALSE
  BY <1>11 DEF WorkerLost
<1>12. ASSUME NEW o \in Operators, NEW l \in Letters, ReplayRead(o, l) PROVE PaidFor(t)'
  BY Zenon, <1>12, PaidByReplay
<1>13. ASSUME NEW o \in Operators, ReplaySend(o) PROVE PaidFor(t)'
  BY Zenon, <1>13, PaidSend
<1>14. ASSUME NEW o \in Operators, ReplayCommit(o) PROVE PaidFor(t)'
  <2>1. \A p \in Operators : replaying'[p] = "read" => p # o
    BY <1>14 DEF ReplayCommit, EndReplay, Typed, TypeOK
  <2>2. Reads
    BY Zenon, <1>14, <2>1 DEF ReplayCommit, EndReplay, Typed, TypeOK
  <2> QED
    BY Zenon, <1>14, <1>w, <1>o, <2>2, PaidAlready DEF ReplayCommit
<1>15. ASSUME NEW o \in Operators, ReplayLost(o) PROVE FALSE
  BY <1>15 DEF ReplayLost
<1>16. ASSUME NEW l \in Letters, Reap(l) PROVE PaidFor(t)'
  BY Zenon, <1>16, <1>w, <1>r, <1>o, PaidAlready DEF Reap
<1>17. CASE UNCHANGED vars
  BY Zenon, <1>17, <1>w, <1>r, <1>o, PaidAlready DEF vars
<1> QED
  BY Zenon, <1>1, <1>2, <1>3, <1>6, <1>7, <1>8, <1>9, <1>10, <1>11, <1>12, <1>13, <1>14,
     <1>15, <1>16, <1>17 DEF Next, Receive, Work

LEMMA PaidAtFirst == Init => AllPaidFor
<1> SUFFICES ASSUME Init, NEW t \in Tasks PROVE PaidFor(t)
  BY Zenon DEF AllPaidFor
<1>1. Waiting(t) = {}
  BY DEF Init, Waiting
<1>2. Running(t) = {} /\ Replaying(t) = {}
  BY DEF Init, Running, Replaying
<1>3. starts[t] = 0 /\ Calls(t) = 0 /\ replays = 0
  BY DEF Init, Calls
<1>4. 0 + 0 + 0 + 0 <= max_attempts * (0 + 0)
  BY TaskAssumption
<1> QED
  BY Zenon, <1>1, <1>2, <1>3, <1>4, FS_EmptySet DEF PaidFor

LEMMA BudgetFollows == Typed /\ AllPaidFor => RetryBudget
<1> SUFFICES ASSUME Typed, AllPaidFor, lost = 0, NEW t \in Tasks
             PROVE  starts[t] <= max_attempts * (1 + replays)
  BY Zenon DEF RetryBudget
<1>1. PaidFor(t)
  BY Zenon DEF AllPaidFor
<1>2. /\ Cardinality(Waiting(t)) \in Nat /\ Cardinality(Running(t)) \in Nat
      /\ Cardinality(Replaying(t)) \in Nat /\ starts[t] \in Nat /\ replays \in Nat
  BY Zenon, <1>1, FS_CardinalityType DEF PaidFor, Typed, TypeOK
<1>3. Calls(t) = 0 \/ Calls(t) = 1
  BY Zenon DEF Calls
<1>4. max_attempts * (0 + replays) <= max_attempts * (1 + replays)
  BY <1>2, TaskAssumption
<1>5. max_attempts * (0 + replays) \in Nat /\ max_attempts * (1 + replays) \in Nat
  BY <1>2, TaskAssumption
<1>6. PICK p \in Nat, q \in Nat : p = max_attempts * (0 + replays) /\ q = max_attempts * (1 + replays)
  BY Zenon, <1>5
<1>8. \/ starts[t] + Cardinality(Waiting(t)) + Cardinality(Running(t)) + Cardinality(Replaying(t)) <= p
      \/ starts[t] + Cardinality(Waiting(t)) + Cardinality(Running(t)) + Cardinality(Replaying(t)) <= q
  BY Zenon, <1>1, <1>3, <1>6 DEF PaidFor
<1>9. p <= q
  BY Zenon, <1>4, <1>6
<1>10. starts[t] <= q
  BY <1>2, <1>8, <1>9
<1> QED
  BY Zenon, <1>6, <1>10

(* For any number of tasks, workers, letters and replays, a failing task is *)
(* started at most max_attempts times for the call and for each replay,     *)
(* while no worker is lost (should_retry, retry.py:39).                     *)
THEOREM RetryBudgetIsKept == Spec => []RetryBudget
<1>1. Init => Typed /\ AllPaidFor
  <2>1. Init => Typed
    BY TaskAssumption DEF Init, Typed, TypeOK, RetryHasRoom, Attempts
  <2> QED
    BY Zenon, <2>1, PaidAtFirst
<1>2. Typed /\ AllPaidFor /\ [Next]_vars => (Typed /\ AllPaidFor)'
  <2> SUFFICES ASSUME Typed, AllPaidFor, [Next]_vars, lost' = 0, NEW t \in Tasks
               PROVE  PaidFor(t)'
    BY Zenon, TypeStep DEF AllPaidFor
  <2>1. lost = 0
    <3>1. lost \in Nat
      BY Zenon DEF Typed, TypeOK
    <3>2. lost' = lost \/ lost' = lost + 1
      BY Zenon DEF Next, vars, Receive, Work, ApplyAsync, Refuse, Start, Return, Raise, PublishRetry,
         WriteDeadLetter, Ack, Outage, WorkerLost, ReplayRead, ReplaySend, ReplayCommit, ReplayLost,
         Reap, bounds
    <3> QED
      BY <3>1, <3>2
  <2> QED
    BY Zenon, <2>1, PaidStep DEF AllPaidFor
<1> QED
  BY <1>1, <1>2, BudgetFollows, PTL DEF Spec

-----------------------------------------------------------------------------
(* Files.                                                                   *)

(* The flush of a deletion leaves the verdict alone.                        *)
LEMMA FileFlush ==
  ASSUME NEW row \in FileObject, NEW old \in FileObject, NEW new \in FileObject,
         new.exists = old.exists, new.scan_status = old.scan_status, new.sha256 = old.sha256,
         new.deleted, NEW out, out = Flush(row, old, new)
  PROVE  /\ out \in FileObject /\ out.exists = row.exists
         /\ out.scan_status = row.scan_status /\ out.sha256 = row.sha256
         /\ row.deleted => out.deleted
<1>1. DOMAIN row = {"exists", "deleted", "scan_status", "sha256"}
  BY Zenon DEF FileObject
<1>2. out = [f \in {"exists", "deleted", "scan_status", "sha256"} |->
               IF new[f] # old[f] THEN new[f] ELSE row[f]]
  BY Zenon, <1>1 DEF Flush
<1>3. /\ out.exists = row.exists /\ out.scan_status = row.scan_status /\ out.sha256 = row.sha256
      /\ out.deleted = IF new.deleted # old.deleted THEN new.deleted ELSE row.deleted
  BY Zenon, <1>2
<1>4. out = [exists |-> out.exists, deleted |-> out.deleted, scan_status |-> out.scan_status,
             sha256 |-> out.sha256]
  <2>1. out = [f \in {"exists", "deleted", "scan_status", "sha256"} |-> out[f]]
    BY Zenon, <1>2
  <2> QED
    BY Zenon, <2>1
<1>5. /\ out.exists \in BOOLEAN /\ out.deleted \in BOOLEAN /\ out.scan_status \in SCAN_STATUSES
      /\ out.sha256 \in BOOLEAN
  BY Zenon, <1>3 DEF FileObject
<1>6. out \in FileObject
  BY Zenon, <1>4, <1>5 DEF FileObject
<1> QED
  BY Zenon, <1>3, <1>6

(* The rows that the operations set.                                        *)
LEMMA FileEdits ==
  ASSUME NEW row \in FileObject
  PROVE  /\ LET new == [row EXCEPT !.deleted = TRUE] IN
              /\ new \in FileObject /\ new.exists = row.exists /\ new.scan_status = row.scan_status
              /\ new.sha256 = row.sha256 /\ new.deleted = TRUE
         /\ LET new == [row EXCEPT !.exists = TRUE] IN
              /\ new \in FileObject /\ new.deleted = row.deleted /\ new.scan_status = row.scan_status
              /\ new.sha256 = row.sha256
         /\ LET new == [row EXCEPT !.scan_status = "scanning"] IN
              /\ new \in FileObject /\ new.deleted = row.deleted /\ new.exists = row.exists
              /\ new.scan_status = "scanning"
         /\ \A v \in Verdicts : LET new == [row EXCEPT !.scan_status = v, !.sha256 = TRUE] IN
              /\ new \in FileObject /\ new.deleted = row.deleted /\ new.exists = row.exists
              /\ new.scan_status = v /\ new.sha256 = TRUE
BY Zenon DEF FileObject, SCAN_STATUSES, Verdicts

-----------------------------------------------------------------------------
FileRequestOK(objects, r) ==
  \/ r.op = "upload" /\ r.id \in FileIds
  \/ /\ r.op = "complete" /\ r.id \in FileIds
     /\ r.head = objects[r.id] /\ r.head \in Contents
  \/ /\ r.op = "file" /\ r.id \in FileIds /\ Dirty(r) = {r.id}
     /\ LET old == r.writes[r.id].old
            new == r.writes[r.id].new
        IN  /\ old \in FileObject /\ new \in FileObject
            /\ new.exists = old.exists /\ new.scan_status = old.scan_status
            /\ new.sha256 = old.sha256 /\ new.deleted
  \/ r.op = "document"

(* What a file's status says of its bytes.                                  *)
Inspected(row, bytes) ==
  /\ row.scan_status # "pending" => bytes \in Contents /\ bytes # "unlike intent"
  /\ row.scan_status = "clean" => bytes = "fine" /\ row.sha256

ScanOK(rows, objects, s) ==
  /\ DOMAIN s = {"id", "state"} /\ s.id \in FileIds
  /\ rows[s.id].scan_status # "pending"
  /\ s.state \in Verdicts \cup {NoFile}
  /\ s.state = "clean" => objects[s.id] = "fine"

FileRowsInv ==
  /\ files \in [FileIds -> FileObject] /\ object \in [FileIds -> Contents \cup {NoFile}]
  /\ \A f \in FileIds : Inspected(files[f], object[f])

FileRequestInv ==
  /\ DOMAIN fileReq = FileRequests
  /\ \A q \in FileRequests : fileReq[q] # NoFile => FileRequestOK(object, fileReq[q])

ScanInv ==
  /\ DOMAIN scan = ScanTasks
  /\ \A t \in ScanTasks : scan[t] # NoFile => ScanOK(files, object, scan[t])

(* The files that count, and the uploads that were let through but have     *)
(* not inserted theirs.                                                     *)
Counted == {f \in FileIds : GetFile(f)}
Admitted == {q \in FileRequests : fileReq[q] # NoFile /\ fileReq[q].op = "upload"}

AllowanceInv ==
  Cardinality(Counted) + Cardinality(Admitted) <= DAILY_USER_LIMIT + Cardinality(FileRequests) - 1

FileInv == FileRowsInv /\ FileRequestInv /\ ScanInv /\ AllowanceInv

-----------------------------------------------------------------------------

(* The counts of the allowance are numbers.                                 *)
LEMMA CountsAreFinite ==
  /\ IsFiniteSet(Counted) /\ IsFiniteSet(Admitted)
  /\ Cardinality(Counted) \in Nat /\ Cardinality(Admitted) \in Nat
  /\ Cardinality(FileRequests) \in Nat
  /\ Cardinality(Admitted) <= Cardinality(FileRequests)
<1>1. Counted \subseteq FileIds /\ Admitted \subseteq FileRequests
  BY Zenon DEF Counted, Admitted
<1>2. IsFiniteSet(Counted) /\ IsFiniteSet(Admitted)
      /\ Cardinality(Admitted) <= Cardinality(FileRequests)
  BY Zenon, <1>1, FS_Subset, FileAssumption
<1> QED
  BY Zenon, <1>2, FS_CardinalityType, FileAssumption

(* A step that counts no further file and admits no further upload.         *)
LEMMA AllowanceKept ==
  ASSUME AllowanceInv, Counted' \subseteq Counted, Admitted' \subseteq Admitted
  PROVE  AllowanceInv'
<1>1. /\ IsFiniteSet(Counted') /\ IsFiniteSet(Admitted')
      /\ Cardinality(Counted') <= Cardinality(Counted)
      /\ Cardinality(Admitted') <= Cardinality(Admitted)
  BY Zenon, CountsAreFinite, FS_Subset
<1>2. Cardinality(Counted') \in Nat /\ Cardinality(Admitted') \in Nat
  BY Zenon, <1>1, FS_CardinalityType
<1>3. Cardinality(Counted') + Cardinality(Admitted')
        <= Cardinality(Counted) + Cardinality(Admitted)
  <2> DEFINE c == Cardinality(Counted)
             d == Cardinality(Admitted)
             e == Cardinality(Counted')
             g == Cardinality(Admitted')
  <2>1. c \in Nat /\ d \in Nat /\ e \in Nat /\ g \in Nat /\ e <= c /\ g <= d
    BY Zenon, <1>1, <1>2, CountsAreFinite
  <2> HIDE DEF c, d, e, g
  <2>2. e + g <= c + d
    BY <2>1
  <2> QED
    BY Zenon, <2>2 DEF c, d, e, g
<1> QED
  <2> DEFINE c == Cardinality(Counted) + Cardinality(Admitted)
             e == Cardinality(Counted') + Cardinality(Admitted')
             n == Cardinality(FileRequests)
  <2>1. c \in Nat /\ e \in Nat /\ n \in Nat /\ e <= c /\ c <= DAILY_USER_LIMIT + n - 1
    BY <1>2, <1>3, CountsAreFinite DEF AllowanceInv
  <2> HIDE DEF c, e, n
  <2>2. e <= DAILY_USER_LIMIT + n - 1
    BY <2>1, FileAssumption
  <2> QED
    BY Zenon, <2>2 DEF e, n, AllowanceInv

(* An admitted upload found room for one, and every request is at most one. *)
LEMMA AllowanceAdmits ==
  ASSUME AllowanceInv, Counted' \subseteq Counted, validate_upload_request(daily_bytes)
  PROVE  AllowanceInv'
<1>1. Cardinality(Counted) + 1 <= DAILY_USER_LIMIT
  BY Zenon DEF validate_upload_request, daily_bytes, Counted
<1>2. Cardinality(Counted') \in Nat /\ Cardinality(Counted') <= Cardinality(Counted)
  BY Zenon, CountsAreFinite, FS_Subset, FS_CardinalityType
<1>3. Cardinality(Admitted') \in Nat /\ Cardinality(Admitted') <= Cardinality(FileRequests)
  <2>1. Admitted' \subseteq FileRequests
    BY Zenon DEF Admitted
  <2> QED
    BY Zenon, <2>1, FileAssumption, FS_Subset, FS_CardinalityType
<1> DEFINE c == Cardinality(Counted)
           e == Cardinality(Counted')
           g == Cardinality(Admitted')
           n == Cardinality(FileRequests)
<1>4. c \in Nat /\ e \in Nat /\ g \in Nat /\ n \in Nat /\ e <= c /\ g <= n /\ c + 1 <= DAILY_USER_LIMIT
  BY Zenon, <1>1, <1>2, <1>3, CountsAreFinite
<1> HIDE DEF c, e, g, n
<1>5. e + g <= DAILY_USER_LIMIT + n - 1
  BY <1>4, FileAssumption
<1> QED
  BY Zenon, <1>5 DEF e, g, n, AllowanceInv

(* An insertion adds one file and ends one admitted upload.                 *)
LEMMA AllowanceInserts ==
  ASSUME AllowanceInv, NEW q \in Admitted, NEW f, Counted' \subseteq Counted \cup {f},
         Admitted' \subseteq Admitted \ {q}
  PROVE  AllowanceInv'
<1>1. /\ IsFiniteSet(Counted \cup {f})
      /\ Cardinality(Counted \cup {f}) = IF f \in Counted THEN Cardinality(Counted)
                                                           ELSE Cardinality(Counted) + 1
      /\ IsFiniteSet(Admitted \ {q})
      /\ Cardinality(Admitted \ {q}) = IF q \in Admitted THEN Cardinality(Admitted) - 1
                                                         ELSE Cardinality(Admitted)
  BY Zenon, CountsAreFinite, FS_AddElement, FS_RemoveElement
<1>2. /\ Cardinality(Counted') \in Nat /\ Cardinality(Counted') <= Cardinality(Counted \cup {f})
      /\ Cardinality(Admitted') \in Nat /\ Cardinality(Admitted') <= Cardinality(Admitted \ {q})
  BY Zenon, <1>1, FS_Subset, FS_CardinalityType
<1> DEFINE c == Cardinality(Counted)
           d == Cardinality(Admitted)
           e == Cardinality(Counted')
           g == Cardinality(Admitted')
           n == Cardinality(FileRequests)
<1>3. c \in Nat /\ d \in Nat /\ e \in Nat /\ g \in Nat /\ n \in Nat
  BY Zenon, <1>2, CountsAreFinite
<1>4. e <= c + 1
  <2>1. CASE f \in Counted
    <3>1. e <= c
      BY Zenon, <1>1, <1>2, <2>1
    <3> HIDE DEF e, c
    <3> QED
      BY <1>3, <3>1
  <2>2. CASE f \notin Counted
    BY Zenon, <1>1, <1>2, <2>2
  <2> QED
    BY Zenon, <2>1, <2>2
<1>5. g <= d - 1
  BY Zenon, <1>1, <1>2
<1>6. c + d <= DAILY_USER_LIMIT + n - 1
  BY Zenon DEF AllowanceInv
<1> HIDE DEF c, d, e, g, n
<1>7. e + g <= DAILY_USER_LIMIT + n - 1
  BY SMTT(40), <1>3, <1>4, <1>5, <1>6, FileAssumption
<1> QED
  BY Zenon, <1>7 DEF e, g, n, AllowanceInv

-----------------------------------------------------------------------------

(* The invariant, after a step.                                             *)
LEMMA FileInvNext ==
  ASSUME files' \in [FileIds -> FileObject], object' \in [FileIds -> Contents \cup {NoFile}],
         \A f \in FileIds : Inspected(files'[f], object'[f]),
         DOMAIN fileReq' = FileRequests, DOMAIN scan' = ScanTasks,
         \A q \in FileRequests : fileReq'[q] # NoFile => FileRequestOK(object', fileReq'[q]),
         \A t \in ScanTasks : scan'[t] # NoFile => ScanOK(files', object', scan'[t]),
         AllowanceInv'
  PROVE  FileInv'
<1>1. FileRowsInv'
  BY Zenon DEF FileRowsInv, Inspected, FileObject, SCAN_STATUSES, Contents
<1>2. FileRequestInv'
  BY Zenon DEF FileRequestInv, FileRequestOK, FileObject, SCAN_STATUSES, Contents, Dirty
<1>3. ScanInv'
  BY Zenon DEF ScanInv, ScanOK, Verdicts
<1> QED
  BY Zenon, <1>1, <1>2, <1>3 DEF FileInv

(* What FileInv says, in one place.                                         *)
LEMMA FileFacts ==
  ASSUME FileInv
  PROVE  /\ files \in [FileIds -> FileObject] /\ object \in [FileIds -> Contents \cup {NoFile}]
         /\ \A f \in FileIds : Inspected(files[f], object[f])
         /\ DOMAIN fileReq = FileRequests /\ DOMAIN scan = ScanTasks
         /\ \A q \in FileRequests : fileReq[q] # NoFile => FileRequestOK(object, fileReq[q])
         /\ \A t \in ScanTasks : scan[t] # NoFile => ScanOK(files, object, scan[t])
         /\ AllowanceInv
BY Zenon DEF FileInv, FileRowsInv, FileRequestInv, ScanInv

(* A request begins.                                                        *)
LEMMA BeginStep ==
  ASSUME FileInv, NEW q \in FileRequests, NEW r, Begin(q, r), FileRequestOK(object, r),
         r.op = "upload" => validate_upload_request(daily_bytes)
  PROVE  FileInv'
<1>1. /\ files' = files /\ object' = object /\ scan' = scan
      /\ fileReq' = [fileReq EXCEPT ![q] = r]
  BY Zenon DEF Begin
<1>2. /\ DOMAIN fileReq' = FileRequests /\ fileReq'[q] = r
      /\ \A p \in FileRequests \ {q} : fileReq'[p] = fileReq[p]
  BY Zenon, <1>1, FileFacts
<1>3. \A p \in FileRequests : fileReq'[p] # NoFile => FileRequestOK(object', fileReq'[p])
  BY Zenon, <1>1, <1>2, FileFacts
<1>4. Counted' \subseteq Counted
  BY Zenon, <1>1 DEF Counted, GetFile
<1>5. AllowanceInv'
  <2>1. CASE r.op = "upload"
    BY Zenon, <1>4, <2>1, AllowanceAdmits, FileFacts
  <2>2. CASE r.op # "upload"
    <3>1. Admitted' \subseteq Admitted
      BY Zenon, <1>2, <2>2 DEF Admitted
    <3> QED
      BY Zenon, <1>4, <3>1, AllowanceKept, FileFacts
  <2> QED
    BY Zenon, <2>1, <2>2
<1>6. \A t \in ScanTasks : scan'[t] # NoFile => ScanOK(files', object', scan'[t])
  BY Zenon, <1>1, FileFacts
<1>7. /\ files' \in [FileIds -> FileObject] /\ object' \in [FileIds -> Contents \cup {NoFile}]
      /\ DOMAIN scan' = ScanTasks
      /\ \A f \in FileIds : Inspected(files'[f], object'[f])
  BY Zenon, <1>1, FileFacts
<1> QED
  BY Zenon, <1>2, <1>3, <1>5, <1>6, <1>7, FileInvNext

(* The requests of /files and /documents begin.                             *)
LEMMA RoutesStep ==
  ASSUME FileInv, NEW q \in FileRequests, FileRoutes(q) \/ DocumentRoutes(q)
  PROVE  FileInv'
<1>1. ASSUME NEW f \in FileIds, request_upload(q, f) PROVE FileInv'
  <2> DEFINE r == [op |-> "upload", id |-> f]
  <2>1. validate_upload_request(daily_bytes) /\ Begin(q, r)
    BY Zenon, <1>1 DEF request_upload
  <2>2. FileRequestOK(object, r)
    BY Zenon DEF FileRequestOK
  <2> HIDE DEF r
  <2> QED
    BY Zenon, <2>1, <2>2, BeginStep
<1>2. ASSUME NEW f \in FileIds, complete_upload(q, f) PROVE FileInv'
  <2> DEFINE r == [op |-> "complete", id |-> f, head |-> object[f]]
  <2>1. object[f] \in Contents /\ Begin(q, r)
    BY Zenon, <1>2, FileFacts DEF complete_upload
  <2>2. r.op = "complete" /\ r.id = f /\ r.head = object[f] /\ r.op # "upload"
    BY Zenon
  <2> HIDE DEF r
  <2>3. FileRequestOK(object, r)
    BY Zenon, <2>1, <2>2 DEF FileRequestOK
  <2> QED
    BY Zenon, <2>1, <2>2, <2>3, BeginStep
<1>3. ASSUME NEW f \in FileIds, delete_file(q, f) PROVE FileInv'
  <2> DEFINE new == [files[f] EXCEPT !.deleted = TRUE]
             r == LoadAs("file", f, files[f], new)
  <2>1. Begin(q, r)
    BY Zenon, <1>3 DEF delete_file
  <2>2. files[f] \in FileObject
    BY Zenon, FileFacts
  <2>3. /\ new \in FileObject /\ new.exists = files[f].exists
        /\ new.scan_status = files[f].scan_status
        /\ new.sha256 = files[f].sha256 /\ new.deleted
    BY Zenon, <2>2, FileEdits
  <2> HIDE DEF new
  <2>4. /\ r.op = "file" /\ r.op # "upload" /\ r.id = f
        /\ Dirty(r) = {f} /\ r.writes[f].old = files[f] /\ r.writes[f].new = new
    BY Zenon DEF LoadAs, Dirty, Write
  <2> HIDE DEF r
  <2>5. FileRequestOK(object, r)
    BY Zenon, <2>2, <2>3, <2>4 DEF FileRequestOK
  <2> QED
    BY Zenon, <2>1, <2>4, <2>5, BeginStep
<1>4. ASSUME NEW d, NEW old, NEW new, Begin(q, LoadAs("document", d, old, new)) PROVE FileInv'
  <2> DEFINE r == LoadAs("document", d, old, new)
  <2>1. r.op = "document" /\ r.op # "upload"
    BY Zenon DEF LoadAs
  <2> HIDE DEF r
  <2>2. FileRequestOK(object, r)
    BY Zenon, <2>1 DEF FileRequestOK
  <2> QED
    BY Zenon, <1>4, <2>1, <2>2, BeginStep DEF r
<1> QED
  BY Zenon, <1>1, <1>2, <1>3, <1>4
     DEF FileRoutes, DocumentRoutes, create_document, update_document, delete_document

(* A request ends, having written the row of file f or none.                *)
LEMMA EndStep ==
  ASSUME FileInv, NEW q \in FileRequests, fileReq' = [fileReq EXCEPT ![q] = NoFile],
         object' = object, scan' = scan, files' \in [FileIds -> FileObject],
         \A f \in FileIds : /\ Inspected(files'[f], object[f])
                            /\ files[f].scan_status # "pending" => files'[f].scan_status # "pending",
         \/ Counted' \subseteq Counted
         \/ q \in Admitted /\ \E f \in FileIds : Counted' \subseteq Counted \cup {f}
  PROVE  FileInv'
<1>1. /\ DOMAIN fileReq' = FileRequests /\ fileReq'[q] = NoFile
      /\ \A p \in FileRequests \ {q} : fileReq'[p] = fileReq[p]
  BY Zenon, FileFacts
<1>2. \A p \in FileRequests : fileReq'[p] # NoFile => FileRequestOK(object', fileReq'[p])
  BY Zenon, <1>1, FileFacts
<1>3. Admitted' \subseteq Admitted \ {q} /\ Admitted' \subseteq Admitted
  BY Zenon, <1>1 DEF Admitted
<1>4. AllowanceInv'
  BY Zenon, <1>3, AllowanceKept, AllowanceInserts, FileFacts
<1>5. \A t \in ScanTasks : scan'[t] # NoFile => ScanOK(files', object', scan'[t])
  BY Zenon, FileFacts DEF ScanOK
<1>6. /\ object' \in [FileIds -> Contents \cup {NoFile}] /\ DOMAIN scan' = ScanTasks
      /\ \A f \in FileIds : Inspected(files'[f], object'[f])
  BY Zenon, FileFacts
<1> QED
  BY Zenon, <1>1, <1>2, <1>4, <1>5, <1>6, FileInvNext

(* An upload that was admitted becomes a file that counts.                  *)
LEMMA InsertFileStep ==
  ASSUME FileInv, NEW q \in FileRequests, InsertFile(q)
  PROVE  FileInv'
<1> DEFINE i == fileReq[q].id
<1>1. /\ fileReq[q] # NoFile /\ fileReq[q].op = "upload" /\ object' = object /\ scan' = scan
      /\ fileReq' = [fileReq EXCEPT ![q] = NoFile]
      /\ files' = [files EXCEPT ![i].exists = TRUE]
  BY Zenon DEF InsertFile
<1>2. i \in FileIds
  <2>1. FileRequestOK(object, fileReq[q])
    BY Zenon, <1>1, FileFacts
  <2>2. fileReq[q].op # "complete" /\ fileReq[q].op # "file" /\ fileReq[q].op # "document"
    BY Zenon, <1>1
  <2> QED
    BY Zenon, <2>1, <2>2 DEF FileRequestOK
<1> HIDE DEF i
<1>3. /\ files \in [FileIds -> FileObject]
      /\ \A f \in FileIds : Inspected(files[f], object[f])
  BY Zenon, FileFacts
<1> DEFINE new == [files[i] EXCEPT !.exists = TRUE]
<1>4. /\ new \in FileObject /\ new.deleted = files[i].deleted
      /\ new.scan_status = files[i].scan_status /\ new.sha256 = files[i].sha256
  BY Zenon, <1>2, <1>3, FileEdits
<1>5. files' = [files EXCEPT ![i] = new]
  BY Zenon, <1>1
<1> HIDE DEF new
<1>6. /\ files' \in [FileIds -> FileObject] /\ files'[i] = new
      /\ \A f \in FileIds \ {i} : files'[f] = files[f]
  BY Zenon, <1>2, <1>3, <1>4, <1>5
<1>7. \A f \in FileIds : /\ Inspected(files'[f], object[f])
                         /\ files[f].scan_status # "pending" => files'[f].scan_status # "pending"
  BY ZenonT(40), <1>3, <1>4, <1>6 DEF Inspected
<1>8. q \in Admitted /\ Counted' \subseteq Counted \cup {i}
  BY Zenon, <1>1, <1>6 DEF Admitted, Counted, GetFile
<1> QED
  BY Zenon, <1>1, <1>2, <1>6, <1>7, <1>8, EndStep

(* A completion moves a pending file on, once its bytes are as intended.    *)
LEMMA FinishCompletionStep ==
  ASSUME FileInv, NEW q \in FileRequests, FinishCompletion(q)
  PROVE  FileInv'
<1> DEFINE r == fileReq[q]
           new == [files[r.id] EXCEPT !.scan_status = "scanning"]
<1>1. /\ r # NoFile /\ r.op = "complete" /\ object' = object /\ scan' = scan
      /\ fileReq' = [fileReq EXCEPT ![q] = NoFile]
      /\ files' = IF Completable(r.id, r.head) THEN [files EXCEPT ![r.id].scan_status = "scanning"]
                                               ELSE files
  BY Zenon DEF FinishCompletion
<1>2. r.id \in FileIds /\ r.head = object[r.id] /\ r.head \in Contents
  <2>1. FileRequestOK(object, r)
    BY Zenon, <1>1, FileFacts
  <2>2. r.op # "upload" /\ r.op # "file" /\ r.op # "document"
    BY Zenon, <1>1
  <2> QED
    BY Zenon, <2>1, <2>2 DEF FileRequestOK
<1>3. /\ files \in [FileIds -> FileObject]
      /\ \A f \in FileIds : Inspected(files[f], object[f])
  BY Zenon, FileFacts
<1>4. CASE ~Completable(r.id, r.head)
  <2>1. files' = files
    BY Zenon, <1>1, <1>4
  <2>2. Counted' \subseteq Counted
    BY Zenon, <2>1 DEF Counted, GetFile
  <2> QED
    BY Zenon, <1>1, <1>3, <2>1, <2>2, EndStep
<1>5. CASE Completable(r.id, r.head)
  <2>1. files' = [files EXCEPT ![r.id] = new] /\ r.head # "unlike intent"
    BY Zenon, <1>1, <1>5 DEF Completable
  <2>2. /\ new \in FileObject /\ new.deleted = files[r.id].deleted /\ new.exists = files[r.id].exists
        /\ new.scan_status = "scanning"
    BY Zenon, <1>2, <1>3, FileEdits
  <2>3. new.scan_status # "clean" /\ new.scan_status # "pending"
    BY Zenon, <2>2
  <2> HIDE DEF new
  <2>4. /\ files' \in [FileIds -> FileObject] /\ files'[r.id] = new
        /\ \A f \in FileIds \ {r.id} : files'[f] = files[f]
    BY Zenon, <1>2, <1>3, <2>1, <2>2
  <2>5. Inspected(new, object[r.id])
    BY Zenon, <1>2, <2>1, <2>3 DEF Inspected
  <2>6. \A f \in FileIds : /\ Inspected(files'[f], object[f])
                           /\ files[f].scan_status # "pending" => files'[f].scan_status # "pending"
    BY Zenon, <1>3, <2>3, <2>4, <2>5
  <2>7. Counted' \subseteq Counted
    BY Zenon, <2>2, <2>4 DEF Counted, GetFile
  <2> QED
    BY Zenon, <1>1, <2>4, <2>6, <2>7, EndStep
<1> QED
  BY Zenon, <1>4, <1>5

(* A commit of delete_file writes the deletion alone.                       *)
LEMMA DeletedFile ==
  ASSUME FileInv, NEW q \in FileRequests, CommitFile(q), fileReq[q].op = "file"
  PROVE  /\ files' \in [FileIds -> FileObject]
         /\ \A f \in FileIds : /\ files'[f].exists = files[f].exists
                               /\ files'[f].scan_status = files[f].scan_status
                               /\ files'[f].sha256 = files[f].sha256
                               /\ files[f].deleted => files'[f].deleted
<1> DEFINE r == fileReq[q]
           i == r.id
           old == r.writes[i].old
           new == r.writes[i].new
<1>1. r # NoFile /\ files' = Commit(files, r)
  BY Zenon DEF CommitFile
<1>2. /\ i \in FileIds /\ Dirty(r) = {i} /\ old \in FileObject /\ new \in FileObject
      /\ new.exists = old.exists /\ new.scan_status = old.scan_status
      /\ new.sha256 = old.sha256 /\ new.deleted
  <2>1. FileRequestOK(object, r)
    BY Zenon, <1>1, FileFacts
  <2>2. r.op # "upload" /\ r.op # "complete" /\ r.op # "document"
    OBVIOUS
  <2> QED
    BY Zenon, <2>1, <2>2 DEF FileRequestOK
<1>3. files \in [FileIds -> FileObject]
  BY Zenon, FileFacts
<1>4. files' = [f \in FileIds |-> IF f \in Dirty(r)
                                   THEN Flush(files[f], r.writes[f].old, r.writes[f].new)
                                   ELSE files[f]]
  BY Zenon, <1>1, <1>3 DEF Commit
<1>5. files'[i] = Flush(files[i], old, new) /\ \A f \in FileIds \ {i} : files'[f] = files[f]
  BY Zenon, <1>2, <1>4
<1>6. files[i] \in FileObject
  BY Zenon, <1>2, <1>3
<1> HIDE DEF old, new, i
<1>7. /\ files'[i] \in FileObject /\ files'[i].exists = files[i].exists
      /\ files'[i].scan_status = files[i].scan_status /\ files'[i].sha256 = files[i].sha256
      /\ files[i].deleted => files'[i].deleted
  <2> DEFINE row == files[i]
             out == files'[i]
  <2>1. row \in FileObject /\ out = Flush(row, old, new)
    BY Zenon, <1>5, <1>6
  <2> HIDE DEF row, out
  <2>2. /\ out \in FileObject /\ out.exists = row.exists
        /\ out.scan_status = row.scan_status /\ out.sha256 = row.sha256
        /\ row.deleted => out.deleted
    BY <1>2, <2>1, FileFlush
  <2> QED
    BY Zenon, <2>2 DEF row, out
<1>8. \A f \in FileIds : files'[f] \in FileObject
  BY Zenon, <1>3, <1>5, <1>7
<1>9. files' \in [FileIds -> FileObject]
  BY Zenon, <1>4, <1>8
<1> QED
  BY Zenon, <1>5, <1>7, <1>9

(* A commit deletes a file or writes a document.                            *)
LEMMA CommitFileStep ==
  ASSUME FileInv, NEW q \in FileRequests, CommitFile(q)
  PROVE  FileInv'
<1>1. /\ object' = object /\ scan' = scan /\ fileReq' = [fileReq EXCEPT ![q] = NoFile]
      /\ fileReq[q].op # "file" => files' = files
  BY Zenon DEF CommitFile
<1>2. /\ files \in [FileIds -> FileObject]
      /\ \A f \in FileIds : Inspected(files[f], object[f])
  BY Zenon, FileFacts
<1>3. CASE fileReq[q].op = "file"
  <2>1. /\ files' \in [FileIds -> FileObject]
        /\ \A f \in FileIds : /\ files'[f].exists = files[f].exists
                              /\ files'[f].scan_status = files[f].scan_status
                              /\ files'[f].sha256 = files[f].sha256
                              /\ files[f].deleted => files'[f].deleted
    BY Zenon, <1>3, DeletedFile
  <2>2. \A f \in FileIds : /\ Inspected(files'[f], object[f])
                           /\ files[f].scan_status # "pending" => files'[f].scan_status # "pending"
    BY Zenon, <1>2, <2>1 DEF Inspected
  <2>3. Counted' \subseteq Counted
    BY Zenon, <2>1 DEF Counted, GetFile
  <2> QED
    BY Zenon, <1>1, <2>1, <2>2, <2>3, EndStep
<1>4. CASE fileReq[q].op # "file"
  <2>1. files' = files
    BY Zenon, <1>1, <1>4
  <2>2. Counted' \subseteq Counted
    BY Zenon, <2>1 DEF Counted, GetFile
  <2> QED
    BY Zenon, <1>1, <1>2, <2>1, <2>2, EndStep
<1> QED
  BY Zenon, <1>3, <1>4

(* Bytes arrive for a file that is still pending.                           *)
LEMMA PutObjectStep ==
  ASSUME FileInv, NEW f \in FileIds, NEW c \in Contents, PutObject(f, c)
  PROVE  FileInv'
<1>1. /\ object[f] = NoFile /\ object' = [object EXCEPT ![f] = c]
      /\ files' = files /\ fileReq' = fileReq /\ scan' = scan
  BY Zenon DEF PutObject
<1>2. /\ object' \in [FileIds -> Contents \cup {NoFile}] /\ object'[f] = c
      /\ \A g \in FileIds \ {f} : object'[g] = object[g]
  BY Zenon, <1>1, FileFacts
<1>3. NoFile \notin Contents /\ "fine" \in Contents
  BY Zenon, FileAssumption DEF Contents
<1>4. files[f].scan_status = "pending"
  BY Zenon, <1>1, <1>3, FileFacts DEF Inspected
<1>5. \A g \in FileIds : Inspected(files'[g], object'[g])
  <2>1. files[f].scan_status # "clean"
    BY Zenon, <1>4
  <2>2. Inspected(files[f], c)
    BY Zenon, <1>4, <2>1 DEF Inspected
  <2> QED
    BY Zenon, <1>1, <1>2, <2>2, FileFacts
<1>6. \A q \in FileRequests : fileReq[q] # NoFile => FileRequestOK(object', fileReq[q])
  BY Zenon, <1>1, <1>2, <1>3, FileFacts DEF FileRequestOK
<1>7. \A t \in ScanTasks : scan[t] # NoFile => ScanOK(files, object', scan[t])
  BY Zenon, <1>2, <1>4, FileFacts DEF ScanOK
<1>8. Counted' \subseteq Counted /\ Admitted' \subseteq Admitted
  BY Zenon, <1>1 DEF Counted, Admitted, GetFile
<1>9. AllowanceInv'
  BY Zenon, <1>8, AllowanceKept, FileFacts
<1>10. /\ files' \in [FileIds -> FileObject] /\ DOMAIN fileReq' = FileRequests
       /\ DOMAIN scan' = ScanTasks
  BY Zenon, <1>1, FileFacts
<1> QED
  BY Zenon, <1>1, <1>2, <1>5, <1>6, <1>7, <1>9, <1>10, FileInvNext

(* A run of the scan begins, goes on, or ends; only finalize writes a row.  *)
LEMMA ScanStep ==
  ASSUME FileInv, NEW t \in ScanTasks, NEW s, scan' = [scan EXCEPT ![t] = s],
         object' = object, fileReq' = fileReq, files' \in [FileIds -> FileObject],
         s # NoFile => ScanOK(files', object, s),
         \A f \in FileIds : /\ Inspected(files'[f], object[f])
                            /\ files[f].scan_status # "pending" => files'[f].scan_status # "pending"
                            /\ files'[f].exists = files[f].exists
                            /\ files'[f].deleted = files[f].deleted
  PROVE  FileInv'
<1>1. /\ DOMAIN scan' = ScanTasks /\ scan'[t] = s
      /\ \A u \in ScanTasks \ {t} : scan'[u] = scan[u]
  BY Zenon, FileFacts
<1>2. \A u \in ScanTasks : scan[u] # NoFile => ScanOK(files', object, scan[u])
  BY Zenon, FileFacts DEF ScanOK
<1>3. \A u \in ScanTasks : scan'[u] # NoFile => ScanOK(files', object', scan'[u])
  BY Zenon, <1>1, <1>2
<1>4. Counted' \subseteq Counted /\ Admitted' \subseteq Admitted
  BY Zenon DEF Counted, Admitted, GetFile
<1>5. AllowanceInv'
  BY Zenon, <1>4, AllowanceKept, FileFacts
<1>6. /\ object' \in [FileIds -> Contents \cup {NoFile}] /\ DOMAIN fileReq' = FileRequests
      /\ \A q \in FileRequests : fileReq'[q] # NoFile => FileRequestOK(object', fileReq'[q])
      /\ \A f \in FileIds : Inspected(files'[f], object'[f])
  BY Zenon, FileFacts
<1> QED
  BY Zenon, <1>1, <1>3, <1>5, <1>6, FileInvNext

(* The verdict on the bytes of a completed upload.                          *)
LEMMA VerdictHolds ==
  ASSUME NEW c \in Contents, c # "unlike intent"
  PROVE  verdict(c) \in Verdicts /\ (verdict(c) = "clean" => c = "fine")
BY Zenon DEF verdict, content_is_safe, scanner_ok, Verdicts, Contents

(* The steps of a run of scan_file.                                         *)
LEMMA ScansStep ==
  ASSUME FileInv, NEW t \in ScanTasks,
         (\E f \in FileIds : scan_file(t, f)) \/ Inspect(t) \/ record_retry(t) \/ finalize(t)
  PROVE  FileInv'
<1>1. /\ files \in [FileIds -> FileObject]
      /\ \A f \in FileIds : Inspected(files[f], object[f])
      /\ scan[t] # NoFile => ScanOK(files, object, scan[t])
      /\ DOMAIN scan = ScanTasks
  BY Zenon, FileFacts
<1>2. ASSUME NEW f \in FileIds, scan_file(t, f) PROVE FileInv'
  <2> DEFINE s == [id |-> f, state |-> NoFile]
  <2>1. /\ files[f].scan_status = "scanning" /\ scan' = [scan EXCEPT ![t] = s]
        /\ files' = files /\ object' = object /\ fileReq' = fileReq
    BY Zenon, <1>2 DEF scan_file
  <2>2. NoFile # "clean"
    BY Zenon, FileAssumption DEF Verdicts
  <2>3. files[f].scan_status # "pending"
    BY Zenon, <2>1
  <2>4. ScanOK(files, object, s)
    BY Zenon, <2>2, <2>3 DEF ScanOK
  <2> HIDE DEF s
  <2> QED
    BY Zenon, <1>1, <2>1, <2>4, ScanStep
<1>3. ASSUME Inspect(t) PROVE FileInv'
  <2> DEFINE i == scan[t].id
             v == verdict(object[i])
             s == [scan[t] EXCEPT !.state = v]
  <2>1. /\ scan[t] # NoFile /\ scan' = [scan EXCEPT ![t].state = v]
        /\ files' = files /\ object' = object /\ fileReq' = fileReq
    BY Zenon, <1>3 DEF Inspect, inspect_for_scan
  <2>2. /\ DOMAIN scan[t] = {"id", "state"} /\ i \in FileIds /\ files[i].scan_status # "pending"
    BY Zenon, <1>1, <2>1 DEF ScanOK
  <2>3. object[i] \in Contents /\ object[i] # "unlike intent"
    BY Zenon, <1>1, <2>2 DEF Inspected
  <2>4. v \in Verdicts /\ (v = "clean" => object[i] = "fine")
    BY Zenon, <2>3, VerdictHolds
  <2>5. s.id = i /\ s.state = v /\ DOMAIN s = {"id", "state"}
    BY Zenon, <2>2
  <2>6. scan' = [scan EXCEPT ![t] = s]
    BY Zenon, <2>1
  <2> HIDE DEF s, v, i
  <2>7. ScanOK(files, object, s)
    BY Zenon, <2>2, <2>4, <2>5 DEF ScanOK
  <2> QED
    BY Zenon, <1>1, <2>1, <2>6, <2>7, ScanStep
<1>4. ASSUME record_retry(t) PROVE FileInv'
  <2>1. /\ scan' = [scan EXCEPT ![t] = NoFile]
        /\ files' = files /\ object' = object /\ fileReq' = fileReq
    BY Zenon, <1>4 DEF record_retry
  <2> QED
    BY Zenon, <1>1, <2>1, ScanStep
<1>5. ASSUME finalize(t) PROVE FileInv'
  <2> DEFINE i == scan[t].id
             v == scan[t].state
             new == [files[i] EXCEPT !.scan_status = v, !.sha256 = TRUE]
  <2>1. /\ scan[t] # NoFile /\ v # NoFile /\ scan' = [scan EXCEPT ![t] = NoFile]
        /\ object' = object /\ fileReq' = fileReq
        /\ files' = IF files[i].scan_status \in Verdicts THEN files
                    ELSE [files EXCEPT ![i].scan_status = v, ![i].sha256 = TRUE]
    BY Zenon, <1>5 DEF finalize
  <2>2. /\ i \in FileIds /\ files[i].scan_status # "pending" /\ v \in Verdicts
        /\ v = "clean" => object[i] = "fine"
    BY Zenon, <1>1, <2>1 DEF ScanOK
  <2>3. CASE files[i].scan_status \in Verdicts
    BY Zenon, <1>1, <2>1, <2>3, ScanStep
  <2>4. CASE files[i].scan_status \notin Verdicts
    <3>1. files' = [files EXCEPT ![i] = new]
      BY Zenon, <1>1, <2>1, <2>2, <2>4
    <3>2. /\ new \in FileObject /\ new.deleted = files[i].deleted /\ new.exists = files[i].exists
          /\ new.scan_status = v /\ new.sha256 = TRUE
      BY Zenon, <1>1, <2>2, FileEdits
    <3> HIDE DEF new, i, v
    <3>3. /\ files' \in [FileIds -> FileObject] /\ files'[i] = new
          /\ \A f \in FileIds \ {i} : files'[f] = files[f]
      BY Zenon, <1>1, <2>2, <3>1, <3>2
    <3>4. v # "pending"
      BY Zenon, <2>2 DEF Verdicts
    <3>5. Inspected(new, object[i])
      BY Zenon, <1>1, <2>2, <3>2 DEF Inspected
    <3>6. \A f \in FileIds : /\ Inspected(files'[f], object[f])
                             /\ files[f].scan_status # "pending" => files'[f].scan_status # "pending"
                             /\ files'[f].exists = files[f].exists
                             /\ files'[f].deleted = files[f].deleted
      BY Zenon, <1>1, <3>2, <3>3, <3>4, <3>5
    <3> QED
      BY Zenon, <2>1, <3>3, <3>6, ScanStep
  <2> QED
    BY Zenon, <2>3, <2>4
<1> QED
  BY Zenon, <1>2, <1>3, <1>4, <1>5

-----------------------------------------------------------------------------

(* FileInv is inductive.                                                    *)
LEMMA FileInit_Inv == FileInit => FileInv
<1> SUFFICES ASSUME FileInit PROVE FileInv
  OBVIOUS
<1> DEFINE row == [exists |-> FALSE, deleted |-> FALSE, scan_status |-> "pending", sha256 |-> FALSE]
<1>1. /\ files = [f \in FileIds |-> row] /\ object = [f \in FileIds |-> NoFile]
      /\ fileReq = [q \in FileRequests |-> NoFile] /\ scan = [t \in ScanTasks |-> NoFile]
  BY Zenon DEF FileInit
<1>2. row \in FileObject /\ row.exists = FALSE /\ row.scan_status = "pending"
  BY Zenon DEF FileObject, SCAN_STATUSES
<1>3. row.scan_status # "clean"
  BY Zenon, <1>2
<1> HIDE DEF row
<1>4. FileRowsInv
  BY Zenon, <1>1, <1>2, <1>3 DEF FileRowsInv, Inspected
<1>5. FileRequestInv /\ ScanInv
  BY Zenon, <1>1 DEF FileRequestInv, ScanInv
<1>6. Counted = {} /\ Admitted = {}
  BY Zenon, <1>1, <1>2 DEF Counted, Admitted, GetFile
<1>7. AllowanceInv
  <2> DEFINE n == Cardinality(FileRequests)
  <2>1. Cardinality(Counted) = 0 /\ Cardinality(Admitted) = 0
    BY Zenon, <1>6, FS_EmptySet
  <2>2. n \in Nat /\ n # 0
    BY Zenon, FS_CardinalityType, FS_EmptySet, FileAssumption
  <2> HIDE DEF n
  <2>3. 0 + 0 <= DAILY_USER_LIMIT + n - 1
    BY <2>2, FileAssumption
  <2> QED
    BY Zenon, <2>1, <2>3 DEF n, AllowanceInv
<1> QED
  BY Zenon, <1>4, <1>5, <1>7 DEF FileInv

(* Every step preserves FileInv.                                            *)
LEMMA FileNext_Inv == FileInv /\ [FileNext]_fileVars => FileInv'
<1> SUFFICES ASSUME FileInv, [FileNext]_fileVars PROVE FileInv'
  OBVIOUS
<1>1. ASSUME UNCHANGED fileVars PROVE FileInv'
  <2>1. files' = files /\ object' = object /\ fileReq' = fileReq /\ scan' = scan
    BY Zenon, <1>1 DEF fileVars
  <2>2. Counted' \subseteq Counted /\ Admitted' \subseteq Admitted
    BY Zenon, <2>1 DEF Counted, Admitted, GetFile
  <2>3. AllowanceInv'
    BY Zenon, <2>2, AllowanceKept, FileFacts
  <2> QED
    BY Zenon, <2>1, <2>3, FileFacts, FileInvNext
<1> QED
  BY Zenon, <1>1, RoutesStep, InsertFileStep, FinishCompletionStep, CommitFileStep, PutObjectStep,
     ScansStep DEF FileNext

(* FileInv holds throughout.                                                *)
THEOREM FilesInvariant == FileSpec => []FileInv
<1> QED
  BY FileInit_Inv, FileNext_Inv, PTL DEF FileSpec

(* For any files, requests and scans in flight: a file that the download    *)
(* route releases was inspected and its bytes are fine, and uploads         *)
(* requested at once overrun the daily allowance by less than one file for  *)
(* each request (validate_upload_request reads the total in a transaction   *)
(* of its own).                                                             *)
THEOREM UploadsContained == FileSpec => []UploadsAreContained
<1>1. FileInv => DownloadableIsClean
  BY Zenon, FileFacts DEF DownloadableIsClean, download_url, Inspected
<1>2. FileInv => AllowanceOverrunIsBounded
  <2> SUFFICES ASSUME FileInv PROVE AllowanceOverrunIsBounded
    OBVIOUS
  <2> DEFINE c == Cardinality(Counted)
             d == Cardinality(Admitted)
             n == Cardinality(FileRequests)
  <2>1. c \in Nat /\ d \in Nat /\ n \in Nat /\ c + d <= DAILY_USER_LIMIT + n - 1
    BY Zenon, CountsAreFinite, FileFacts DEF AllowanceInv
  <2>2. c = daily_bytes
    BY Zenon DEF daily_bytes, Counted
  <2> HIDE DEF c, d, n
  <2>3. c <= DAILY_USER_LIMIT + n - 1
    BY <2>1, FileAssumption
  <2> QED
    BY Zenon, <2>2, <2>3 DEF n, AllowanceOverrunIsBounded
<1>3. FileInv => UploadsAreContained
  BY Zenon, <1>1, <1>2 DEF UploadsAreContained
<1> QED
  BY <1>3, FilesInvariant, PTL

(* No step writes the status of a file that has its verdict.                *)
LEMMA VerdictStays ==
  ASSUME FileInv, FileNext, NEW f \in FileIds, files[f].scan_status \in Verdicts
  PROVE  files'[f].scan_status = files[f].scan_status
<1>1. files \in [FileIds -> FileObject]
  BY Zenon, FileFacts
<1>2. files[f].scan_status # "pending" /\ files[f].scan_status # "scanning"
  BY Zenon DEF Verdicts
<1>3. ASSUME NEW q \in FileRequests, InsertFile(q) PROVE files'[f].scan_status = files[f].scan_status
  <2>1. files' = [files EXCEPT ![fileReq[q].id].exists = TRUE]
    BY Zenon, <1>3 DEF InsertFile
  <2> QED
    BY Zenon, <1>1, <2>1 DEF FileObject
<1>4. ASSUME NEW q \in FileRequests, FinishCompletion(q)
      PROVE  files'[f].scan_status = files[f].scan_status
  <2> DEFINE r == fileReq[q]
  <2>1. files' = IF Completable(r.id, r.head) THEN [files EXCEPT ![r.id].scan_status = "scanning"]
                                              ELSE files
    BY Zenon, <1>4 DEF FinishCompletion
  <2>2. Completable(r.id, r.head) => r.id # f
    BY Zenon, <1>2 DEF Completable
  <2> QED
    BY Zenon, <1>1, <2>1, <2>2
<1>5. ASSUME NEW q \in FileRequests, CommitFile(q) PROVE files'[f].scan_status = files[f].scan_status
  BY Zenon, <1>5, DeletedFile DEF CommitFile
<1>6. ASSUME NEW t \in ScanTasks, finalize(t) PROVE files'[f].scan_status = files[f].scan_status
  <2> DEFINE i == scan[t].id
  <2>1. files' = IF files[i].scan_status \in Verdicts THEN files
                 ELSE [files EXCEPT ![i].scan_status = scan[t].state, ![i].sha256 = TRUE]
    BY Zenon, <1>6 DEF finalize
  <2>2. CASE i = f
    BY Zenon, <2>1, <2>2
  <2>3. CASE i # f
    BY Zenon, <1>1, <2>1, <2>3
  <2> QED
    BY Zenon, <2>2, <2>3
<1>7. CASE files' = files
  BY Zenon, <1>7
<1>8. ASSUME NEW q \in FileRequests, FileRoutes(q) \/ DocumentRoutes(q) PROVE files' = files
  BY Zenon, <1>8 DEF FileRoutes, DocumentRoutes, request_upload, complete_upload, delete_file,
     create_document, update_document, delete_document, Begin
<1>9. ASSUME NEW t \in ScanTasks, (\E g \in FileIds : scan_file(t, g)) \/ Inspect(t) \/ record_retry(t)
      PROVE  files' = files
  BY Zenon, <1>9 DEF scan_file, Inspect, record_retry
<1>10. ASSUME NEW g \in FileIds, NEW c \in Contents, PutObject(g, c) PROVE files' = files
  BY Zenon, <1>10 DEF PutObject
<1> QED
  BY Zenon, <1>3, <1>4, <1>5, <1>6, <1>7, <1>8, <1>9, <1>10 DEF FileNext

(* The first verdict on a file stands: finalize, a repeated completion and  *)
(* a deletion loaded before the verdict leave it alone.                     *)
THEOREM VerdictsAreFinal == FileSpec => VerdictIsFinal
<1> DEFINE Stays == \A f \in FileIds : files[f].scan_status \in Verdicts
             => files'[f].scan_status = files[f].scan_status
<1>1. FileInv /\ [FileNext]_fileVars => [Stays]_fileVars
  BY Zenon, VerdictStays
<1> QED
  BY <1>1, FilesInvariant, PTL DEF FileSpec, VerdictIsFinal

-----------------------------------------------------------------------------
(* Files: the documents.  Times are stamped and never taken back, so what a *)
(* request saw of them still holds when it commits; one that brings a       *)
(* stamped status brings its time.                                          *)
DocColumns == {"exists", "deleted", "status", "file_id"} \cup Stamps

DocOK(row) ==
  DOMAIN row = DocColumns /\ (row.status \in Stamps => row[row.status] = TRUE)

DocWrite(row, old, new) ==
  /\ \A s \in Stamps : /\ old[s] = TRUE => row[s] = TRUE
                       /\ new[s] # old[s] => new[s] = TRUE
  /\ new.status # old.status /\ new.status \in Stamps => new[new.status] = TRUE

DocRequestOK(rows, r) ==
  /\ r.id \in DocIds /\ DOMAIN r.writes = {r.id}
  /\ DocWrite(rows[r.id], r.writes[r.id].old, r.writes[r.id].new)

DocInv ==
  /\ DOMAIN docs = DocIds /\ \A d \in DocIds : DocOK(docs[d])
  /\ DOMAIN fileReq = FileRequests
  /\ \A q \in FileRequests : fileReq[q] # NoFile /\ fileReq[q].op = "document" =>
       DocRequestOK(docs, fileReq[q])

(* A flush over a document keeps every stamp it has.                        *)
LEMMA DocFlush ==
  ASSUME NEW row, DocOK(row), NEW old, NEW new, DocWrite(row, old, new)
  PROVE  /\ DocOK(Flush(row, old, new))
         /\ \A s \in Stamps : row[s] = TRUE => Flush(row, old, new)[s] = TRUE
<1>1. PICK x : x = Flush(row, old, new)
  BY Zenon
<1>2. DOMAIN x = DocColumns /\ Stamps \subseteq DocColumns /\ "status" \in DocColumns
  BY Zenon, <1>1 DEF Flush, DocOK, DocColumns
<1>3. \A f \in DocColumns : x[f] = IF new[f] # old[f] THEN new[f] ELSE row[f]
  BY Zenon, <1>1 DEF Flush, DocOK
<1>4. \A s \in Stamps : row[s] = TRUE => x[s] = TRUE
  BY Zenon, <1>2, <1>3 DEF DocWrite
<1>5. ASSUME x.status \in Stamps
      PROVE  x[x.status] = TRUE
  <2>1. CASE new.status = old.status
    <3>1. x.status = row.status
      BY Zenon, <2>1, <1>2, <1>3
    <3> QED
      BY Zenon, <3>1, <1>4, <1>5 DEF DocOK
  <2>2. CASE new.status # old.status
    <3>1. x.status = new.status /\ new[x.status] = TRUE
      BY Zenon, <2>2, <1>2, <1>3, <1>5 DEF DocWrite
    <3>2. x[x.status] = IF new[x.status] # old[x.status] THEN new[x.status] ELSE row[x.status]
      BY Zenon, <1>2, <1>3, <1>5
    <3>3. old[x.status] = TRUE => row[x.status] = TRUE
      BY Zenon, <1>5 DEF DocWrite
    <3> QED
      BY Zenon, <3>1, <3>2, <3>3
  <2> QED
    BY Zenon, <2>1, <2>2
<1> QED
  BY Zenon, <1>1, <1>2, <1>4, <1>5 DEF DocOK

(* A request of the document routes, or any other.                          *)
LEMMA DocBegins ==
  ASSUME DocInv, NEW q \in FileRequests, NEW r, Begin(q, r),
         r.op = "document" => DocRequestOK(docs, r)
  PROVE  DocInv'
<1>1. /\ docs' = docs /\ DOMAIN fileReq' = FileRequests /\ fileReq'[q] = r
      /\ \A p \in FileRequests : p # q => fileReq'[p] = fileReq[p]
  BY Zenon DEF Begin, DocInv
<1> QED
  BY Zenon, <1>1 DEF DocInv

(* A request that loads a document.                                         *)
LEMMA DocLoads ==
  ASSUME DocInv, NEW q \in FileRequests, NEW d \in DocIds, NEW new,
         Begin(q, LoadAs("document", d, docs[d], new)),
         DocWrite(docs[d], docs[d], new)
  PROVE  DocInv'
<1>1. PICK r : r = LoadAs("document", d, docs[d], new)
  BY Zenon
<1>2. r.id = d /\ DOMAIN r.writes = {d} /\ r.writes[d].old = docs[d] /\ r.writes[d].new = new
  BY <1>1 DEF LoadAs, Write
<1>3. DocRequestOK(docs, r)
  BY Zenon, <1>2 DEF DocRequestOK
<1> QED
  BY Zenon, <1>1, <1>3, DocBegins

(* A change of status only adds stamps.                                     *)
LEMMA StampedWrites ==
  ASSUME NEW row, DocOK(row), NEW status
  PROVE  DocWrite(row, row, Stamped(row, status))
<1>1. PICK x : x = Stamped(row, status)
  BY Zenon
<1>2. DOMAIN row = DocColumns /\ "status" \in DocColumns /\ Stamps \subseteq DocColumns
      /\ "status" \notin Stamps
  BY DEF DocOK, DocColumns, Stamps
<1>3. x.status = status
  BY Zenon, <1>1, <1>2 DEF Stamped
<1>4. ASSUME NEW s \in Stamps, x[s] # row[s]
      PROVE  x[s] = TRUE
  BY Zenon, <1>1, <1>2, <1>4 DEF Stamped
<1>5. ASSUME status # row.status, status \in Stamps
      PROVE  x[status] = TRUE
  BY <1>1, <1>2, <1>5 DEF Stamped
<1> QED
  BY Zenon, <1>1, <1>3, <1>4, <1>5 DEF DocWrite

(* The routes on documents.                                                 *)
LEMMA DocumentStep ==
  ASSUME DocInv, NEW q \in FileRequests, DocumentRoutes(q)
  PROVE  DocInv'
<1>1. PICK d \in DocIds :
        \/ \E f \in FileIds \cup {NoFile} : create_document(q, d, f)
        \/ \E s \in DocTargets : update_document(q, d, s, "current")
        \/ delete_document(q, d)
  BY Zenon DEF DocumentRoutes
<1>2. DocOK(docs[d])
  BY Zenon DEF DocInv
<1>3. ASSUME NEW f \in FileIds \cup {NoFile}, create_document(q, d, f)
      PROVE  DocInv'
  <2>1. DocWrite(docs[d], docs[d], [docs[d] EXCEPT !.exists = TRUE, !.file_id = f])
    BY <1>2 DEF DocWrite, DocOK, DocColumns, Stamps
  <2> QED
    BY Zenon, <1>3, <2>1, DocLoads DEF create_document
<1>4. ASSUME NEW s \in DocTargets, update_document(q, d, s, "current")
      PROVE  DocInv'
  BY Zenon, <1>2, <1>4, DocLoads, StampedWrites DEF update_document
<1>5. CASE delete_document(q, d)
  <2>1. DocWrite(docs[d], docs[d], [docs[d] EXCEPT !.deleted = TRUE])
    BY <1>2 DEF DocWrite, DocOK, DocColumns, Stamps
  <2> QED
    BY Zenon, <1>5, <2>1, DocLoads DEF delete_document
<1> QED
  BY Zenon, <1>1, <1>3, <1>4, <1>5

(* The commit of a change of a document.                                    *)
LEMMA CommitDocument ==
  ASSUME DocInv, NEW q \in FileRequests, CommitFile(q), fileReq[q].op = "document"
  PROVE  DocInv'
<1>1. PICK r : r = fileReq[q]
  BY Zenon
<1>2. PICK d : d = r.id
  BY Zenon
<1>3. /\ d \in DocIds /\ DOMAIN r.writes = {d} /\ DOMAIN docs = DocIds
      /\ DocWrite(docs[d], r.writes[d].old, r.writes[d].new) /\ DocOK(docs[d])
  BY Zenon, <1>1, <1>2 DEF CommitFile, DocInv, DocRequestOK
<1>4. PICK x : x = Flush(docs[d], r.writes[d].old, r.writes[d].new)
  BY Zenon
<1>5. DocOK(x) /\ \A s \in Stamps : docs[d][s] = TRUE => x[s] = TRUE
  BY ZenonT(40), <1>3, <1>4, DocFlush
<1>6. docs' = [e \in DocIds |-> IF e = d THEN x ELSE docs[e]]
  <2>1. docs' = Commit(docs, r)
    BY <1>1 DEF CommitFile
  <2> QED
    BY <2>1, <1>3, <1>4 DEF Commit, Dirty
<1>7. /\ DOMAIN fileReq' = FileRequests
      /\ \A p \in FileRequests : fileReq'[p] # NoFile => fileReq'[p] = fileReq[p]
  BY Zenon DEF CommitFile, DocInv
<1>8. ASSUME NEW p \in FileRequests, fileReq[p] # NoFile, fileReq[p].op = "document"
      PROVE  DocRequestOK(docs', fileReq[p])
  <2>1. PICK s : s = fileReq[p]
    BY Zenon
  <2>2. PICK e : e = s.id
    BY Zenon
  <2>3. e \in DocIds /\ DOMAIN s.writes = {e} /\ DocWrite(docs[e], s.writes[e].old, s.writes[e].new)
    BY Zenon, <1>8, <2>1, <2>2 DEF DocInv, DocRequestOK
  <2>4. \A stamp \in Stamps : docs[e][stamp] = TRUE => docs'[e][stamp] = TRUE
    BY Zenon, <2>3, <1>5, <1>6
  <2>5. DocWrite(docs'[e], s.writes[e].old, s.writes[e].new)
    BY Zenon, <2>3, <2>4 DEF DocWrite
  <2> QED
    BY Zenon, <2>1, <2>2, <2>3, <2>5 DEF DocRequestOK
<1>9. \A e \in DocIds : DocOK(docs'[e])
  BY Zenon, <1>5, <1>6 DEF DocInv
<1> QED
  BY Zenon, <1>6, <1>7, <1>8, <1>9 DEF DocInv

(* Files: the inductive invariant of the documents.                         *)
THEOREM DocumentsInvariant == FileSpec => []DocInv
<1>1. FileInit => DocInv
  BY DEF FileInit, DocInv, DocOK, DocColumns, Stamps
<1>2. DocInv /\ [FileNext]_fileVars => DocInv'
  <2> SUFFICES ASSUME DocInv, [FileNext]_fileVars
               PROVE  DocInv'
    OBVIOUS
  <2>1. ASSUME NEW q \in FileRequests, FileRoutes(q)
        PROVE  DocInv'
    <3>1. PICK r : Begin(q, r) /\ r.op # "document"
      <4>1. \A f, c, old, new : /\ [op |-> "upload", id |-> f].op # "document"
                                /\ [op |-> "complete", id |-> f, head |-> c].op # "document"
                                /\ LoadAs("file", f, old, new).op # "document"
        BY DEF LoadAs
      <4> QED
        BY Zenon, <2>1, <4>1 DEF FileRoutes, request_upload, complete_upload, delete_file
    <3> QED
      BY Zenon, <3>1, DocBegins
  <2>2. ASSUME NEW q \in FileRequests, docs' = docs, fileReq' = [fileReq EXCEPT ![q] = NoFile]
        PROVE  DocInv'
    BY Zenon, <2>2 DEF DocInv
  <2>3. ASSUME NEW q \in FileRequests, CommitFile(q)
        PROVE  DocInv'
    BY Zenon, <2>2, <2>3, CommitDocument DEF CommitFile
  <2>4. ASSUME NEW q \in FileRequests, InsertFile(q) \/ FinishCompletion(q)
        PROVE  DocInv'
    BY Zenon, <2>2, <2>4 DEF InsertFile, FinishCompletion
  <2>5. CASE UNCHANGED <<docs, fileReq>>
    BY Zenon, <2>5 DEF DocInv
  <2>6. CASE \E t \in ScanTasks : (\E f \in FileIds : scan_file(t, f)) \/ Inspect(t)
                                   \/ record_retry(t) \/ finalize(t)
    BY Zenon, <2>5, <2>6 DEF scan_file, Inspect, record_retry, finalize
  <2>7. CASE \E f \in FileIds, c \in Contents : PutObject(f, c)
    BY Zenon, <2>5, <2>7 DEF PutObject
  <2>8. CASE UNCHANGED fileVars
    BY Zenon, <2>5, <2>8 DEF fileVars
  <2> QED
    BY Zenon, <2>1, <2>3, <2>4, <2>6, <2>7, <2>8, DocumentStep DEF FileNext
<1> QED
  BY <1>1, <1>2, PTL DEF FileSpec

(* Files: a document in a stamped status carries that status's time,        *)
(* whatever requests loaded it before and commit after (update_document).   *)
THEOREM StatusesAreStamped == FileSpec => []StatusIsStamped
<1>1. DocInv => StatusIsStamped
  BY Zenon DEF DocInv, DocOK, StatusIsStamped
<1> QED
  BY <1>1, DocumentsInvariant, PTL
=============================================================================
