---------------------------- MODULE TaskDelivery ----------------------------
(***************************************************************************)
(* Celery tasks as the platform runs them: the airev_task wrapper          *)
(* (celery/tasks/base.py), retry classification, dead letters and their    *)
(* replay (celery/reliability.py) over an acks_late broker.                *)
(*                                                                         *)
(* A message keeps its attempt number.  A worker holds it unacknowledged   *)
(* while the task runs; a lost worker returns it.  A retry is a new        *)
(* message, published before the old one is acknowledged; a dead letter is *)
(* committed before its message is rejected.  An exception that leaves the *)
(* wrapper rejects the message without requeueing it.                      *)
(***************************************************************************)
EXTENDS Integers, FiniteSets

CONSTANTS
  Tasks,         \* task invocations
  Headerless,    \* tenant-scoped invocations sent without a tenant header
  Workers,
  Operators,     \* replay_dead_letter calls in progress
  None,          \* no task
  max_attempts,  \* 3 by default
  MaxLost,       \* bound on lost workers and lost replays
  MaxOutages,    \* bound on failed retry publications and dead letter writes
  MaxReplays,    \* bound on replays
  MaxLetters     \* bound on dead_letters rows

ASSUME TaskAssumption ==
  /\ Headerless \subseteq Tasks /\ None \notin Tasks
  /\ max_attempts \in Nat \ {0}
  /\ MaxLost \in Nat /\ MaxOutages \in Nat /\ MaxReplays \in Nat /\ MaxLetters \in Nat

VARIABLES
  sent,        \* invocations enqueued by the application
  queue,       \* messages of each task waiting, by attempt number
  pc, task, attempt,              \* per worker
  done,        \* tasks whose function has returned at least once
  starts,      \* times a task's function was started
  dropped,     \* tasks with a message rejected and recorded nowhere
  letter,      \* "absent", "open", "replayed" or "reaped"
  letterTask,  \* task of each letter
  replaying,   \* per operator: "idle", "read" (row read) or "sent"
  target,      \* letter an operator replays
  lost, outages, replays

worker == <<pc, task, attempt>>
letters == <<letter, letterTask>>
operators == <<replaying, target>>
bounds == <<lost, outages, replays>>
vars == <<sent, queue, worker, done, starts, dropped, letters, operators, bounds>>

Attempts == 1..max_attempts
Letters == 1..MaxLetters

TypeOK ==
  /\ sent \subseteq Tasks /\ done \subseteq Tasks /\ dropped \subseteq Tasks
  /\ queue \in [Tasks -> [Attempts -> Nat]]
  /\ pc \in [Workers -> {"idle", "running", "retrying", "exhausted", "acking"}]
  /\ task \in [Workers -> Tasks \cup {None}] /\ attempt \in [Workers -> Attempts]
  /\ \A w \in Workers : pc[w] # "idle" => task[w] \in Tasks
  /\ starts \in [Tasks -> Nat]
  /\ letter \in [Letters -> {"absent", "open", "replayed", "reaped"}]
  /\ letterTask \in [Letters -> Tasks \cup {None}]
  /\ \A l \in Letters : letter[l] # "absent" => letterTask[l] \in Tasks
  /\ replaying \in [Operators -> {"idle", "read", "sent"}]
  /\ target \in [Operators -> Letters \cup {0}]
  /\ \A o \in Operators : replaying[o] # "idle" => target[o] \in Letters /\ letter[target[o]] # "absent"
  /\ lost \in Nat /\ outages \in Nat /\ replays \in Nat

Init ==
  /\ sent = {} /\ done = {} /\ dropped = {}
  /\ queue = [t \in Tasks |-> [a \in Attempts |-> 0]]
  /\ pc = [w \in Workers |-> "idle"]
  /\ task = [w \in Workers |-> None]
  /\ attempt = [w \in Workers |-> 1]
  /\ starts = [t \in Tasks |-> 0]
  /\ letter = [l \in Letters |-> "absent"]
  /\ letterTask = [l \in Letters |-> None]
  /\ replaying = [o \in Operators |-> "idle"]
  /\ target = [o \in Operators |-> 0]
  /\ lost = 0 /\ outages = 0 /\ replays = 0

-----------------------------------------------------------------------------
Queued(t, a) == [queue EXCEPT ![t][a] = @ + 1]

ApplyAsync(t) ==
  /\ t \notin sent
  /\ sent' = sent \cup {t}
  /\ queue' = Queued(t, 1)
  /\ UNCHANGED <<worker, done, starts, dropped, letters, operators, bounds>>

Take_NotRetries(w, t, a) ==
  /\ pc[w] = "idle" /\ a = 1
  /\ queue[t][a] > 0
  /\ queue' = [queue EXCEPT ![t][a] = @ - 1]

Take(w, t, a) ==
  /\ pc[w] = "idle"
  /\ queue[t][a] > 0
  /\ queue' = [queue EXCEPT ![t][a] = @ - 1]

(* require_tenant raises before the wrapper's try: nothing is recorded.     *)
Refuse(w, t, a) ==
  /\ t \in Headerless
  /\ Take(w, t, a)
  /\ dropped' = dropped \cup {t}
  /\ UNCHANGED <<sent, worker, done, starts, letters, operators, bounds>>

Start(w, t, a) ==
  /\ t \notin Headerless
  /\ Take(w, t, a)
  /\ pc' = [pc EXCEPT ![w] = "running"]
  /\ task' = [task EXCEPT ![w] = t]
  /\ attempt' = [attempt EXCEPT ![w] = a]
  /\ starts' = [starts EXCEPT ![t] = @ + 1]
  /\ UNCHANGED <<sent, done, dropped, letters, operators, bounds>>

Continue(w, next) ==
  /\ pc' = [pc EXCEPT ![w] = next]
  /\ UNCHANGED <<sent, task, attempt, starts, operators>>

LetGo(w) ==
  /\ pc' = [pc EXCEPT ![w] = "idle"]
  /\ task' = [task EXCEPT ![w] = None]
  /\ attempt' = [attempt EXCEPT ![w] = 1]
  /\ UNCHANGED <<sent, starts, operators>>

Return(w) ==
  /\ pc[w] = "running"
  /\ done' = done \cup {task[w]}
  /\ Continue(w, "acking")
  /\ UNCHANGED <<queue, dropped, letters, bounds>>

(* is_retryable: should_retry over the class of the exception.              *)
RetryClasses == {"transient", "provider", "rate_limited", "terminal"}

ShouldRetry(class, a) == class # "terminal" /\ a < max_attempts

Raise(w) ==
  /\ pc[w] = "running"
  /\ \E class \in RetryClasses :
       Continue(w, IF ShouldRetry(class, attempt[w]) THEN "retrying" ELSE "exhausted")
  /\ UNCHANGED <<queue, done, dropped, letters, bounds>>

NextAttempt_Same(a) == a

NextAttempt(a) == a + 1

PublishRetry(w) ==
  /\ pc[w] = "retrying"
  /\ queue' = Queued(task[w], NextAttempt(attempt[w]))
  /\ Continue(w, "acking")
  /\ UNCHANGED <<done, dropped, letters, bounds>>

WriteDeadLetter(w) ==
  /\ pc[w] = "exhausted"
  /\ \E l \in Letters :
       /\ letter[l] = "absent" /\ \A k \in 1..(l - 1) : letter[k] # "absent"
       /\ letter' = [letter EXCEPT ![l] = "open"]
       /\ letterTask' = [letterTask EXCEPT ![l] = task[w]]
  /\ Continue(w, "acking")
  /\ UNCHANGED <<queue, done, dropped, bounds>>

(* The broker refuses the retry, or the database the dead letter: the new   *)
(* exception rejects the message.                                           *)
Outage(w) ==
  /\ pc[w] \in {"retrying", "exhausted"}
  /\ outages < MaxOutages
  /\ outages' = outages + 1
  /\ dropped' = dropped \cup {task[w]}
  /\ LetGo(w)
  /\ UNCHANGED <<queue, done, letters, lost, replays>>

Ack(w) ==
  /\ pc[w] = "acking"
  /\ LetGo(w)
  /\ UNCHANGED <<queue, done, dropped, letters, bounds>>

(* The process dies or exceeds the hard time limit; acks_late and           *)
(* reject_on_worker_lost return the message with its attempt number.        *)
WorkerLost_AcksEarly(w) ==
  /\ pc[w] # "idle"
  /\ lost < MaxLost
  /\ lost' = lost + 1
  /\ LetGo(w)
  /\ UNCHANGED <<queue, done, dropped, letters, outages, replays>>

WorkerLost(w) ==
  /\ pc[w] # "idle"
  /\ lost < MaxLost
  /\ lost' = lost + 1
  /\ queue' = Queued(task[w], attempt[w])
  /\ LetGo(w)
  /\ UNCHANGED <<done, dropped, letters, outages, replays>>

-----------------------------------------------------------------------------
(* replay_dead_letter: an unlocked read, the message, then replayed_at.     *)

ReplayRead(o, l) ==
  /\ replaying[o] = "idle"
  /\ letter[l] = "open"
  /\ replays < MaxReplays
  /\ replays' = replays + 1
  /\ replaying' = [replaying EXCEPT ![o] = "read"]
  /\ target' = [target EXCEPT ![o] = l]
  /\ UNCHANGED <<sent, queue, worker, done, starts, dropped, letters, lost, outages>>

ReplaySend(o) ==
  /\ replaying[o] = "read"
  /\ queue' = Queued(letterTask[target[o]], 1)
  /\ replaying' = [replaying EXCEPT ![o] = "sent"]
  /\ UNCHANGED <<sent, worker, done, starts, dropped, letters, target, bounds>>

EndReplay(o) ==
  /\ replaying' = [replaying EXCEPT ![o] = "idle"]
  /\ target' = [target EXCEPT ![o] = 0]

(* The update finds no row when the reaper was faster.                      *)
ReplayCommit(o) ==
  /\ replaying[o] = "sent"
  /\ letter' = [letter EXCEPT ![target[o]] = IF @ = "reaped" THEN @ ELSE "replayed"]
  /\ EndReplay(o)
  /\ UNCHANGED <<sent, queue, worker, done, starts, dropped, letterTask, bounds>>

ReplayLost(o) ==
  /\ replaying[o] # "idle"
  /\ lost < MaxLost
  /\ lost' = lost + 1
  /\ EndReplay(o)
  /\ UNCHANGED <<sent, queue, worker, done, starts, dropped, letters, outages, replays>>

(* reap_expired_dead_letters, after the retention of 14 days.               *)
Reap(l) ==
  /\ letter[l] \in {"open", "replayed"}
  /\ letter' = [letter EXCEPT ![l] = "reaped"]
  /\ UNCHANGED <<sent, queue, worker, done, starts, dropped, letterTask, operators, bounds>>

-----------------------------------------------------------------------------
Receive(w) == \E t \in Tasks, a \in Attempts : Refuse(w, t, a) \/ Start(w, t, a)

Work(w) == Return(w) \/ Raise(w) \/ PublishRetry(w) \/ WriteDeadLetter(w) \/ Ack(w)

Next ==
  \/ \E t \in Tasks : ApplyAsync(t)
  \/ \E w \in Workers : Receive(w) \/ Work(w) \/ Outage(w) \/ WorkerLost(w)
  \/ \E o \in Operators : (\E l \in Letters : ReplayRead(o, l)) \/ ReplaySend(o)
                          \/ ReplayCommit(o) \/ ReplayLost(o)
  \/ \E l \in Letters : Reap(l)

Spec == Init /\ [][Next]_vars

(* Some worker takes a waiting message, and a task that runs returns or     *)
(* raises: the hard time limit ends it otherwise.                           *)
Fairness ==
  /\ WF_vars(\E w \in Workers : Receive(w))
  /\ \A w \in Workers : WF_vars(Work(w))

FairSpec == Spec /\ Fairness

-----------------------------------------------------------------------------
Recorded(l) ==
  \/ letter[l] = "reaped"
  \/ letter[l] = "open" /\ \A o \in Operators : ~(replaying[o] = "sent" /\ target[o] = l)

Kept(t) ==
  \/ \E a \in Attempts : queue[t][a] > 0
  \/ \E w \in Workers : task[w] = t /\ pc[w] \in {"running", "retrying", "exhausted"}
  \/ \E l \in Letters : letterTask[l] = t /\ Recorded(l)

(* An invocation is never forgotten: until its function has returned it is  *)
(* waiting, in a worker that still owes a retry or a dead letter, or has a  *)
(* dead letter that is not just being replayed, although workers and        *)
(* replays are lost anywhere.  Only an outage in the failure path and a     *)
(* missing tenant header lose it (base.py:87, base.py:105).                 *)
NothingVanishes == \A t \in sent \ (done \cup dropped) : Kept(t)

(* A failing task is started at most max_attempts times for each time it    *)
(* was enqueued, unless a worker was lost (retry.py:39).                    *)
RetryBudget ==
  lost = 0 => \A t \in Tasks : starts[t] <= max_attempts * (1 + replays)

(* Every invocation comes to an end: its function returns, it is recorded   *)
(* as a dead letter, or the outage or refusal above rejects it.             *)
EveryTaskConcludes ==
  \A t \in Tasks :
    t \in sent ~> t \in done \cup dropped \/ \E l \in Letters : letter[l] # "absent" /\ letterTask[l] = t
=============================================================================
