--------------------------- MODULE ActionDispatch ---------------------------
(***************************************************************************)
(* One action node of one workflow execution, dispatched by concurrent     *)
(* runs of that execution (redelivered messages, resumed executions):      *)
(* _run_with_retry (executor.py), dispatch_action and _execute_once        *)
(* (workflows/actions.py).                                                 *)
(*                                                                         *)
(* The receipt is an audit row whose correlation drops the attempt number. *)
(* A PostgreSQL advisory lock of a separate session serialises the check   *)
(* of the receipt and the application of the action.                       *)
(***************************************************************************)
EXTENDS Naturals

CONSTANTS
  Runs,          \* deliveries of the execution that reach the node
  None,          \* no run
  Kinds,         \* kinds of action the node may have, a subset of AllKinds
  max_attempts,  \* retry_attempts + 1
  MaxCrashes,    \* bound on worker deaths
  MaxCuts        \* bound on lost receipt connections

AllKinds == {"service",  \* change and audit row in one transaction
             "keyed",    \* the same, and the row has a unique key: notification, webhook
             "ai",       \* provider call, then the audit row: _run_ai
             "reply"}    \* provider call, then rows without an expected receipt

ASSUME ActionAssumption ==
  /\ None \notin Runs
  /\ Kinds \subseteq AllKinds
  /\ max_attempts \in Nat \ {0}
  /\ MaxCrashes \in Nat /\ MaxCuts \in Nat

VARIABLES
  kind,        \* kind of the node's action
  authorised,  \* the publisher is active and has the permission now
  pc,          \* per run
  attempt,     \* per run
  lock,        \* holder of the advisory lock
  effects,     \* times the action has had its effect
  mutated,     \* a database change of the action has committed
  receipt,     \* the audit row exists
  crashes, cuts

node == <<effects, mutated, receipt>>
world == <<kind, authorised, crashes, cuts>>
vars == <<kind, authorised, pc, attempt, lock, effects, mutated, receipt, crashes, cuts>>

Critical == {"check", "apply", "record", "verify"}
Active == {"load", "lock"} \cup Critical

TypeOK ==
  /\ kind \in AllKinds /\ authorised \in BOOLEAN
  /\ pc \in [Runs -> {"idle", "completed", "failed"} \cup Active]
  /\ attempt \in [Runs -> 1..max_attempts]
  /\ lock \in Runs \cup {None}
  /\ effects \in Nat /\ mutated \in BOOLEAN /\ receipt \in BOOLEAN
  /\ crashes \in Nat /\ cuts \in Nat

Init ==
  /\ kind \in Kinds /\ authorised = TRUE
  /\ pc = [r \in Runs |-> "idle"]
  /\ attempt = [r \in Runs |-> 1]
  /\ lock = None
  /\ effects = 0 /\ mutated = FALSE /\ receipt = FALSE
  /\ crashes = 0 /\ cuts = 0

-----------------------------------------------------------------------------
Goto(r, next) == pc' = [pc EXCEPT ![r] = next] /\ UNCHANGED attempt

(* The receipt session's transaction ends, and with it the lock.            *)
Unlock(r) == lock' = IF lock = r THEN None ELSE lock

(* The except clauses: a terminal class or an exhausted budget fails the    *)
(* node, anything else starts the next attempt.                             *)
ShouldRetry(class, a) == class # "terminal" /\ a < max_attempts

Fail(r, class) ==
  IF ShouldRetry(class, attempt[r])
    THEN pc' = [pc EXCEPT ![r] = "load"] /\ attempt' = [attempt EXCEPT ![r] = @ + 1]
    ELSE Goto(r, "failed")

Begin(r) ==
  /\ pc[r] = "idle"
  /\ pc' = [pc EXCEPT ![r] = "load"]
  /\ attempt' = [attempt EXCEPT ![r] = 1]
  /\ UNCHANGED <<lock, node, world>>

(* The permission, feature and channel gates of dispatch_action.            *)
Permitted == authorised

(* load_automation_principal and the gates, in a transaction of their own;  *)
(* every refusal is terminal.                                               *)
LoadPrincipal(r) ==
  /\ pc[r] = "load"
  /\ IF Permitted THEN Goto(r, "lock") ELSE Fail(r, "terminal")
  /\ UNCHANGED <<lock, node, world>>

LoadFails(r) ==
  /\ pc[r] = "load"
  /\ Fail(r, "transient")
  /\ UNCHANGED <<lock, node, world>>

(* pg_advisory_xact_lock                                                    *)
LockFree_Reentrant(r) == lock = r

LockFree(r) == lock = None

AcquireLock(r) ==
  /\ pc[r] = "lock"
  /\ LockFree(r)
  /\ lock' = r
  /\ Goto(r, "check")
  /\ UNCHANGED <<node, world>>

(* The statement timeout ends a wait for the lock.                          *)
LockTimeout(r) ==
  /\ pc[r] = "lock"
  /\ lock # None
  /\ Fail(r, "transient")
  /\ UNCHANGED <<lock, node, world>>

Found_Never == FALSE

Found == receipt

(* A cut receipt connection raises here and in Verify.                      *)
CheckReceipt(r) ==
  /\ pc[r] = "check"
  /\ IF lock # r THEN Fail(r, "transient")
     ELSE Goto(r, IF Found THEN "completed" ELSE "apply")
  /\ IF lock = r /\ ~Found THEN UNCHANGED lock ELSE Unlock(r)
  /\ UNCHANGED <<node, world>>

(* insert ... on conflict do nothing                                        *)
Conflict == kind = "keyed" /\ effects > 0

Apply(r) ==
  /\ pc[r] = "apply"
  /\ effects' = IF Conflict THEN effects ELSE effects + 1
  /\ IF kind \in {"service", "keyed"}
       THEN receipt' = TRUE /\ mutated' = TRUE /\ Goto(r, "verify")
       ELSE UNCHANGED <<receipt, mutated>> /\ Goto(r, "record")
  /\ UNCHANGED <<lock, world>>

ApplyFails(r) ==
  /\ pc[r] = "apply"
  /\ \E class \in {"transient", "terminal"} : Fail(r, class)
  /\ Unlock(r)
  /\ UNCHANGED <<node, world>>

(* A WhatsApp reply to a lead is audited as whatsapp.reply, which is none   *)
(* of the audit rows dispatch_action expects of message.send_whatsapp.      *)
Receipted == kind # "reply"

(* The transaction after the provider call.                                 *)
Record(r) ==
  /\ pc[r] = "record"
  /\ mutated' = TRUE
  /\ receipt' = (receipt \/ Receipted)
  /\ Goto(r, "verify")
  /\ UNCHANGED <<effects, lock, world>>

RecordFails(r) ==
  /\ pc[r] = "record"
  /\ Fail(r, "transient")
  /\ Unlock(r)
  /\ UNCHANGED <<node, world>>

Proof_Skipped(r) == TRUE

Proof(r) == receipt /\ lock = r

Verify(r) ==
  /\ pc[r] = "verify"
  /\ IF Proof(r) THEN Goto(r, "completed") ELSE Fail(r, "transient")
  /\ Unlock(r)
  /\ UNCHANGED <<node, world>>

-----------------------------------------------------------------------------
(* The worker dies; its message is delivered again.                         *)
Crash(r) ==
  /\ pc[r] \in Active
  /\ crashes < MaxCrashes
  /\ crashes' = crashes + 1
  /\ Goto(r, "idle")
  /\ Unlock(r)
  /\ UNCHANGED <<node, kind, authorised, cuts>>

(* The receipt session loses its connection while the action, in a session  *)
(* of its own, goes on.                                                     *)
Cut(r) ==
  /\ lock = r
  /\ cuts < MaxCuts
  /\ cuts' = cuts + 1
  /\ lock' = None
  /\ UNCHANGED <<pc, attempt, node, kind, authorised, crashes>>

(* The workflow is stopped or its publisher loses the permission.           *)
Revoke ==
  /\ authorised
  /\ authorised' = FALSE
  /\ UNCHANGED <<pc, attempt, lock, node, kind, crashes, cuts>>

Step(r) ==
  \/ LoadPrincipal(r) \/ AcquireLock(r) \/ CheckReceipt(r)
  \/ Apply(r) \/ Record(r) \/ Verify(r)

Failure(r) == LoadFails(r) \/ LockTimeout(r) \/ ApplyFails(r) \/ RecordFails(r)

Next ==
  \/ \E r \in Runs : Begin(r) \/ Step(r) \/ Failure(r) \/ Crash(r) \/ Cut(r)
  \/ Revoke

Spec == Init /\ [][Next]_vars

(* A run takes its next step; a lock held for the length of the statement   *)
(* timeout raises in whoever waits for it.                                  *)
Fairness == \A r \in Runs : WF_vars(Step(r) \/ Failure(r))

FairSpec == Spec /\ Fairness

-----------------------------------------------------------------------------
(* However many runs and attempts reach the node, a keyed action has its    *)
(* effect at most once, and so has a service action while no receipt        *)
(* connection is cut under its lock (actions.py:264-296).                   *)
AtMostOneEffect ==
  /\ kind = "keyed" => effects <= 1
  /\ kind = "service" /\ cuts = 0 => effects <= 1

(* A node recorded as completed has had its effect, and the receipt proves  *)
(* it to every later run (actions.py:281, 312).                             *)
CompletedHasReceipt ==
  \A r \in Runs : pc[r] = "completed" => receipt /\ effects > 0

(* No two runs are between the receipt's check and its verification unless  *)
(* a connection was cut (actions.py:265).                                   *)
OneRunApplies ==
  cuts = 0 => \A r, s \in Runs : pc[r] \in Critical /\ pc[s] \in Critical => r = s

(* A run that reaches the node completes it, fails it or dies: waiting for  *)
(* the lock never ends in everyone waiting.                                 *)
EveryRunConcludes ==
  \A r \in Runs : pc[r] = "load" ~> pc[r] \in {"completed", "failed", "idle"}
=============================================================================
