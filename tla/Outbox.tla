------------------------------- MODULE Outbox -------------------------------
(***************************************************************************)
(* The transactional outbox and its pollers                                *)
(* (infrastructure/messaging/outbox.py, scheduled.relay_outbox and         *)
(* scripts/run_outbox.py).                                                 *)
(*                                                                         *)
(* A unit of work commits its outbox row with its state change.  A poller  *)
(* claims a batch of due rows FOR UPDATE SKIP LOCKED and, in that same     *)
(* transaction, calls the handlers of each row in order.  A handler        *)
(* commits in a session of its own, so its effect survives when the        *)
(* poller's transaction does not.  The row updates of a batch (processed,  *)
(* or one more attempt) commit together at its end.                        *)
(***************************************************************************)
EXTENDS Integers, Sequences, FiniteSets

CONSTANTS
  Events,          \* rows, numbered in occurred_at order
  HandlersFor,     \* handlers_for(event_type) of each row, a sequence
  Pollers,         \* concurrent run_once cycles
  MAX_ATTEMPTS,    \* 8 in the code
  BATCH_SIZE,      \* 100 in the code
  MaxCrashes       \* bound on poller transactions that do not commit

ASSUME OutboxAssumption ==
  /\ Events \subseteq Nat
  /\ \A e \in Events : Len(HandlersFor[e]) \in Nat
  /\ MAX_ATTEMPTS \in Nat \ {0}
  /\ BATCH_SIZE \in Nat \ {0}
  /\ MaxCrashes \in Nat

VARIABLES
  processed,  \* "absent", "no" (processed_at IS NULL), "done", "dead" or "pruned"
  attempts,   \* event_outbox.attempts
  due,        \* available_at IS NULL or has passed
  ran,        \* handlers whose effect on the row's event is committed
  batch,      \* rows a poller has locked
  position,   \* row the poller is dispatching, None between rows
  index,      \* next handler of that row
  staged,     \* uncommitted update of each locked row
  crashes

rowVars == <<processed, attempts, due>>
pollVars == <<batch, position, index, staged>>
vars == <<rowVars, ran, pollVars, crashes>>

Updates == {"none", "done", "retry", "dead"}
Handlers(e) == {HandlersFor[e][i] : i \in 1..Len(HandlersFor[e])}
None == -1

TypeOK ==
  /\ processed \in [Events -> {"absent", "no", "done", "dead", "pruned"}]
  /\ attempts \in [Events -> Nat]
  /\ due \in [Events -> BOOLEAN]
  /\ ran \in [Events -> SUBSET UNION {Handlers(e) : e \in Events}]
  /\ batch \in [Pollers -> SUBSET Events]
  /\ position \in [Pollers -> Events \cup {None}]
  /\ index \in [Pollers -> Nat \ {0}]
  /\ staged \in [Pollers -> [Events -> Updates]]
  /\ crashes \in Nat

NothingStaged == [e \in Events |-> "none"]

Init ==
  /\ processed = [e \in Events |-> "absent"]
  /\ attempts = [e \in Events |-> 0]
  /\ due = [e \in Events |-> TRUE]
  /\ ran = [e \in Events |-> {}]
  /\ batch = [p \in Pollers |-> {}]
  /\ position = [p \in Pollers |-> None]
  /\ index = [p \in Pollers |-> 1]
  /\ staged = [p \in Pollers |-> NothingStaged]
  /\ crashes = 0

-----------------------------------------------------------------------------
(* SqlAlchemyUnitOfWork.commit writes the row with the state change.        *)
WriteOutbox(e) ==
  /\ processed[e] = "absent"
  /\ processed' = [processed EXCEPT ![e] = "no"]
  /\ UNCHANGED <<attempts, due, ran, pollVars, crashes>>

(* FOR UPDATE SKIP LOCKED: rows no other transaction holds.                 *)
Locked_Ignored(e) == FALSE

Locked(e) == \E p \in Pollers : e \in batch[p]

Claimable_Fresh ==
  {e \in Events : processed[e] = "no" /\ due[e] /\ attempts[e] = 0 /\ ~Locked(e)}

Claimable == {e \in Events : processed[e] = "no" /\ due[e] /\ ~Locked(e)}

(* ORDER BY occurred_at LIMIT: the rows with fewer than BATCH_SIZE rows     *)
(* before them.                                                             *)
FirstRows(rows) ==
  {e \in rows : Cardinality({f \in rows : f < e}) < BATCH_SIZE}

Claim(p) ==
  /\ batch[p] = {}
  /\ Claimable # {}
  /\ batch' = [batch EXCEPT ![p] = FirstRows(Claimable)]
  /\ UNCHANGED <<rowVars, ran, position, index, staged, crashes>>

(* for row in rows: the first row of the batch not yet dispatched.          *)
Undispatched(p) == {e \in batch[p] : staged[p][e] = "none"}

NextRow(p) ==
  /\ position[p] = None
  /\ \E e \in Undispatched(p) :
       /\ \A f \in Undispatched(p) : e <= f
       /\ position' = [position EXCEPT ![p] = e]
  /\ index' = [index EXCEPT ![p] = 1]
  /\ UNCHANGED <<rowVars, ran, batch, staged, crashes>>

HandlerSucceeds(p) ==
  /\ position[p] # None
  /\ index[p] <= Len(HandlersFor[position[p]])
  /\ ran' = [ran EXCEPT ![position[p]] = @ \cup {HandlersFor[position[p]][index[p]]}]
  /\ index' = [index EXCEPT ![p] = @ + 1]
  /\ UNCHANGED <<rowVars, batch, position, staged, crashes>>

Stage(p, update) ==
  /\ staged' = [staged EXCEPT ![p][position[p]] = update]
  /\ position' = [position EXCEPT ![p] = None]

NextAttempts(e) == attempts[e] + 1

Failure_OneMore(e) == IF attempts[e] >= MAX_ATTEMPTS THEN "dead" ELSE "retry"

Failure(e) == IF NextAttempts(e) >= MAX_ATTEMPTS THEN "dead" ELSE "retry"

(* A handler raises, before or after it committed its effect: the remaining *)
(* handlers of the row are skipped and the row gets one more attempt.       *)
HandlerFails(p) ==
  /\ position[p] # None
  /\ index[p] <= Len(HandlersFor[position[p]])
  /\ \/ UNCHANGED ran
     \/ ran' = [ran EXCEPT ![position[p]] = @ \cup {HandlersFor[position[p]][index[p]]}]
  /\ Stage(p, Failure(position[p]))
  /\ UNCHANGED <<rowVars, batch, index, crashes>>

AllHandlersRan_AnyPosition(p) == TRUE

AllHandlersRan(p) == index[p] > Len(HandlersFor[position[p]])

RowProcessed(p) ==
  /\ position[p] # None
  /\ AllHandlersRan(p)
  /\ Stage(p, "done")
  /\ UNCHANGED <<rowVars, ran, batch, index, crashes>>

(* The poller's transaction ends: locks and staged updates go with it.      *)
Release(p) ==
  /\ batch' = [batch EXCEPT ![p] = {}]
  /\ position' = [position EXCEPT ![p] = None]
  /\ index' = [index EXCEPT ![p] = 1]
  /\ staged' = [staged EXCEPT ![p] = NothingStaged]

CommitBatch(p) ==
  /\ batch[p] # {}
  /\ position[p] = None
  /\ Undispatched(p) = {}
  /\ processed' = [e \in Events |->
                     IF staged[p][e] \in {"done", "dead"} THEN staged[p][e] ELSE processed[e]]
  /\ attempts' = [e \in Events |->
                     IF staged[p][e] \in {"retry", "dead"} THEN NextAttempts(e) ELSE attempts[e]]
  /\ due' = [e \in Events |-> due[e] /\ staged[p][e] \notin {"retry", "dead"}]
  /\ Release(p)
  /\ UNCHANGED <<ran, crashes>>

Crash(p) ==
  /\ batch[p] # {}
  /\ crashes < MaxCrashes
  /\ crashes' = crashes + 1
  /\ Release(p)
  /\ UNCHANGED <<rowVars, ran>>

(* available_at passes.                                                     *)
BackoffElapses(e) ==
  /\ processed[e] = "no"
  /\ ~due[e]
  /\ due' = [due EXCEPT ![e] = TRUE]
  /\ UNCHANGED <<processed, attempts, ran, pollVars, crashes>>

(* maintenance.prune_processed_outbox deletes rows by processed_at, dead    *)
(* ones included.                                                           *)
Prunable_ByAge(e) == processed[e] \in {"no", "done", "dead"}

Prunable(e) == processed[e] \in {"done", "dead"}

PruneProcessed(e) ==
  /\ Prunable(e)
  /\ processed' = [processed EXCEPT ![e] = "pruned"]
  /\ UNCHANGED <<attempts, due, ran, pollVars, crashes>>

-----------------------------------------------------------------------------
Poll(p) ==
  \/ Claim(p) \/ NextRow(p) \/ HandlerSucceeds(p) \/ HandlerFails(p)
  \/ RowProcessed(p) \/ CommitBatch(p)

Next ==
  \/ \E e \in Events : WriteOutbox(e) \/ BackoffElapses(e) \/ PruneProcessed(e)
  \/ \E p \in Pollers : Poll(p) \/ Crash(p)

Spec == Init /\ [][Next]_vars

(* Beat starts a cycle every 500 ms, a cycle runs to its end unless its     *)
(* process dies, and the clock advances.  Nothing makes a handler succeed.  *)
Fairness ==
  /\ \A p \in Pollers : WF_vars(Poll(p))
  /\ \A e \in Events : WF_vars(BackoffElapses(e))

FairSpec == Spec /\ Fairness

-----------------------------------------------------------------------------
(* A row is in at most one poller's batch: SKIP LOCKED keeps two cycles     *)
(* from dispatching it at once (outbox.py:50).                              *)
OneDispatcherPerRow ==
  \A p, q \in Pollers : batch[p] \cap batch[q] # {} => p = q

(* A row marked processed after a successful dispatch had every handler's   *)
(* effect committed at least once, through whatever retries and crashes.    *)
DoneMeansAllRan ==
  \A e \in Events : processed[e] = "done" => ran[e] = Handlers(e)

(* The attempt counter never passes MAX_ATTEMPTS, and a row is given up     *)
(* exactly when it reaches it.                                              *)
DeadAtTheLimit ==
  \A e \in Events :
    /\ attempts[e] <= MAX_ATTEMPTS
    /\ processed[e] = "dead" => attempts[e] = MAX_ATTEMPTS
    /\ processed[e] = "no" => attempts[e] < MAX_ATTEMPTS

(* However pollers overlap, crash and roll back: no row is dispatched by    *)
(* two at a time, one marked done had every handler run, and one is given   *)
(* up exactly at MAX_ATTEMPTS.  Inductive, because locked rows are open, an *)
(* uncommitted update belongs to a locked row and was earned, and a poller  *)
(* within a row has run the handlers before its place.                      *)
OutboxInv ==
  /\ TypeOK /\ OneDispatcherPerRow /\ DoneMeansAllRan /\ DeadAtTheLimit
  /\ \A e \in Events : ran[e] \subseteq Handlers(e)
  /\ \A e \in Events : processed[e] \in {"absent", "done"} => attempts[e] < MAX_ATTEMPTS
  /\ \A p \in Pollers : \A e \in batch[p] : processed[e] = "no"
  /\ \A p \in Pollers : position[p] # None =>
       position[p] \in batch[p] /\ staged[p][position[p]] = "none"
  /\ \A p \in Pollers : position[p] # None =>
       \A i \in 1..Len(HandlersFor[position[p]]) :
         i < index[p] => HandlersFor[position[p]][i] \in ran[position[p]]
  /\ \A p \in Pollers, e \in Events :
       /\ staged[p][e] # "none" => e \in batch[p]
       /\ staged[p][e] = "done" => ran[e] = Handlers(e)
       /\ staged[p][e] = "retry" => NextAttempts(e) < MAX_ATTEMPTS
       /\ staged[p][e] = "dead" => NextAttempts(e) = MAX_ATTEMPTS

(* At-least-once delivery as consumers see it: pollers, batches and crashes *)
(* implement EventDelivery.  In particular no handler runs for a row that   *)
(* is already processed.                                                    *)
Phase(e) ==
  CASE processed[e] = "absent" -> "unpublished"
    [] processed[e] = "no" -> "open"
    [] OTHER -> IF attempts[e] >= MAX_ATTEMPTS THEN "abandoned" ELSE "delivered"

Promise == INSTANCE EventDelivery
  WITH Consumers <- [e \in Events |-> Handlers(e)],
       phase <- [e \in Events |-> Phase(e)], seen <- ran

ImplementsEventDelivery == Promise!Spec

(* No row is forgotten: a committed event is processed or given up although *)
(* other rows of its batch fail and pollers die.                            *)
EveryEventConcludes ==
  \A e \in Events : processed[e] = "no" ~> processed[e] # "no"
=============================================================================
