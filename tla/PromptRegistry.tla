-------------------------- MODULE PromptRegistry --------------------------
(***************************************************************************)
(* The governed prompts of one AI task (ai/prompt_registry.py): versions   *)
(* mirrored from files, evaluations recorded against them, and promotion   *)
(* and rollback of the one version in production, every change under an    *)
(* idempotency key reserved in the same transaction (idempotency.py).      *)
(*                                                                         *)
(* Promotion and rollback lock rows one after the other, in different      *)
(* orders.  A locking query finds its row first and waits for it next; a   *)
(* row that no longer matches once the lock is had is not returned.  The   *)
(* evaluation set a file names is part of its content.  The daily removal  *)
(* of keys older than a day is left out.                                   *)
(***************************************************************************)
EXTENDS Naturals, Sequences, FiniteSets

CONSTANTS
  Versions, PromptRequests,
  MaxReservations,  \* bound on the idempotency keys of a scope
  MaxRuns,          \* bound on evaluation runs
  NoPrompt          \* null

PROMPT_STATUSES == {"draft", "staging", "production", "deprecated"}

Contents == {"first", "edited"}

VARIABLES
  git,         \* content of each version's file
  prompts,     \* prompts
  runs,        \* ai_evaluation_runs, in the order they were recorded
  keyed,       \* idempotency_records
  promptReq    \* transactions in flight

promptVars == <<git, prompts, runs, keyed, promptReq>>

Prompt == [content : Contents, status : PROMPT_STATUSES, run : 0..MaxRuns]

AiEvaluationRun == [version : Versions, content : Contents, passed : BOOLEAN]

ASSUME PromptAssumption == MaxRuns \in Nat /\ NoPrompt \notin Prompt

(* The scope of an evaluation names the version, the others only the task.  *)
OfTask(op) == <<op, NoPrompt>>

Scopes == {OfTask(op) : op \in {"sync", "promote", "rollback"}} \cup ({"evaluate"} \X Versions)

IdempotencyRecord == [scope : Scopes, key : 1..MaxReservations]

PromptsTypeOK ==
  /\ git \in [Versions -> Contents \cup {"absent"}]
  /\ prompts \in [Versions -> Prompt \cup {NoPrompt}]
  /\ runs \in Seq(AiEvaluationRun) /\ Len(runs) <= MaxRuns
  /\ keyed \subseteq IdempotencyRecord

PromptsInit ==
  /\ git = [v \in Versions |-> "absent"]
  /\ prompts = [v \in Versions |-> NoPrompt]
  /\ runs = <<>> /\ keyed = {}
  /\ promptReq = [q \in PromptRequests |-> NoPrompt]

-----------------------------------------------------------------------------
Underway(q, step) == promptReq[q] # NoPrompt /\ promptReq[q].step = step

InFlight == {promptReq[q].record : q \in {p \in PromptRequests : promptReq[p] # NoPrompt}}

(* Clients name the keys they use: one used before, or the next.            *)
KeysFor(scope) ==
  1..(1 + Cardinality({record \in keyed \cup InFlight : record.scope = scope}))

(* reserve_idempotency: wait for the key's lock, and go on only when it was *)
(* never used; otherwise the stored answer, or a conflict, is returned.     *)
(* The request then holds what it was asked for, the versions its last      *)
(* query found, and its row locks.                                          *)
reserve_idempotency(q, scope, step, asked) ==
  /\ promptReq[q] = NoPrompt
  /\ \E key \in KeysFor(scope) \cap (1..MaxReservations) :
       LET record == [scope |-> scope, key |-> key]
       IN  /\ record \notin InFlight \cup keyed
           /\ promptReq' = [promptReq EXCEPT ![q] =
                [record |-> record, step |-> step, asked |-> asked, found |-> {}, locks |-> {}]]
  /\ UNCHANGED <<git, prompts, runs, keyed>>

(* The transaction ends: its locks are released with it.                    *)
Ended(q) == promptReq' = [promptReq EXCEPT ![q] = NoPrompt]

Completed(q) == keyed' = keyed \cup {promptReq[q].record}

MovedTo(q, r) == promptReq' = [promptReq EXCEPT ![q] = r]

(* A request is refused, is the one the database ends to break a deadlock,  *)
(* or dies: nothing it did is kept.                                         *)
Abort(q) ==
  /\ promptReq[q] # NoPrompt
  /\ Ended(q)
  /\ UNCHANGED <<git, prompts, runs, keyed>>

-----------------------------------------------------------------------------
(* A developer writes or edits a version's file.                            *)
EditFile(v, content) ==
  /\ git' = [git EXCEPT ![v] = content]
  /\ UNCHANGED <<prompts, runs, keyed, promptReq>>

StartSync(q) ==
  reserve_idempotency(q, OfTask("sync"), "sync",
    [docs |-> {v \in Versions : git[v] # "absent"}, content |-> git])

(* A version that is already there must have the file's content.  The       *)
(* unique (task, version) refuses a row inserted since it was looked for.   *)
Missing(asked) == {v \in asked.docs : prompts[v] = NoPrompt}

LoadSync(q) ==
  /\ Underway(q, "sync")
  /\ LET asked == promptReq[q].asked
     IN  /\ \A v \in asked.docs \ Missing(asked) : prompts[v].content = asked.content[v]
         /\ MovedTo(q, [promptReq[q] EXCEPT !.step = "insert", !.found = Missing(asked)])
  /\ UNCHANGED <<git, prompts, runs, keyed>>

task_version(missing) == \A v \in missing : prompts[v] = NoPrompt

sync_git_prompts(q) ==
  /\ Underway(q, "insert")
  /\ task_version(promptReq[q].found)
  /\ prompts' = [v \in Versions |->
       IF v \in promptReq[q].found
         THEN [content |-> promptReq[q].asked.content[v], status |-> "draft", run |-> 0]
         ELSE prompts[v]]
  /\ Completed(q) /\ Ended(q)
  /\ UNCHANGED <<git, runs>>

StartEvaluation(q, v, content, passed) ==
  reserve_idempotency(q, <<"evaluate", v>>, "evaluate",
    [version |-> v, content |-> content, passed |-> passed])

(* The results are for the content the registry holds, or they are refused. *)
record_evaluation(q) ==
  /\ Underway(q, "evaluate")
  /\ LET run == promptReq[q].asked
     IN  /\ prompts[run.version] # NoPrompt
         /\ prompts[run.version].content = run.content
         /\ Len(runs) < MaxRuns
         /\ runs' = Append(runs, run)
  /\ Completed(q) /\ Ended(q)
  /\ UNCHANGED <<git, prompts>>

-----------------------------------------------------------------------------
(* Row locks: those the requests in flight hold, and the query that waits   *)
(* for one.                                                                 *)
Free(q, v) ==
  ~\E p \in PromptRequests \ {q} : promptReq[p] # NoPrompt /\ v \in promptReq[p].locks

Locking(q, step, v) == [promptReq[q] EXCEPT !.step = step, !.locks = @ \cup {v}]

InProduction == {v \in Versions : prompts[v] # NoPrompt /\ prompts[v].status = "production"}

(* The evidence both changes ask for: a passing run of this very version.   *)
Evidence_Any(v, n) == n \in DOMAIN runs

Evidence(v, n) == n \in DOMAIN runs /\ runs[n].version = v /\ runs[n].passed

StartPromotion(q, v, n) ==
  reserve_idempotency(q, OfTask("promote"), "target", [version |-> v, run |-> n])

LockTarget(q) ==
  /\ Underway(q, "target")
  /\ LET v == promptReq[q].asked.version
     IN  /\ prompts[v] # NoPrompt /\ Free(q, v)
         /\ Evidence(v, promptReq[q].asked.run)
         /\ MovedTo(q, Locking(q, "previous", v))
  /\ UNCHANGED <<git, prompts, runs, keyed>>

(* SELECT ... WHERE status = 'production' FOR UPDATE, in its two moments.   *)
FindProduction(q) ==
  /\ Underway(q, "previous") \/ Underway(q, "current")
  /\ MovedTo(q, [promptReq[q] EXCEPT
                   !.step = IF @ = "previous" THEN "wait_previous" ELSE "wait_current",
                   !.found = InProduction])
  /\ UNCHANGED <<git, prompts, runs, keyed>>

LockPrevious(q) ==
  /\ Underway(q, "wait_previous")
  /\ \A v \in promptReq[q].found : Free(q, v)
  /\ LET had == promptReq[q].found \cap InProduction
     IN  MovedTo(q, [promptReq[q] EXCEPT !.step = "promote", !.found = had,
                                         !.locks = @ \cup had])
  /\ UNCHANGED <<git, prompts, runs, keyed>>

(* The table after the version `v` replaces the versions `out`, and the     *)
(* partial unique index over it.                                            *)
Replaced(out, v, n) ==
  [w \in Versions |->
     CASE w = v           -> [prompts[w] EXCEPT !.status = "production", !.run = n]
       [] w \in out \ {v} -> [prompts[w] EXCEPT !.status = "deprecated"]
       [] OTHER           -> prompts[w]]

one_production_None(out, v) == TRUE

one_production(out, v) == InProduction \subseteq out \cup {v}

promote_prompt(q) ==
  /\ Underway(q, "promote")
  /\ LET r == promptReq[q]
     IN  /\ one_production(r.found, r.asked.version)
         /\ prompts' = Replaced(r.found, r.asked.version, r.asked.run)
  /\ Completed(q) /\ Ended(q)
  /\ UNCHANGED <<git, runs>>

StartRollback(q, v) ==
  reserve_idempotency(q, OfTask("rollback"), "current", [version |-> v])

(* The row it waited for may no longer be in production: then there is      *)
(* nothing to roll back from.                                               *)
LockCurrent(q) ==
  /\ Underway(q, "wait_current")
  /\ promptReq[q].found \cap InProduction # {}
  /\ \E v \in promptReq[q].found :
       Free(q, v) /\ MovedTo(q, Locking(q, "rollback", v))
  /\ UNCHANGED <<git, prompts, runs, keyed>>

rollback_prompt(q) ==
  /\ Underway(q, "rollback")
  /\ LET r == promptReq[q]
         v == r.asked.version
     IN  /\ prompts[v] # NoPrompt /\ Free(q, v) /\ v \notin r.found
         /\ Evidence(v, prompts[v].run)
         /\ one_production(r.found, v)
         /\ prompts' = Replaced(r.found, v, prompts[v].run)
  /\ Completed(q) /\ Ended(q)
  /\ UNCHANGED <<git, runs>>

PromptRoutes(q) ==
  \/ StartSync(q)
  \/ \E v \in Versions :
       \/ \E content \in Contents, passed \in BOOLEAN : StartEvaluation(q, v, content, passed)
       \/ \E n \in DOMAIN runs : StartPromotion(q, v, n)
       \/ StartRollback(q, v)

PromptsNext ==
  \/ \E v \in Versions, content \in Contents : EditFile(v, content)
  \/ \E q \in PromptRequests :
       \/ PromptRoutes(q) \/ Abort(q)
       \/ LoadSync(q) \/ sync_git_prompts(q) \/ record_evaluation(q)
       \/ LockTarget(q) \/ FindProduction(q) \/ LockPrevious(q) \/ promote_prompt(q)
       \/ LockCurrent(q) \/ rollback_prompt(q)

PromptsSpec == PromptsInit /\ [][PromptsNext]_promptVars

-----------------------------------------------------------------------------
(* However promotions, rollbacks and syncs overlap: at most one version of  *)
(* a task is in production; it has passed an evaluation of the content it   *)
(* still has; a task that once had a version in production never has none;  *)
(* and an evaluation recorded twice under one key is recorded once.         *)
PromptsAreGoverned ==
  /\ Cardinality(InProduction) <= 1
  /\ \A v \in InProduction :
       LET n == prompts[v].run
       IN  n \in DOMAIN runs /\ runs[n] = [version |-> v, content |-> prompts[v].content,
                                           passed |-> TRUE]
  /\ (\E v \in Versions : prompts[v] # NoPrompt /\ prompts[v].status = "deprecated") =>
       InProduction # {}
  /\ Len(runs) = Cardinality({row \in keyed : row.scope[1] = "evaluate"})
=============================================================================
