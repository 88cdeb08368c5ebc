---------------------------- MODULE MCPlatform ----------------------------
(***************************************************************************)
(* The services of the platform, side by side: sign-in, calls to           *)
(* providers, the prompt registry and workflow graphs.  As in MCRecords a  *)
(* behaviour runs one of them, named by `part`.                            *)
(***************************************************************************)
EXTENDS Sessions, ProviderCalls, PromptRegistry, MCWorkflowGraph, TLC

CONSTANTS q1, q2, p1, p2, p3

TwoRequests == {q1, q2}
RequestSymmetry == Permutations(TwoRequests)
OneCode == {p1}
MCConfigured == {"openai", "google", "whatsapp", "razorpay"}
ThreeVersions == {p1, p2, p3}

VARIABLE part

Parts == {"auth", "calls", "prompts", "graphs"}

platformVars == <<part, authVars, callVars, promptVars, graphVars>>

(* One document stands for all in the parts that do not read it.            *)
PlatformInit ==
  /\ part \in Parts
  /\ AuthInit /\ CallsInit /\ PromptsInit /\ GraphInit
  /\ part # "graphs" => doc = ThreeActions

Rest(p) ==
  /\ p # "auth" => UNCHANGED authVars
  /\ p # "calls" => UNCHANGED callVars
  /\ p # "prompts" => UNCHANGED promptVars
  /\ p # "graphs" => UNCHANGED graphVars

PlatformNext ==
  /\ \/ part = "auth" /\ AuthNext
     \/ part = "calls" /\ CallsNext
     \/ part = "prompts" /\ PromptsNext
     \/ part = "graphs" /\ GraphNext
  /\ UNCHANGED part
  /\ Rest(part)

PlatformSpec == PlatformInit /\ [][PlatformNext]_platformVars

-----------------------------------------------------------------------------
(* Bounds, by part.  Sign-in: no behaviour past a lost recovery code, and   *)
(* failures, sessions, batches of codes and tickets in all.                 *)
AuthBound ==
  /\ ~codeTaint
  /\ account.failed_login_count = 0 \/ Cardinality(Issued) + batches <= 1
  /\ Cardinality(Issued) + 2 * batches
       + Cardinality({c \in Tickets : ticket[c] # "unused"}) <= 4

(* Provider calls: AI routes or one adapter, and budgets while the breakers *)
(* are fresh.                                                               *)
Fresh(p) == breaker[p] = [state |-> "closed", failures |-> 0, successes |-> 0, trials |-> 0]

AiUntouched == Fresh("openai") /\ Fresh("google") /\ used = 0 /\ blind = 0

CallsBound ==
  /\ Fresh("whatsapp") \/ Fresh("razorpay")
  /\ (Fresh("whatsapp") /\ Fresh("razorpay")) \/ AiUntouched
  /\ (\E c \in Callers : call[c] # NoCall /\ call[c].kind = "adapter") => AiUntouched
  /\ (used > 1 \/ blind > 0) => \A p \in Configured : Fresh(p)

(* Prompts: files are written, and versions evaluated, in the order of      *)
(* their names, as any other order is a renaming of this one; deployments,  *)
(* then evaluations, then promotions and rollbacks.                         *)
Keys(ops) == Cardinality({row \in keyed \cup InFlight : row.scope[1] \in ops})

Working(ops) ==
  {q \in PromptRequests : promptReq[q] # NoPrompt /\ promptReq[q].record.scope[1] \in ops}

PromptsBound ==
  /\ git[p2] # "absent" => git[p1] # "absent"
  /\ git[p3] # "absent" => git[p2] # "absent"
  /\ Keys({"sync"}) <= 2 /\ Keys({"rollback"}) <= 1 /\ Keys({"promote", "rollback"}) <= 3
  /\ Cardinality({v \in Versions : git[v] = "edited"}) <= 1
  /\ Keys({"evaluate"}) > 0 =>
       /\ Keys({"sync"}) <= 1
       /\ \A v \in Versions : git[v] = IF prompts[v] = NoPrompt THEN "absent" ELSE "first"
  /\ Keys({"promote", "rollback"}) > 0 => Working({"sync", "evaluate"}) = {}
  /\ \A n \in DOMAIN runs : ~runs[n].passed => Len(runs) = 1
  /\ \A n \in DOMAIN runs : runs[n].version = <<p1, p2, p3>>[n]
  /\ runs # <<>> => Cardinality(Working({"evaluate"})) <= 1
  /\ Keys({"promote"}) > 1 =>
       /\ Len(runs) = Cardinality({v \in Versions : prompts[v] # NoPrompt})
       /\ \A q \in Working({"promote"}) : Evidence(promptReq[q].asked.version, promptReq[q].asked.run)

PlatformBound ==
  CASE part = "auth" -> AuthBound
    [] part = "calls" -> CallsBound
    [] part = "prompts" -> PromptsBound
    [] OTHER -> TRUE

-----------------------------------------------------------------------------
(* The variables of the component at work keep their types.                 *)
PlatformTypeOK ==
  CASE part = "auth" -> AuthTypeOK
    [] part = "calls" -> CallsTypeOK
    [] part = "prompts" -> PromptsTypeOK
    [] part = "graphs" -> GraphTypeOK
=============================================================================
