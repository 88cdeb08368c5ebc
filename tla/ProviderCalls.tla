--------------------------- MODULE ProviderCalls ---------------------------
(***************************************************************************)
(* Calls to outside providers: the circuit breaker each provider has       *)
(* (integrations/circuit.py), the AI gateway that tries the providers of a *)
(* route in order (ai/gateway.py) within the tenant's token budget         *)
(* (ai/registry.py), and the messaging and payment adapters.               *)
(*                                                                         *)
(* The breaker's clock is left out: which failures have aged out of the    *)
(* window, and whether an open breaker has waited long enough, are chosen. *)
(* A prompt the input guard blocks, or that no promoted version exists     *)
(* for, makes no call and is left out.  An answer costs one token.         *)
(***************************************************************************)
EXTENDS Naturals, Sequences, FiniteSets

CONSTANTS
  Callers,      \* calls in flight at a time
  Configured,   \* providers whose credentials are present
  failure_threshold, half_open_successes, half_open_max_trials,
  Budget,       \* ai_token_budget_monthly
  MaxBlind,     \* bound on budget checks that could not read the usage
  NoCall        \* null

ASSUME PolicyAssumption ==
  /\ failure_threshold \in Nat \ {0} /\ half_open_successes \in Nat \ {0}
  /\ half_open_max_trials \in Nat \ {0} /\ Budget \in Nat \ {0} /\ MaxBlind \in Nat
  /\ IsFiniteSet(Callers)

(* The providers of each route, the primary model's first.                  *)
ROUTES == {<<"anthropic", "openai">>, <<"openai", "google">>,
           <<"openai", "google", "anthropic">>, <<"anthropic", "google">>, <<"openai">>}

Adapters == {"whatsapp", "razorpay"}

VARIABLES
  breaker,   \* CircuitBreaker of each provider
  call,      \* calls in flight
  used,      \* tokens on the usage records of the month
  blind      \* calls let through because the usage could not be read

callVars == <<breaker, call, used, blind>>

CircuitBreaker ==
  [state : {"closed", "open", "half_open"}, failures : 0..(failure_threshold - 1),
   successes : 0..(half_open_successes - 1), trials : 0..half_open_max_trials]

CallsTypeOK ==
  /\ breaker \in [Configured -> CircuitBreaker]
  /\ \A c \in Callers : call[c] # NoCall =>
       /\ call[c].step \in {"routing", "calling", "recording"}
       /\ call[c].route \in ROUTES \cup {<<p>> : p \in Adapters}
       /\ call[c].pos \in 1..(Len(call[c].route) + 1)
  /\ used \in Nat /\ blind \in 0..MaxBlind

CallsInit ==
  /\ breaker = [p \in Configured |->
                  [state |-> "closed", failures |-> 0, successes |-> 0, trials |-> 0]]
  /\ call = [c \in Callers |-> NoCall]
  /\ used = 0 /\ blind = 0

-----------------------------------------------------------------------------
(* What allow() may answer, and the breaker after it let a call through.    *)
MayRefuse(b, p) ==
  p \in Configured =>
    CASE b[p].state = "closed"    -> FALSE
      [] b[p].state = "open"      -> TRUE
      [] b[p].state = "half_open" -> b[p].trials >= half_open_max_trials

MayAdmit(b, p) ==
  /\ p \in Configured
  /\ b[p].state = "half_open" => b[p].trials < half_open_max_trials

allow_Uncounted(b) ==
  IF b.state = "closed" THEN b ELSE [b EXCEPT !.state = "half_open", !.successes = 0]

allow(b) ==
  CASE b.state = "closed"    -> b
    [] b.state = "open"      -> [b EXCEPT !.state = "half_open", !.successes = 0, !.trials = 1]
    [] b.state = "half_open" -> [b EXCEPT !.trials = @ + 1]

_trip(b) == [state |-> "open", failures |-> 0, successes |-> 0, trials |-> 0]

(* kept: the earlier failures that are still inside the window.             *)
record_success(b, kept) ==
  IF b.state # "half_open" THEN [b EXCEPT !.failures = kept]
  ELSE IF b.successes + 1 < half_open_successes
    THEN [b EXCEPT !.successes = @ + 1, !.trials = 0]
    ELSE [state |-> "closed", failures |-> 0, successes |-> 0, trials |-> 0]

record_failure_Late(b, kept) ==
  IF b.state = "half_open" \/ kept + 1 > failure_threshold
    THEN _trip(b)
    ELSE [b EXCEPT !.failures = kept + 1]

record_failure(b, kept) ==
  IF b.state = "half_open" \/ kept + 1 >= failure_threshold
    THEN _trip(b)
    ELSE [b EXCEPT !.failures = kept + 1]

-----------------------------------------------------------------------------
Provider(c) == call[c].route[call[c].pos]

(* The loop over the route, from position i: the first provider that is     *)
(* configured and lets the call through is called; with none left the       *)
(* answer is degraded.  Nothing is awaited in between.                      *)
Advance(b, calls, c, route, i, kind) ==
  \/ \E k \in i..Len(route) :
       /\ \A j \in i..(k - 1) : MayRefuse(b, route[j])
       /\ MayAdmit(b, route[k])
       /\ breaker' = [b EXCEPT ![route[k]] = allow(@)]
       /\ call' = [calls EXCEPT ![c] = [kind |-> kind, route |-> route, pos |-> k,
                     step |-> "calling", trial |-> b[route[k]].state # "closed"]]
  \/ /\ \A j \in i..Len(route) : MayRefuse(b, route[j])
     /\ breaker' = b
     /\ call' = [calls EXCEPT ![c] = NoCall]

(* _check_budget: a failure to read the usage lets the call through.        *)
within_budget_Always(sees) == TRUE

within_budget(sees) == sees => used < Budget

(* _complete, up to the budget check, which is awaited.                     *)
complete(c, route, sees) ==
  /\ call[c] = NoCall
  /\ within_budget(sees)
  /\ blind' = (IF sees THEN blind ELSE blind + 1) /\ blind' <= MaxBlind
  /\ call' = [call EXCEPT ![c] = [kind |-> "ai", route |-> route, pos |-> 1,
                                  step |-> "routing", trial |-> FALSE]]
  /\ UNCHANGED <<breaker, used>>

FirstProvider(c) ==
  /\ call[c] # NoCall /\ call[c].step = "routing"
  /\ Advance(breaker, call, c, call[c].route, 1, "ai")
  /\ UNCHANGED <<used, blind>>

(* send (of WhatsApp) and create_order: one provider; a refused call is     *)
(* left queued.                                                             *)
send_message(c) ==
  /\ call[c] = NoCall
  /\ Advance(breaker, call, c, <<"whatsapp">>, 1, "adapter")
  /\ UNCHANGED <<used, blind>>

create_order(c) ==
  /\ call[c] = NoCall
  /\ Advance(breaker, call, c, <<"razorpay">>, 1, "adapter")
  /\ UNCHANGED <<used, blind>>

(* Once a breaker trips or closes, the calls it let through as trials are   *)
(* no longer trials of the period it is in.                                 *)
Settled(b) ==
  [c \in Callers |->
     IF call[c] # NoCall /\ call[c].step = "calling" /\ b[Provider(c)].state # "half_open"
       THEN [call[c] EXCEPT !.trial = FALSE]
       ELSE call[c]]

Calling(c) == call[c] # NoCall /\ call[c].step = "calling"

(* The provider answers: of the adapters that ends the call, of the gateway *)
(* it leads to the output guard and, whatever that says, to the record.     *)
Answered(c) ==
  /\ Calling(c)
  /\ \E kept \in 0..breaker[Provider(c)].failures :
       LET b == [breaker EXCEPT ![Provider(c)] = record_success(@, kept)]
       IN  /\ breaker' = b
           /\ call' = [Settled(b) EXCEPT ![c] =
                         IF @.kind = "adapter" THEN NoCall ELSE [@ EXCEPT !.step = "recording"]]
  /\ UNCHANGED <<used, blind>>

(* The call raises, or the adapter reads an error status.                   *)
Failed(c) ==
  /\ Calling(c)
  /\ \E kept \in 0..breaker[Provider(c)].failures :
       LET b == [breaker EXCEPT ![Provider(c)] = record_failure(@, kept)]
       IN  IF call[c].kind = "adapter"
             THEN breaker' = b /\ call' = [Settled(b) EXCEPT ![c] = NoCall]
             ELSE Advance(b, Settled(b), c, call[c].route, call[c].pos + 1, "ai")
  /\ UNCHANGED <<used, blind>>

(* The call ends in a way nothing catches: it is cancelled, or an adapter   *)
(* raises something other than an HTTP error.  The breaker is not told.     *)
Abandoned(c) ==
  /\ Calling(c)
  /\ call' = [call EXCEPT ![c] = NoCall]
  /\ UNCHANGED <<breaker, used, blind>>

(* _persist_usage and _record_usage, which may fail with the database.      *)
record_usage(c) ==
  /\ call[c] # NoCall /\ call[c].step = "recording"
  /\ used' \in {used, used + 1}
  /\ call' = [call EXCEPT ![c] = NoCall]
  /\ UNCHANGED <<breaker, blind>>

CallsNext ==
  \E c \in Callers :
    \/ \E route \in ROUTES, sees \in BOOLEAN : complete(c, route, sees)
    \/ FirstProvider(c) \/ send_message(c) \/ create_order(c)
    \/ Answered(c) \/ Failed(c) \/ Abandoned(c) \/ record_usage(c)

CallsSpec == CallsInit /\ [][CallsNext]_callVars

-----------------------------------------------------------------------------
(* A provider that is being tried again after an outage is not flooded:     *)
(* half_open_max_trials calls, and as many more for each success counted    *)
(* since it was half opened, may be under way, because an answer to a call  *)
(* made before the outage is counted as a trial's.                          *)
TrialsAreFew ==
  \A p \in Configured : breaker[p].state = "half_open" =>
    Cardinality({c \in Callers : Calling(c) /\ call[c].trial /\ Provider(c) = p})
      <= half_open_max_trials * (breaker[p].successes + 1)

(* The token budget is overrun by no more than the calls that had passed    *)
(* the check together and those let through without one.                    *)
BudgetOverrunIsBounded == used <= Budget - 1 + Cardinality(Callers) + blind

(* Both limits on the calls to a provider hold however calls overlap, end   *)
(* late or never answer: the breaker's on trials and the gateway's budget.  *)
CallsAreLimited == TrialsAreFew /\ BudgetOverrunIsBounded
=============================================================================
