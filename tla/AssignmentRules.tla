-------------------------- MODULE AssignmentRules --------------------------
(***************************************************************************)
(* Assignment rules (leads/assignment_rules.py, domain/leads/              *)
(* assignment.py): who gets a lead.  The first active rule that matches    *)
(* decides; a round-robin rule keeps a cursor into its targets.  Rules     *)
(* are edited while apply_rules and the CSV import read and advance them.  *)
(***************************************************************************)
EXTENDS Naturals, Sequences, FiniteSetsExt, RowFlush

CONSTANTS
  Rules,         \* rule ids: numbers, for the order of ids
  RuleRequests,  \* requests in flight at a time
  TargetLists,   \* target lists validate_rule accepts
  Members,       \* everyone a target list may name
  Prospects,     \* kinds of lead the conditions tell apart
  rule_matches,  \* which rule matches which: [Rules -> SUBSET Prospects]
  NoRule,        \* null
  MAX_RULES,
  MaxEdits,      \* bound on requests that edit rules
  MaxGiven       \* bound on assignments by one rule

(* validate_rule: somebody to assign to, and nobody listed twice.           *)
ASSUME RulesAssumption ==
  /\ Rules \subseteq Nat /\ IsFiniteSet(Rules)
  /\ MaxGiven \in Nat /\ MaxEdits \in Nat /\ MAX_RULES \in Nat
  /\ TargetLists # {}
  /\ \A t \in TargetLists :
       t \in Seq(Members) /\ t # <<>> /\ \A i, j \in DOMAIN t : t[i] = t[j] => i = j

VARIABLES
  rule,       \* the rows
  ruleReq,    \* requests in flight, with the assignments they will make
  ruleTaint,  \* rules once written from an outdated load
  edits,      \* requests that edited rules so far
  given       \* assignments by a rule since its targets or strategy were set

ruleVars == <<rule, ruleReq, ruleTaint, edits, given>>

Strategies == {"round_robin", "first_available"}

RuleRow == [exists : BOOLEAN, is_active : BOOLEAN, position : 0..Cardinality(Rules),
            strategy : Strategies, targets : TargetLists, cursor : Nat]

RuleTypeOK ==
  /\ rule \in [Rules -> RuleRow]
  /\ ruleTaint \subseteq Rules /\ edits \in 0..MaxEdits
  /\ given \in [Rules -> [Members -> 0..(MaxGiven + 4)]]

NewRule(t, position) ==
  [exists |-> TRUE, is_active |-> TRUE, position |-> position,
   strategy |-> "round_robin", targets |-> t, cursor |-> 0]

RuleInit ==
  /\ rule = [r \in Rules |-> [NewRule(CHOOSE t \in TargetLists : TRUE, 0) EXCEPT !.exists = FALSE]]
  /\ ruleReq = [q \in RuleRequests |-> NoRule]
  /\ ruleTaint = {} /\ edits = 0
  /\ given = [r \in Rules |-> [u \in Members |-> 0]]

-----------------------------------------------------------------------------
(* select_assignee: lowest position, then id, of the active rules that      *)
(* match; without workloads load_balanced is round robin.                   *)
Eligible(rows, p) == {r \in Rules : rows[r].exists /\ rows[r].is_active /\ p \in rule_matches[r]}

Precedes(rows, r, s) ==
  rows[r].position < rows[s].position \/ (rows[r].position = rows[s].position /\ r <= s)

First(rows, p) ==
  CHOOSE r \in Eligible(rows, p) : \A s \in Eligible(rows, p) : Precedes(rows, r, s)

Chosen(row) ==
  row.targets[IF row.strategy = "first_available" THEN 1
              ELSE (row.cursor % Len(row.targets)) + 1]

NextCursor_Stuck(row) == row.cursor

NextCursor(row) ==
  IF row.strategy = "first_available" THEN row.cursor
  ELSE (row.cursor + 1) % Len(row.targets)

(* _assign: the choice, and the cursor advanced in place.                   *)
Assign(acc, p) ==
  IF Eligible(acc.rows, p) = {} THEN acc
  ELSE LET r == First(acc.rows, p) IN
       [rows |-> [acc.rows EXCEPT ![r].cursor = NextCursor(acc.rows[r])],
        gives |-> Append(acc.gives, <<r, Chosen(acc.rows[r])>>)]

(* A request that has loaded the rules, has changed or decided by some, and *)
(* will write those it changed.                                             *)
LoadRules(q, rows, gives, restarts) ==
  /\ ruleReq[q] = NoRule
  /\ LET used == {r \in Rules : rows[r] # rule[r] \/ \E i \in DOMAIN gives : gives[i][1] = r} IN
       ruleReq' = [ruleReq EXCEPT ![q] =
         [writes |-> [r \in used |-> [old |-> rule[r], new |-> rows[r]]],
          stale |-> {}, gives |-> gives, restarts |-> restarts]]
  /\ gives = <<>> => edits < MaxEdits
  /\ edits' = IF gives = <<>> THEN edits + 1 ELSE edits
  /\ UNCHANGED <<rule, ruleTaint, given>>

create_rule(q, r, t) ==
  LET existing == {s \in Rules : rule[s].exists} IN
    /\ r \notin existing
    /\ ~\E p \in RuleRequests : ruleReq[p] # NoRule /\ r \in Dirty(ruleReq[p])
    /\ Cardinality(existing) < MAX_RULES
    /\ LoadRules(q, [rule EXCEPT ![r] = NewRule(t, Cardinality(existing))], <<>>, {r})

(* New targets restart the cursor.                                          *)
Retarget(row, t) == [row EXCEPT !.targets = t, !.cursor = 0]

update_rule(q, r) ==
  /\ rule[r].exists
  /\ \/ \E t \in TargetLists : LoadRules(q, [rule EXCEPT ![r] = Retarget(@, t)], <<>>, {r})
     \/ \E s \in Strategies : LoadRules(q, [rule EXCEPT ![r].strategy = s], <<>>, {r})
     \/ LoadRules(q, [rule EXCEPT ![r].is_active = ~@], <<>>, {})

delete_rule(q, r) ==
  /\ rule[r].exists
  /\ LoadRules(q, [rule EXCEPT ![r].exists = FALSE], <<>>, {})

(* enumerate(ordered_ids): the rules named get 0, 1, ... in that order.     *)
reorder_rules(q, r, s) ==
  /\ r # s /\ rule[r].exists /\ rule[s].exists
  /\ LoadRules(q, [rule EXCEPT ![r].position = 0, ![s].position = 1], <<>>, {})

Budget == \A r \in Rules : SumSet({given[r][u] : u \in Members}) < MaxGiven

(* apply_rules gives one lead, commit_import those of a file in turn.       *)
apply_rules(q, leads) ==
  /\ Budget
  /\ LET start == [rows |-> rule, gives |-> <<>>]
         one == Assign(start, leads[1])
         acc == IF Len(leads) = 1 THEN one ELSE Assign(one, leads[2])
     IN acc.gives # <<>> /\ LoadRules(q, acc.rows, acc.gives, {})

(* An update of a row that is gone matches no row and raises.               *)
Vanished(r) ==
  \E s \in Dirty(r) :
    /\ r.writes[s].new # r.writes[s].old
    /\ r.writes[s].old.exists /\ r.writes[s].new.exists
    /\ ~rule[s].exists

CommitRule(q) ==
  /\ ruleReq[q] # NoRule
  /\ LET r == ruleReq[q] IN
       IF Vanished(r)
       THEN ruleReq' = [ruleReq EXCEPT ![q] = NoRule] /\ UNCHANGED <<rule, ruleTaint, given>>
       ELSE /\ rule' = Commit(rule, r)
            /\ ruleTaint' = ruleTaint \cup r.stale
            /\ given' = [s \in Rules |-> [u \in Members |->
                 IF s \in r.restarts THEN 0
                 ELSE given[s][u] + Cardinality({i \in DOMAIN r.gives : r.gives[i] = <<s, u>>})]]
            /\ ruleReq' = [p \in RuleRequests |->
                 IF p = q \/ ruleReq[p] = NoRule THEN NoRule ELSE Outdate(ruleReq[p], Dirty(r))]
  /\ UNCHANGED edits

(* The routes of /assignment-rules, POST /leads/{id}/assign and the import. *)
RuleRoutes(q) ==
  \/ \E r \in Rules : update_rule(q, r) \/ delete_rule(q, r) \/
                      \E t \in TargetLists : create_rule(q, r, t)
  \/ \E r, s \in Rules : reorder_rules(q, r, s)
  \/ \E p, o \in Prospects : apply_rules(q, <<p>>) \/ apply_rules(q, <<p, o>>)

RuleNext == \E q \in RuleRequests : RuleRoutes(q) \/ CommitRule(q)

RuleSpec == RuleInit /\ [][RuleNext]_ruleVars

-----------------------------------------------------------------------------
(* Round robin is even over time: since its targets were last set, a rule   *)
(* no request wrote from an outdated load has given any two targets the     *)
(* same number of leads, give or take one, and nobody else any.  (Sending   *)
(* the same targets again restarts the count with the cursor.)              *)
RoundRobinEven ==
  \A r \in Rules \ ruleTaint : rule[r].exists /\ rule[r].strategy = "round_robin" =>
    LET on == {rule[r].targets[i] : i \in DOMAIN rule[r].targets} IN
      /\ \A u, w \in on : given[r][u] <= given[r][w] + 1
      /\ \A u \in Members \ on : given[r][u] = 0
=============================================================================
