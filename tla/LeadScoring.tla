---------------------------- MODULE LeadScoring ----------------------------
(***************************************************************************)
(* Qualification of one lead: qualify by rubric, by hand or by the model,  *)
(* and review_qualification (leads/service.py, domain/leads/               *)
(* qualification.py).  A request reads the lead, scores it (the model call *)
(* may take long or fail), then loads and writes the row in a second       *)
(* transaction.                                                            *)
(***************************************************************************)
EXTENDS Naturals, RowFlush

CONSTANTS
  Scorers,      \* requests in flight at a time
  ScoreValues,  \* scores the model or a reviewer may give
  RubricScore,  \* what the rubric makes of the captured answers
  NoScore       \* null

HOT_THRESHOLD == 80
WARM_THRESHOLD == 40

ASSUME ScoringAssumption == ScoreValues \cup {RubricScore} \subseteq 0..100

VARIABLES
  scored,      \* the row's qualification columns
  scorer,      \* requests in flight
  scoreTaint   \* the row was once written from an outdated load

scoreVars == <<scored, scorer, scoreTaint>>

categorize_LowHot(score) ==
  IF score > HOT_THRESHOLD THEN "hot" ELSE IF score > WARM_THRESHOLD THEN "warm" ELSE "cold"

categorize(score) ==
  IF score >= HOT_THRESHOLD THEN "hot" ELSE IF score >= WARM_THRESHOLD THEN "warm" ELSE "cold"

Result(score, by, state) ==
  [score |-> score, category |-> categorize(score), by |-> by, state |-> state]

Unscored == [score |-> NoScore, category |-> NoScore, by |-> NoScore, state |-> NoScore]

ScoreTypeOK ==
  /\ scored.category \in {"hot", "warm", "cold", NoScore}
  /\ scoreTaint \in BOOLEAN
  /\ \A q \in Scorers : scorer[q].phase \in {"idle", "scored", "loaded"}

Resting == [phase |-> "idle"]

ScoreInit ==
  /\ scored = Unscored
  /\ scorer = [q \in Scorers |-> Resting]
  /\ scoreTaint = FALSE

-----------------------------------------------------------------------------
(* score_from_rubric                                                        *)
FromRubric == Result(RubricScore, "rule", "pending")

(* apply_human_decision on the rubric's result: only an edit brings its own *)
(* score.                                                                   *)
apply_human_decision(decision, edited) ==
  CASE decision = "edited"   -> Result(edited, "manual", "edited")
    [] decision = "rejected" -> Result(RubricScore, "manual", "rejected")
    [] OTHER                 -> Result(RubricScore, "rule", decision)

(* _qualify_with_ai: without a promoted prompt, or when the gateway gives   *)
(* no usable answer, the rubric's score.                                    *)
qualify_with_ai == {Result(s, "ai", "pending") : s \in ScoreValues} \cup {FromRubric}

qualify == {FromRubric} \cup qualify_with_ai \cup
           {apply_human_decision("edited", s) : s \in ScoreValues}

review_qualification ==
  {apply_human_decision(d, s) : d \in {"accepted", "edited", "rejected", "deferred"},
                                s \in ScoreValues}

Score(q, results) ==
  /\ scorer[q].phase = "idle"
  /\ \E r \in results : scorer' = [scorer EXCEPT ![q] = [phase |-> "scored", result |-> r]]
  /\ UNCHANGED <<scored, scoreTaint>>

(* _persist_qualification: load, then commit.                               *)
LoadScored(q) ==
  /\ scorer[q].phase = "scored"
  /\ scorer' = [scorer EXCEPT ![q] = [phase |-> "loaded", result |-> @.result,
                                      old |-> scored, stale |-> FALSE]]
  /\ UNCHANGED <<scored, scoreTaint>>

persist_qualification(q) ==
  /\ scorer[q].phase = "loaded"
  /\ scored' = Flush(scored, scorer[q].old, scorer[q].result)
  /\ scoreTaint' = (scoreTaint \/ scorer[q].stale)
  /\ scorer' = [p \in Scorers |->
       IF p = q THEN Resting
       ELSE IF scorer[p].phase = "loaded" THEN [scorer[p] EXCEPT !.stale = TRUE] ELSE scorer[p]]

(* The qualification routes.                                                *)
ScoreNext ==
  \E q \in Scorers :
    \/ Score(q, qualify)
    \/ Score(q, review_qualification)
    \/ LoadScored(q)
    \/ persist_qualification(q)

ScoreSpec == ScoreInit /\ [][ScoreNext]_scoreVars

-----------------------------------------------------------------------------
(* Unless it was written from an outdated load, the row is one result as a  *)
(* whole: its category is that of its score, its state fits its author.     *)
CategoryFitsScore ==
  ~scoreTaint => scored = Unscored \/
    /\ scored.category = (IF scored.score < 40 THEN "cold" ELSE IF scored.score < 80 THEN "warm" ELSE "hot")
    /\ (scored.by = "ai" => scored.state = "pending")
=============================================================================
