----------------------------- MODULE DealProofs -----------------------------
(***************************************************************************)
(* Lead scores, forms, deals, the actions that workflows take on records   *)
(* and the calls to providers, for any number of forms, deals, requests,   *)
(* runs, attempts and calls: a score has its category (LeadScoring), an    *)
(* archived form is offline (Forms), an action has its effect once         *)
(* (ActionDispatch), a tenant has one default pipeline and the columns of  *)
(* a deal agree (Deals), trials after an outage and the overrun of the     *)
(* token budget are few (ProviderCalls).                                   *)
(***************************************************************************)
EXTENDS Forms, LeadScoring, ActionDispatch, Deals, ProviderCalls, FiniteSetTheorems, TLAPS

(* LeadScoring.  A result of any kind of qualification, and a request past  *)
(* its scoring: not outdated, it holds the row as it is.                    *)
Results ==
  {Result(s, by, state) : s \in 0..100, by \in {"rule", "manual"},
                          state \in {"pending", "accepted", "edited", "rejected", "deferred"}}
    \cup {Result(s, "ai", "pending") : s \in 0..100}

ScorerOK(row, r) ==
  /\ r.phase \in {"scored", "loaded"} => r.result \in Results
  /\ r.phase = "loaded" => "stale" \in DOMAIN r /\ (~r.stale => r.old = row)

ScoreInv ==
  /\ DOMAIN scorer = Scorers
  /\ \A q \in Scorers : ScorerOK(scored, scorer[q])
  /\ ~scoreTaint => scored \in Results \cup {Unscored}

(* Every way to qualify, and every review, makes a result.                  *)
LEMMA QualifyResults == qualify \cup review_qualification \subseteq Results
<1>1. \A s \in ScoreValues \cup {RubricScore} : s \in 0..100
  BY Zenon, ScoringAssumption
<1>2. ASSUME NEW s \in 0..100, NEW by \in {"rule", "manual"},
             NEW state \in {"pending", "accepted", "edited", "rejected", "deferred"}
      PROVE  Result(s, by, state) \in Results
  BY DEF Results
<1>3. FromRubric \in Results /\ qualify_with_ai \subseteq Results
  <2>1. FromRubric \in Results
    BY Zenon, <1>1, <1>2 DEF FromRubric
  <2>2. \A s \in 0..100 : Result(s, "ai", "pending") \in Results
    BY DEF Results
  <2> QED
    BY Zenon, <1>1, <2>1, <2>2 DEF qualify_with_ai
<1>4. ASSUME NEW d \in {"accepted", "edited", "rejected", "deferred"}, NEW s \in ScoreValues
      PROVE  apply_human_decision(d, s) \in Results
  <2>1. CASE d = "edited"
    <3>1. apply_human_decision(d, s) = Result(s, "manual", "edited")
      BY Zenon, <2>1 DEF apply_human_decision
    <3> QED
      BY Zenon, <1>1, <1>2, <3>1
  <2>2. CASE d = "rejected"
    <3>1. apply_human_decision(d, s) = Result(RubricScore, "manual", "rejected")
      BY <2>2 DEF apply_human_decision
    <3> QED
      BY Zenon, <1>1, <1>2, <3>1
  <2>3. CASE d \in {"accepted", "deferred"}
    <3>1. apply_human_decision(d, s) = Result(RubricScore, "rule", d)
      BY <2>3 DEF apply_human_decision
    <3> QED
      BY Zenon, <1>1, <1>2, <2>3, <3>1
  <2> QED
    BY Zenon, <2>1, <2>2, <2>3
<1>5. {apply_human_decision("edited", s) : s \in ScoreValues} \subseteq Results
  BY <1>4
<1>6. review_qualification \subseteq Results
  BY <1>4 DEF review_qualification
<1> QED
  BY Zenon, <1>3, <1>5, <1>6 DEF qualify

(* A result written over the row it was loaded from is the row.             *)
LEMMA ResultFlush ==
  ASSUME NEW old \in Results \cup {Unscored}, NEW new \in Results
  PROVE  Flush(old, old, new) = new
<1> DEFINE Columns == {"score", "category", "by", "state"}
<1>1. ASSUME NEW x \in Results
      PROVE  DOMAIN x = Columns /\ x = [f \in Columns |-> x[f]]
  <2>1. PICK s, by, state : x = Result(s, by, state)
    BY DEF Results
  <2>2. PICK c : x = [score |-> s, category |-> c, by |-> by, state |-> state]
    BY Zenon, <2>1 DEF Result
  <2>3. DOMAIN x = Columns
    BY <2>2
  <2>4. x = [f \in Columns |-> x[f]]
    BY <2>2
  <2> HIDE DEF Columns
  <2> QED
    BY Zenon, <2>3, <2>4
<1>2. DOMAIN Unscored = Columns
  BY DEF Unscored
<1>3. DOMAIN old = Columns /\ new = [f \in Columns |-> new[f]]
  BY Zenon, <1>1, <1>2
<1>4. Flush(old, old, new) = [f \in DOMAIN old |-> new[f]]
  BY Zenon DEF Flush
<1> HIDE DEF Columns
<1> QED
  BY Zenon, <1>3, <1>4

(* A rule, a model or a reviewer scores the lead.                           *)
LEMMA ScoreStep ==
  ASSUME ScoreInv, NEW q \in Scorers,
         Score(q, qualify) \/ Score(q, review_qualification)
  PROVE  ScoreInv'
<1>1. PICK r \in qualify \cup review_qualification :
        scorer' = [scorer EXCEPT ![q] = [phase |-> "scored", result |-> r]]
  BY Zenon DEF Score
<1>2. /\ scored' = scored /\ scoreTaint' = scoreTaint
      /\ r \in Results
  BY Zenon, QualifyResults DEF Score
<1>3. /\ DOMAIN scorer' = Scorers
      /\ scorer'[q] = [phase |-> "scored", result |-> r]
      /\ \A p \in Scorers : p # q => scorer'[p] = scorer[p]
  BY Zenon, <1>1 DEF ScoreInv
<1>4. ScorerOK(scored, scorer'[q])
  BY <1>2, <1>3 DEF ScorerOK
<1> QED
  BY Zenon, <1>2, <1>3, <1>4 DEF ScoreInv

(* persist_qualification's own load of the lead.                            *)
LEMMA LoadScoredStep ==
  ASSUME ScoreInv, NEW q \in Scorers, LoadScored(q)
  PROVE  ScoreInv'
<1>1. /\ scored' = scored /\ scoreTaint' = scoreTaint
      /\ DOMAIN scorer' = Scorers
      /\ scorer'[q] = [phase |-> "loaded", result |-> scorer[q].result,
                       old |-> scored, stale |-> FALSE]
      /\ \A p \in Scorers : p # q => scorer'[p] = scorer[p]
  BY Zenon DEF LoadScored, ScoreInv
<1>2. scorer[q].result \in Results
  BY Zenon DEF LoadScored, ScoreInv, ScorerOK
<1>3. ScorerOK(scored, scorer'[q])
  BY <1>1, <1>2 DEF ScorerOK
<1> QED
  BY Zenon, <1>1, <1>3 DEF ScoreInv

(* persist_qualification writes the score and its category.                 *)
LEMMA PersistStep ==
  ASSUME ScoreInv, NEW q \in Scorers, persist_qualification(q)
  PROVE  ScoreInv'
<1>1. /\ DOMAIN scorer' = Scorers
      /\ \A p \in Scorers : scorer'[p] =
           IF p = q THEN Resting
           ELSE IF scorer[p].phase = "loaded" THEN [scorer[p] EXCEPT !.stale = TRUE] ELSE scorer[p]
  BY Zenon DEF persist_qualification
<1>2. ASSUME NEW p \in Scorers
      PROVE  ScorerOK(scored', scorer'[p])
  <2>1. CASE p = q
    BY <2>1, <1>1 DEF Resting, ScorerOK
  <2>2. CASE p # q /\ scorer[p].phase = "loaded"
    <3>1. scorer'[p] = [scorer[p] EXCEPT !.stale = TRUE] /\ ScorerOK(scored, scorer[p])
      BY Zenon, <2>2, <1>1 DEF ScoreInv
    <3>2. /\ scorer'[p].stale = TRUE /\ scorer'[p].result = scorer[p].result
          /\ scorer'[p].phase = "loaded" /\ "stale" \in DOMAIN scorer'[p]
      BY <3>1, <2>2 DEF ScorerOK
    <3> QED
      BY Zenon, <3>1, <3>2, <2>2 DEF ScorerOK
  <2>3. CASE p # q /\ scorer[p].phase # "loaded"
    BY <2>3, <1>1 DEF ScoreInv, ScorerOK
  <2> QED
    BY Zenon, <2>1, <2>2, <2>3
<1>3. ASSUME ~scoreTaint'
      PROVE  scored' \in Results
  <2>1. /\ ~scoreTaint /\ ~scorer[q].stale
        /\ scorer[q].phase = "loaded"
        /\ scored' = Flush(scored, scorer[q].old, scorer[q].result)
    BY Zenon, <1>3 DEF persist_qualification
  <2>2. /\ scorer[q].old = scored /\ scorer[q].result \in Results
        /\ scored \in Results \cup {Unscored}
    BY Zenon, <2>1 DEF ScoreInv, ScorerOK
  <2> QED
    BY Zenon, <2>1, <2>2, ResultFlush
<1> QED
  BY Zenon, <1>1, <1>2, <1>3 DEF ScoreInv

(* LeadScoring: the inductive invariant.                                    *)
THEOREM ScoreInvariant == ScoreSpec => []ScoreInv
<1>1. ScoreInit => ScoreInv
  BY DEF ScoreInit, ScoreInv, ScorerOK, Resting
<1>2. ScoreInv /\ [ScoreNext]_scoreVars => ScoreInv'
  <2> SUFFICES ASSUME ScoreInv, [ScoreNext]_scoreVars
               PROVE  ScoreInv'
    OBVIOUS
  <2>1. CASE ScoreNext
    BY Zenon, <2>1, ScoreStep, LoadScoredStep, PersistStep DEF ScoreNext
  <2>2. CASE UNCHANGED scoreVars
    BY Zenon, <2>2 DEF scoreVars, ScoreInv
  <2> QED
    BY Zenon, <2>1, <2>2
<1> QED
  BY <1>1, <1>2, PTL DEF ScoreSpec

(* LeadScoring: requests that qualify and review a lead at the same time    *)
(* leave it one result as a whole, its category that of its score, unless   *)
(* one of them wrote over a row it had not seen (_persist_qualification).   *)
THEOREM CategoriesFit == ScoreSpec => []CategoryFitsScore
<1>1. ScoreInv => CategoryFitsScore
  <2> SUFFICES ASSUME ScoreInv, ~scoreTaint, scored # Unscored
               PROVE  /\ scored.category = (IF scored.score < 40 THEN "cold"
                                            ELSE IF scored.score < 80 THEN "warm" ELSE "hot")
                      /\ scored.by = "ai" => scored.state = "pending"
    BY Zenon DEF CategoryFitsScore
  <2>1. PICK s \in 0..100 : \E by, state :
          scored = Result(s, by, state) /\ (by = "ai" => state = "pending")
    BY DEF ScoreInv, Results
  <2>2. PICK by, state : scored = Result(s, by, state) /\ (by = "ai" => state = "pending")
    BY Zenon, <2>1
  <2>3. /\ scored.score = s /\ scored.category = categorize(s)
        /\ scored.by = by /\ scored.state = state
    BY <2>2 DEF Result
  <2>4. categorize(s) = (IF s < 40 THEN "cold" ELSE IF s < 80 THEN "warm" ELSE "hot")
    BY DEF categorize, HOT_THRESHOLD, WARM_THRESHOLD
  <2> QED
    BY ZenonT(40), <2>2, <2>3, <2>4
<1> QED
  BY <1>1, ScoreInvariant, PTL

-----------------------------------------------------------------------------
(* Forms.  A form that exists has a draft, an archived one is offline and a *)
(* published one has a schema to serve.                                     *)
FormOK(row) ==
  /\ row.exists => row.draft # NoForm
  /\ row.archived => ~row.is_published
  /\ row.is_published => row.live # NoForm

(* A request that saw the row as it is, and a row never written from an     *)
(* outdated load, leave a row of that kind.                                 *)
FormReqOK(row, taint, r, f) ==
  /\ DOMAIN r.writes = {f} /\ r.stale \subseteq {f}
  /\ r.writes[f].old \in FormRow /\ r.writes[f].new \in FormRow
  /\ r.stale = {} /\ f \notin taint => r.writes[f].old = row /\ FormOK(r.writes[f].new)

FormRequestsInv ==
  /\ DOMAIN formReq = FormRequests
  /\ \A q \in FormRequests : formReq[q] # NoForm =>
       /\ formReq[q] = [writes |-> formReq[q].writes, stale |-> formReq[q].stale]
       /\ \E f \in FormIds : FormReqOK(form[f], formTaint, formReq[q], f)

FormInv ==
  /\ form \in [FormIds -> FormRow]
  /\ \A f \in FormIds \ formTaint : FormOK(form[f])
  /\ FormRequestsInv

(* The flush of a row keeps its columns, and over the row that was loaded   *)
(* it leaves what the request set.                                          *)
LEMMA FormFlush ==
  ASSUME NEW row \in FormRow, NEW old \in FormRow, NEW new \in FormRow
  PROVE  Flush(row, old, new) \in FormRow /\ (old = row => Flush(row, old, new) = new)
<1>1. DOMAIN row = DOMAIN new /\ DOMAIN row = {"exists", "draft", "live", "is_published", "archived"}
  BY DEF FormRow
<1>2. Flush(row, old, new) \in FormRow
  <2>1. \A f \in DOMAIN row : Flush(row, old, new)[f] \in {new[f], row[f]}
    BY ZenonT(40) DEF Flush
  <2>2. Flush(row, old, new) =
          [exists |-> Flush(row, old, new).exists, draft |-> Flush(row, old, new).draft,
           live |-> Flush(row, old, new).live, is_published |-> Flush(row, old, new).is_published,
           archived |-> Flush(row, old, new).archived]
    BY SMTT(40), <1>1 DEF Flush
  <2> QED
    BY <2>1, <2>2, <1>1 DEF FormRow
<1>3. ASSUME old = row
      PROVE  Flush(row, old, new) = new
  <2>1. Flush(row, old, new) = [f \in DOMAIN new |-> new[f]]
    BY Zenon, <1>1, <1>3 DEF Flush
  <2> QED
    BY <2>1 DEF FormRow
<1> QED
  BY Zenon, <1>2, <1>3

(* Every request of the builder sets such a row from such a row.            *)
LEMMA LoadFormStep ==
  ASSUME FormInv, NEW q \in FormRequests, NEW f \in FormIds, NEW new \in FormRow,
         LoadForm(q, f, new), FormOK(form[f]) => FormOK(new)
  PROVE  FormInv'
<1>1. /\ form' = form /\ formTaint' = formTaint
      /\ DOMAIN formReq' = FormRequests
      /\ formReq'[q] = Load(f, form[f], new)
      /\ \A p \in FormRequests : p # q => formReq'[p] = formReq[p]
  BY Zenon DEF LoadForm, FormInv, FormRequestsInv
<1>2. form[f] \in FormRow /\ (f \notin formTaint => FormOK(form[f]))
  BY ZenonT(40) DEF FormInv
<1>3. /\ formReq'[q] = [writes |-> formReq'[q].writes, stale |-> formReq'[q].stale]
      /\ formReq'[q].writes = [i \in {f} |-> [old |-> form[f], new |-> new]]
      /\ formReq'[q].stale = {}
  BY SMTT(40), <1>1 DEF Load, Write
<1>4. FormReqOK(form[f], formTaint, formReq'[q], f)
  BY <1>2, <1>3 DEF FormReqOK
<1> QED
  BY Zenon, <1>1, <1>3, <1>4 DEF FormInv, FormRequestsInv

(* The routes of the form builder.                                          *)
LEMMA BuilderStep ==
  ASSUME FormInv, NEW q \in FormRequests, FormRoutes(q)
  PROVE  FormInv'
<1>1. PICK f \in FormIds :
        \/ \E s \in Schemas : create_form(q, f, s) \/ update_form(q, f, s, "none")
        \/ publish_form(q, f) \/ unpublish_form(q, f) \/ archive_form(q, f)
  BY Zenon DEF FormRoutes
<1>2. form[f] \in FormRow
  BY Zenon DEF FormInv
<1>3. ASSUME NEW s \in Schemas, create_form(q, f, s)
      PROVE  FormInv'
  <2> DEFINE new == [form[f] EXCEPT !.exists = TRUE, !.draft = s]
  <2>1. new \in FormRow /\ (FormOK(form[f]) => FormOK(new))
    BY Zenon, <1>2, FormAssumption DEF FormRow, FormOK
  <2> QED
    BY Zenon, <1>3, <2>1, LoadFormStep DEF create_form
<1>4. ASSUME NEW s \in Schemas, update_form(q, f, s, "none")
      PROVE  FormInv'
  <2> DEFINE new == [form[f] EXCEPT !.draft = s]
  <2>1. new \in FormRow /\ (FormOK(form[f]) => FormOK(new))
    BY <1>2, FormAssumption DEF FormRow, FormOK
  <2> QED
    BY Zenon, <1>4, <2>1, LoadFormStep DEF update_form
<1>5. CASE publish_form(q, f)
  <2> DEFINE new == [form[f] EXCEPT !.live = form[f].draft, !.is_published = TRUE]
  <2>1. new \in FormRow /\ (FormOK(form[f]) => FormOK(new))
    BY Zenon, <1>2, <1>5 DEF FormRow, FormOK, publish_form, FormFound
  <2> QED
    BY Zenon, <1>5, <2>1, LoadFormStep DEF publish_form
<1>6. CASE unpublish_form(q, f)
  <2> DEFINE new == [form[f] EXCEPT !.is_published = FALSE]
  <2>1. new \in FormRow /\ (FormOK(form[f]) => FormOK(new))
    BY Zenon, <1>2 DEF FormRow, FormOK
  <2> QED
    BY Zenon, <1>6, <2>1, LoadFormStep DEF unpublish_form
<1>7. CASE archive_form(q, f)
  <2>1. Offline(form[f]) \in FormRow /\ (FormOK(form[f]) => FormOK(Offline(form[f])))
    BY Zenon, <1>2 DEF FormRow, FormOK, Offline
  <2> QED
    BY Zenon, <1>7, <2>1, LoadFormStep DEF archive_form
<1> QED
  BY Zenon, <1>1, <1>3, <1>4, <1>5, <1>6, <1>7

(* The commit of a change of a form.                                        *)
LEMMA CommitFormStep ==
  ASSUME FormInv, NEW q \in FormRequests, CommitForm(q)
  PROVE  FormInv'
<1>1. PICK r : r = formReq[q]
  BY Zenon
<1>2. PICK f \in FormIds : FormReqOK(form[f], formTaint, r, f)
  BY Zenon, <1>1 DEF CommitForm, FormInv, FormRequestsInv
<1>3. PICK new : new = Flush(form[f], r.writes[f].old, r.writes[f].new)
  BY Zenon
<1>4. new \in FormRow /\ (r.writes[f].old = form[f] => new = r.writes[f].new)
  BY Zenon, <1>2, <1>3, FormFlush DEF FormReqOK, FormInv
<1>5. Dirty(r) = {f} /\ DOMAIN form = FormIds
  BY Zenon, <1>2 DEF Dirty, FormReqOK, FormInv
<1>6. /\ form' = [g \in FormIds |-> IF g = f THEN new ELSE form[g]]
      /\ formTaint' = formTaint \cup r.stale
      /\ formReq' = [p \in FormRequests |->
                       IF p = q \/ formReq[p] = NoForm THEN NoForm ELSE Outdate(formReq[p], {f})]
  <2>1. /\ form' = Commit(form, r) /\ formTaint' = formTaint \cup r.stale
        /\ formReq' = [p \in FormRequests |->
                         IF p = q \/ formReq[p] = NoForm THEN NoForm
                         ELSE Outdate(formReq[p], Dirty(r))]
    BY Zenon, <1>1 DEF CommitForm
  <2>2. Commit(form, r) = [g \in FormIds |-> IF g = f THEN new ELSE form[g]]
    BY <1>3, <1>5 DEF Commit
  <2> QED
    BY Zenon, <2>1, <2>2, <1>5
<1>7. form' \in [FormIds -> FormRow]
  BY Zenon, <1>4, <1>6 DEF FormInv
<1>8. ASSUME NEW g \in FormIds \ formTaint'
      PROVE  FormOK(form'[g])
  <2>1. CASE g = f
    <3>1. r.stale = {} /\ f \notin formTaint
      BY Zenon, <1>2, <1>6, <1>8, <2>1 DEF FormReqOK
    <3> QED
      BY Zenon, <3>1, <2>1, <1>2, <1>4, <1>6 DEF FormReqOK
  <2>2. CASE g # f
    BY Zenon, <2>2, <1>6, <1>8 DEF FormInv
  <2> QED
    BY Zenon, <2>1, <2>2
<1>9. ASSUME NEW p \in FormRequests, formReq'[p] # NoForm
      PROVE  /\ formReq'[p] = [writes |-> formReq'[p].writes, stale |-> formReq'[p].stale]
             /\ \E g \in FormIds : FormReqOK(form'[g], formTaint', formReq'[p], g)
  <2>1. formReq[p] # NoForm /\ formReq'[p] = Outdate(formReq[p], {f})
    BY Zenon, <1>6, <1>9
  <2>2. PICK s : s = formReq[p]
    BY Zenon
  <2>3. PICK g \in FormIds : FormReqOK(form[g], formTaint, s, g)
    BY Zenon, <2>1, <2>2 DEF FormInv, FormRequestsInv
  <2>4. s = [writes |-> s.writes, stale |-> s.stale]
    BY Zenon, <2>1, <2>2 DEF FormInv, FormRequestsInv
  <2>5. Outdate(s, {f}) = [writes |-> s.writes, stale |-> s.stale \cup ({f} \cap DOMAIN s.writes)]
    BY SMTT(40), <2>4 DEF Outdate, Dirty
  <2>6. PICK t : t = Outdate(s, {f})
    BY Zenon
  <2>7. /\ t.writes = s.writes /\ t.stale = s.stale \cup ({f} \cap {g})
        /\ t = [writes |-> t.writes, stale |-> t.stale]
    BY <2>3, <2>5, <2>6 DEF FormReqOK
  <2>8. t.stale = {} => g # f /\ s.stale = {}
    BY Zenon, <2>7
  <2>9. g # f => form'[g] = form[g]
    BY Zenon, <1>6
  <2>10. g \notin formTaint' => g \notin formTaint
    BY Zenon, <1>6
  <2>11. t.stale \subseteq {g}
    BY Zenon, <2>3, <2>7 DEF FormReqOK
  <2>12. FormReqOK(form'[g], formTaint', t, g)
    BY Zenon, <2>3, <2>7, <2>8, <2>9, <2>10, <2>11 DEF FormReqOK
  <2> QED
    BY Zenon, <2>1, <2>2, <2>6, <2>7, <2>12
<1> QED
  BY Zenon, <1>6, <1>7, <1>8, <1>9 DEF FormInv, FormRequestsInv

(* Forms: the inductive invariant.                                          *)
THEOREM FormInvariant == FormSpec => []FormInv
<1>1. FormInit => FormInv
  BY DEF FormInit, FormInv, FormRequestsInv, FormRow, FormOK
<1>2. FormInv /\ [FormNext]_formVars => FormInv'
  <2> SUFFICES ASSUME FormInv, [FormNext]_formVars
               PROVE  FormInv'
    OBVIOUS
  <2>1. CASE \E q \in FormRequests : FormRoutes(q) \/ CommitForm(q)
    BY Zenon, <2>1, BuilderStep, CommitFormStep
  <2>2. CASE UNCHANGED <<form, formReq, formTaint>>
    BY Zenon, <2>2 DEF FormInv, FormRequestsInv
  <2> QED
    BY Zenon, <2>1, <2>2 DEF FormNext, OpenForm, submit_public_form, formVars
<1> QED
  BY <1>1, <1>2, PTL DEF FormSpec

(* Forms: however builders publish, edit, unpublish and archive a form at   *)
(* the same time, an archived form is not served and a served one has a     *)
(* schema, unless a request wrote over a form it had not seen.              *)
THEOREM ArchivedFormsOffline == FormSpec => []ArchivedIsOffline
<1>1. FormInv => ArchivedIsOffline
  BY Zenon DEF FormInv, FormOK, ArchivedIsOffline
<1> QED
  BY <1>1, FormInvariant, PTL

-----------------------------------------------------------------------------
(* ActionDispatch.                                                          *)

(* While no connection is cut, the run that is past the receipt's check and *)
(* before the end of its transaction holds the lock.                        *)
LockInv == cuts = 0 => \A r \in Runs : pc[r] \in Critical => lock = r

(* A service or keyed action has had its effect exactly when the receipt    *)
(* exists; a run about to apply it under the lock has found none.           *)
ReceiptInv ==
  /\ kind \in {"service", "keyed"} => (receipt <=> effects > 0)
  /\ receipt => effects > 0
  /\ \A r \in Runs : pc[r] = "record" => effects > 0
  /\ kind = "service" /\ cuts = 0 => \A r \in Runs : pc[r] = "apply" => ~receipt

ActionInv ==
  TypeOK /\ LockInv /\ ReceiptInv /\ AtMostOneEffect /\ CompletedHasReceipt

(* Every step keeps the inductive invariant (actions.py:249-314).           *)
LEMMA ActionStep == ActionInv /\ [Next]_vars => ActionInv'
<1> SUFFICES ASSUME ActionInv, [Next]_vars PROVE ActionInv'
  OBVIOUS
<1> USE ActionAssumption DEF ActionInv, TypeOK, LockInv, ReceiptInv, AtMostOneEffect,
        CompletedHasReceipt, Critical, Active, AllKinds, vars, node, world
<1>1. ASSUME NEW r \in Runs, Begin(r) PROVE ActionInv'
  BY <1>1 DEF Begin
<1>2. ASSUME NEW r \in Runs, LoadPrincipal(r) PROVE ActionInv'
  BY <1>2 DEF LoadPrincipal, Permitted, Goto, Fail, ShouldRetry
<1>3. ASSUME NEW r \in Runs, LoadFails(r) PROVE ActionInv'
  BY <1>3 DEF LoadFails, Goto, Fail, ShouldRetry
<1>4. ASSUME NEW r \in Runs, AcquireLock(r) PROVE ActionInv'
  BY Zenon, <1>4 DEF AcquireLock, LockFree, Goto
<1>5. ASSUME NEW r \in Runs, LockTimeout(r) PROVE ActionInv'
  BY <1>5 DEF LockTimeout, Goto, Fail, ShouldRetry
<1>6. ASSUME NEW r \in Runs, CheckReceipt(r) PROVE ActionInv'
  <2>1. CASE lock # r
    BY <1>6, <2>1 DEF CheckReceipt, Found, Goto, Fail, ShouldRetry, Unlock
  <2>2. CASE lock = r /\ receipt
    BY Zenon, <1>6, <2>2 DEF CheckReceipt, Found, Goto, Unlock
  <2>3. CASE lock = r /\ ~receipt
    BY Zenon, <1>6, <2>3 DEF CheckReceipt, Found, Goto
  <2> QED
    BY Zenon, <2>1, <2>2, <2>3
<1>7. ASSUME NEW r \in Runs, Apply(r) PROVE ActionInv'
  <2>1. CASE kind \in {"ai", "reply"}
    BY <1>7, <2>1 DEF Apply, Conflict, Goto
  <2>2. CASE kind = "keyed"
    <3>1. effects' = 1 /\ receipt' = TRUE /\ mutated' = TRUE
      BY <1>7, <2>2 DEF Apply, Conflict
    <3> QED
      BY <1>7, <2>2, <3>1 DEF Apply, Goto
  <2>3. CASE kind = "service"
    <3>1. effects' = effects + 1 /\ receipt' = TRUE /\ mutated' = TRUE
      BY Zenon, <1>7, <2>3 DEF Apply, Conflict
    <3>2. cuts = 0 => effects' = 1 /\ \A s \in Runs : pc'[s] = "apply" => s # r /\ lock = s
      BY <1>7, <2>3, <3>1 DEF Apply, Goto
    <3>3. cuts = 0 => lock = r
      BY Zenon, <1>7 DEF Apply
    <3> QED
      BY <1>7, <2>3, <3>1, <3>2, <3>3 DEF Apply, Goto
  <2> QED
    BY Zenon, <2>1, <2>2, <2>3
<1>8. ASSUME NEW r \in Runs, ApplyFails(r) PROVE ActionInv'
  BY <1>8 DEF ApplyFails, Goto, Fail, ShouldRetry, Unlock
<1>9. ASSUME NEW r \in Runs, Record(r) PROVE ActionInv'
  BY Zenon, <1>9 DEF Record, Receipted, Goto
<1>10. ASSUME NEW r \in Runs, RecordFails(r) PROVE ActionInv'
  BY <1>10 DEF RecordFails, Goto, Fail, ShouldRetry, Unlock
<1>11. ASSUME NEW r \in Runs, Verify(r) PROVE ActionInv'
  BY <1>11 DEF Verify, Proof, Goto, Fail, ShouldRetry, Unlock
<1>12. ASSUME NEW r \in Runs, Crash(r) PROVE ActionInv'
  BY <1>12 DEF Crash, Goto, Unlock
<1>13. ASSUME NEW r \in Runs, Cut(r) PROVE ActionInv'
  BY <1>13 DEF Cut
<1>14. CASE Revoke
  BY Zenon, <1>14 DEF Revoke
<1>15. CASE UNCHANGED vars
  BY Zenon, <1>15
<1> QED
  BY Zenon, <1>1, <1>2, <1>3, <1>4, <1>5, <1>6, <1>7, <1>8, <1>9, <1>10, <1>11, <1>12, <1>13,
     <1>14, <1>15 DEF Next, Step, Failure

(* The inductive invariant.                                                 *)
THEOREM ActionInvariant == Spec => []ActionInv
<1>1. Init => ActionInv
  <2> SUFFICES ASSUME Init PROVE ActionInv
    OBVIOUS
  <2>1. TypeOK
    <3>1. 1 \in 1..max_attempts /\ kind \in AllKinds
      BY ActionAssumption DEF Init
    <3> QED
      BY Zenon, <3>1 DEF Init, TypeOK
  <2> QED
    BY <2>1 DEF Init, ActionInv, LockInv, ReceiptInv, AtMostOneEffect, CompletedHasReceipt, Critical
<1> QED
  BY <1>1, ActionStep, PTL DEF Spec

(* Runs, lock and receipt keep their types; attempts stay in the budget.    *)
THEOREM TypeCorrect == Spec => []TypeOK
  BY ActionInvariant, PTL DEF ActionInv

(* Any number of runs and attempts apply a keyed action once, and a service *)
(* action once while its lock's connection lives (actions.py:264-296).      *)
THEOREM EffectIsSingle == Spec => []AtMostOneEffect
  BY ActionInvariant, PTL DEF ActionInv

(* A completed node has had its effect and its receipt (actions.py:312).    *)
THEOREM CompletedIsProved == Spec => []CompletedHasReceipt
  BY ActionInvariant, PTL DEF ActionInv

(* Runs exclude each other between check and verification (actions.py:265). *)
THEOREM RunsExclude == Spec => []OneRunApplies
<1>1. ActionInv => OneRunApplies
  BY Zenon DEF ActionInv, LockInv, OneRunApplies
<1> QED
  BY <1>1, ActionInvariant, PTL

-----------------------------------------------------------------------------
(* Deals.                                                                   *)

(* A request loads rows, waits, and flushes what it changed (RowFlush).  The *)
(* inductive invariant says of every request in flight what it loaded and    *)
(* what it will set, and that a load which no commit has outdated is still   *)
(* what is stored; a commit is then the flush of a row the invariant knows.  *)

(* A request's record of what it loaded and will write (RowFlush).          *)
Shaped(r) == {"writes", "stale"} \subseteq DOMAIN r

(* A commit by another request outdates what was loaded and nothing else.   *)
LEMMA OutdateHolds ==
  ASSUME NEW r, NEW ids, Shaped(r)
  PROVE  /\ Dirty(Outdate(r, ids)) = Dirty(r)
         /\ Outdate(r, ids).writes = r.writes
         /\ Outdate(r, ids).stale = r.stale \cup (ids \cap Dirty(r))
         /\ \A f \in DOMAIN r \ {"stale"} : Outdate(r, ids)[f] = r[f]
         /\ DOMAIN Outdate(r, ids) = DOMAIN r
         /\ Shaped(Outdate(r, ids))
BY Zenon DEF Outdate, Dirty, Shaped

(* The flush of a deal writes the columns that were changed.                *)
LEMMA DealFlush ==
  ASSUME NEW row \in DealRow, NEW old \in DealRow, NEW new \in DealRow,
         NEW out, out = Flush(row, old, new)
  PROVE  /\ out \in DealRow
         /\ out.exists = IF new.exists # old.exists THEN new.exists ELSE row.exists
         /\ out.pipeline = IF new.pipeline # old.pipeline THEN new.pipeline ELSE row.pipeline
         /\ row = old => out = new
<1>1. DOMAIN row = {"exists", "pipeline", "stage", "status", "closed_at", "loss_reason"}
  BY Zenon DEF DealRow
<1>2. out = [f \in {"exists", "pipeline", "stage", "status", "closed_at", "loss_reason"} |->
               IF new[f] # old[f] THEN new[f] ELSE row[f]]
  BY Zenon, <1>1 DEF Flush
<1>3. /\ out.exists = IF new.exists # old.exists THEN new.exists ELSE row.exists
      /\ out.pipeline = IF new.pipeline # old.pipeline THEN new.pipeline ELSE row.pipeline
      /\ out.stage = IF new.stage # old.stage THEN new.stage ELSE row.stage
      /\ out.status = IF new.status # old.status THEN new.status ELSE row.status
      /\ out.closed_at = IF new.closed_at # old.closed_at THEN new.closed_at ELSE row.closed_at
      /\ out.loss_reason = IF new.loss_reason # old.loss_reason
                             THEN new.loss_reason ELSE row.loss_reason
  BY Zenon, <1>2
<1>4. out = [exists |-> out.exists, pipeline |-> out.pipeline, stage |-> out.stage,
             status |-> out.status, closed_at |-> out.closed_at, loss_reason |-> out.loss_reason]
  BY Zenon, <1>2
<1>5. new = [exists |-> new.exists, pipeline |-> new.pipeline, stage |-> new.stage,
             status |-> new.status, closed_at |-> new.closed_at, loss_reason |-> new.loss_reason]
  BY Zenon DEF DealRow
<1>6. /\ out.exists \in BOOLEAN /\ out.pipeline \in DealRequests \cup {NoDeal}
      /\ out.stage \in Stages /\ out.status \in DealStatus
      /\ out.closed_at \in BOOLEAN /\ out.loss_reason \in BOOLEAN
  BY Zenon, <1>3 DEF DealRow
<1>7. out \in DealRow
  BY Zenon, <1>4, <1>6 DEF DealRow
<1>8. row = old => out = new
  BY Zenon, <1>3, <1>4, <1>5
<1> QED
  BY Zenon, <1>3, <1>7, <1>8

(* The columns of one deal agree.                                           *)
Agree(row) ==
  /\ row.closed_at <=> row.status # "open"
  /\ row.status # "open" => row.stage = row.status
  /\ row.status = "lost" => row.loss_reason
  /\ row.status = "open" => ~row.loss_reason

(* A deal that has not been inserted.                                       *)
Unborn(row) ==
  ~row.exists /\ row.pipeline = NoDeal /\ row.status = "open" /\ Agree(row)

(* move and reopen leave the columns of a deal in agreement.                *)
LEMMA DealEdits ==
  ASSUME NEW row \in DealRow
  PROVE  /\ \A to \in Stages : LET new == Moved(row, to) IN
              /\ new \in DealRow /\ new.exists = row.exists /\ new.pipeline = row.pipeline
              /\ Agree(new)
         /\ LET new == Reopened(row) IN
              /\ new \in DealRow /\ new.exists = row.exists /\ new.pipeline = row.pipeline
              /\ Agree(new)
<1>1. ASSUME NEW to \in Stages
      PROVE  LET new == Moved(row, to) IN
               /\ new \in DealRow /\ new.exists = row.exists /\ new.pipeline = row.pipeline
               /\ Agree(new)
  <2> DEFINE status == StatusOf(to)
             why == CASE status = "lost" -> TRUE [] status = "won" -> row.loss_reason [] OTHER -> FALSE
             new == Moved(row, to)
  <2>1. /\ status \in DealStatus /\ (status # "open" => to = status)
        /\ status = "open" \/ status = "won" \/ status = "lost"
    BY Zenon DEF StatusOf, Stages, OpenStages, DealStatus
  <2>2. /\ row.loss_reason \in BOOLEAN
        /\ row = [exists |-> row.exists, pipeline |-> row.pipeline, stage |-> row.stage,
             status |-> row.status, closed_at |-> row.closed_at, loss_reason |-> row.loss_reason]
    BY Zenon DEF DealRow
  <2>3. /\ status = "lost" => why = TRUE
        /\ status = "won" => why = row.loss_reason
        /\ status = "open" => why = FALSE
    BY Zenon, <2>1
  <2>4. why \in BOOLEAN
    BY Zenon, <2>1, <2>2, <2>3
  <2> DEFINE closed == status # "open"
  <2>5. new = [row EXCEPT !.stage = to, !.status = status, !.closed_at = closed, !.loss_reason = why]
    BY Zenon DEF Moved
  <2>6. closed \in BOOLEAN /\ to \in Stages
    BY Zenon
  <2> HIDE DEF why, status, closed, new
  <2>7. /\ new.exists = row.exists /\ new.pipeline = row.pipeline /\ new.stage = to
        /\ new.status = status /\ new.closed_at = closed /\ new.loss_reason = why
        /\ new \in DealRow
    BY Zenon, <2>1, <2>4, <2>5, <2>6 DEF DealRow
  <2>8. Agree(new)
    BY Zenon, <2>1, <2>3, <2>7 DEF Agree, closed
  <2> QED
    BY Zenon, <2>7, <2>8 DEF new
<1>2. LET new == Reopened(row) IN
        /\ new \in DealRow /\ new.exists = row.exists /\ new.pipeline = row.pipeline
        /\ new.status = "open" /\ new.closed_at = FALSE /\ new.loss_reason = FALSE
  BY Zenon DEF Reopened, DealRow, DealStatus
<1>4. LET new == Reopened(row) IN Agree(new)
  BY Zenon, <1>2 DEF Agree
<1> QED
  BY Zenon, <1>1, <1>2, <1>4

(* A request that writes sets, in a deal it found or makes, the pipeline    *)
(* there is, and the columns so that they agree if they did when loaded.    *)
DealWriteOK(table, made, r) ==
  /\ Shaped(r) /\ r.op = "write" /\ "op" \in DOMAIN r /\ r.stale \subseteq Dirty(r)
  /\ \A d \in Dirty(r) :
       LET old == r.writes[d].old
           new == r.writes[d].new
       IN  /\ d \in DealIds /\ old \in DealRow /\ new \in DealRow
           /\ new.exists /\ new.pipeline \in made
           /\ IF old.exists THEN table[d].exists /\ new.pipeline = old.pipeline
                            ELSE old.pipeline = NoDeal
           /\ Agree(old) => Agree(new)
           /\ d \notin r.stale => table[d] = old

(* The deals a request has in hand.                                         *)
InHand(r) == IF r.op = "ensure" THEN {r.deal} ELSE Dirty(r)

DealRequestOK(table, made, r) ==
  \/ DealWriteOK(table, made, r)
  \/ /\ \E phase \in {"insert", "reread"} : r = Looking(r.deal, phase)
     /\ r.deal \in DealIds /\ Unborn(table[r.deal])

DealRequestInv ==
  /\ DOMAIN dealReq = DealRequests
  /\ \A q \in DealRequests : dealReq[q] # NoDeal => DealRequestOK(deal, pipelines, dealReq[q])
  /\ \A p, q \in DealRequests :
       p # q /\ dealReq[p] # NoDeal /\ dealReq[q] # NoDeal /\ dealReq[p].op = "ensure"
         => dealReq[p].deal \notin InHand(dealReq[q])

DealRowsInv ==
  /\ pipelines \subseteq DealRequests /\ dealTaint \subseteq DealIds
  /\ \A p, q \in pipelines : p = q
  /\ deal \in [DealIds -> DealRow]
  /\ \A d \in DealIds : IF deal[d].exists THEN deal[d].pipeline \in pipelines ELSE Unborn(deal[d])
  /\ \A d \in DealIds \ dealTaint : Agree(deal[d])

DealInv == DealRowsInv /\ DealRequestInv

(* The invariant, after a step.                                             *)
LEMMA DealInvNext ==
  ASSUME DealRowsInv',
         DOMAIN dealReq' = DealRequests,
         \A q \in DealRequests :
           dealReq'[q] # NoDeal => DealRequestOK(deal', pipelines', dealReq'[q]),
         \A p, q \in DealRequests :
           p # q /\ dealReq'[p] # NoDeal /\ dealReq'[q] # NoDeal /\ dealReq'[p].op = "ensure"
             => dealReq'[p].deal \notin InHand(dealReq'[q])
  PROVE  DealInv'
BY Zenon DEF DealInv, DealRequestInv, DealRequestOK, DealWriteOK, Shaped, Dirty, InHand, Looking,
             Unborn, Agree, DealRow, Stages, OpenStages, DealStatus

(* A request takes a deal in hand that no looking request has.              *)
LEMMA TakeInHand ==
  ASSUME DealInv, NEW q \in DealRequests, NEW r, dealReq' = [dealReq EXCEPT ![q] = r],
         deal' = deal, dealTaint' = dealTaint, pipelines \subseteq pipelines',
         DealRowsInv', r # NoDeal => DealRequestOK(deal, pipelines', r),
         \A p \in DealRequests \ {q} : dealReq[p] # NoDeal /\ r # NoDeal =>
           /\ dealReq[p].op = "ensure" => dealReq[p].deal \notin InHand(r)
           /\ r.op = "ensure" => r.deal \notin InHand(dealReq[p])
  PROVE  DealInv'
<1>1. /\ DOMAIN dealReq' = DealRequests /\ dealReq'[q] = r
      /\ \A p \in DealRequests \ {q} : dealReq'[p] = dealReq[p]
  BY Zenon DEF DealInv, DealRequestInv
<1>2. \A p \in DealRequests : dealReq[p] # NoDeal => DealRequestOK(deal, pipelines', dealReq[p])
  <2>1. ASSUME NEW p \in DealRequests, DealWriteOK(deal, pipelines, dealReq[p])
        PROVE  DealWriteOK(deal, pipelines', dealReq[p])
    BY Zenon, <2>1 DEF DealWriteOK
  <2> QED
    BY Zenon, <2>1 DEF DealInv, DealRequestInv, DealRequestOK
<1>3. \A p \in DealRequests : dealReq'[p] # NoDeal => DealRequestOK(deal', pipelines', dealReq'[p])
  BY Zenon, <1>1, <1>2
<1>4. \A p, s \in DealRequests :
        p # s /\ dealReq'[p] # NoDeal /\ dealReq'[s] # NoDeal /\ dealReq'[p].op = "ensure"
          => dealReq'[p].deal \notin InHand(dealReq'[s])
  BY Zenon, <1>1 DEF DealInv, DealRequestInv
<1> QED
  BY Zenon, <1>1, <1>3, <1>4, DealInvNext

(* A step that writes no row keeps the invariant of the rows.               *)
LEMMA DealRowsSame ==
  ASSUME DealInv, deal' = deal, dealTaint' = dealTaint, pipelines' = pipelines
  PROVE  DealRowsInv'
BY Zenon DEF DealInv, DealRowsInv, Unborn, Agree

(* A write request as the routes make it.                                   *)
DealWrite(d, old, new) == [op |-> "write", writes |-> Write(d, old, new), stale |-> {}]

(* What a request that has loaded a deal has in hand.                       *)
LEMMA DealWriteHolds ==
  ASSUME NEW d, NEW old, NEW new
  PROVE  LET r == DealWrite(d, old, new) IN
         /\ r.op = "write" /\ "op" \in DOMAIN r /\ Shaped(r) /\ r.stale = {}
         /\ Dirty(r) = {d} /\ r.writes[d].old = old /\ r.writes[d].new = new
         /\ InHand(r) = {d}
BY Zenon DEF DealWrite, Write, Dirty, Shaped, InHand

(* A request that loads a deal begins well.                                 *)
LEMMA LoadDealOK ==
  ASSUME NEW d \in DealIds, NEW new \in DealRow, NEW made,
         deal[d] \in DealRow, new.exists, new.pipeline \in made,
         deal[d].exists => new.pipeline = deal[d].pipeline,
         ~deal[d].exists => deal[d].pipeline = NoDeal,
         Agree(deal[d]) => Agree(new)
  PROVE  DealWriteOK(deal, made, DealWrite(d, deal[d], new))
<1> DEFINE r == DealWrite(d, deal[d], new)
<1>1. /\ r.op = "write" /\ "op" \in DOMAIN r /\ Shaped(r) /\ r.stale = {}
      /\ Dirty(r) = {d} /\ r.writes[d].old = deal[d] /\ r.writes[d].new = new
  BY DealWriteHolds
<1> HIDE DEF r
<1>2. ASSUME NEW c \in Dirty(r)
      PROVE  LET old == r.writes[c].old
                 set == r.writes[c].new
             IN  /\ c \in DealIds /\ old \in DealRow /\ set \in DealRow
                 /\ set.exists /\ set.pipeline \in made
                 /\ IF old.exists THEN deal[c].exists /\ set.pipeline = old.pipeline
                                  ELSE old.pipeline = NoDeal
                 /\ Agree(old) => Agree(set)
                 /\ c \notin r.stale => deal[c] = old
  <2>1. c = d /\ r.writes[c].old = deal[d] /\ r.writes[c].new = new
    BY Zenon, <1>1
  <2> QED
    BY Zenon, <2>1
<1>3. r.stale \subseteq Dirty(r)
  BY Zenon, <1>1
<1> QED
  BY Zenon, <1>1, <1>2, <1>3 DEF DealWriteOK, r

(* What the invariant says of one stored deal.                              *)
LEMMA StoredDeal ==
  ASSUME DealInv, NEW d \in DealIds
  PROVE  /\ deal[d] \in DealRow /\ (deal[d].exists => deal[d].pipeline \in pipelines)
         /\ ~deal[d].exists => Unborn(deal[d]) /\ deal[d].pipeline = NoDeal
BY Zenon DEF DealInv, DealRowsInv, Unborn

(* update, move_stage and reopen load a deal that exists.                   *)
LEMMA EditStep ==
  ASSUME DealInv, NEW q \in DealRequests, NEW d \in DealIds, NEW new \in DealRow,
         deal[d].exists, new.exists, new.pipeline = deal[d].pipeline, Agree(deal[d]) => Agree(new),
         LoadDeal(q, d, new), dealReq[q] = NoDeal
  PROVE  DealInv'
<1> DEFINE r == DealWrite(d, deal[d], new)
<1>1. /\ deal' = deal /\ dealTaint' = dealTaint /\ pipelines' = pipelines
      /\ dealReq' = [dealReq EXCEPT ![q] = r]
  BY Zenon DEF LoadDeal, DealWrite
<1>2. deal[d] \in DealRow /\ deal[d].pipeline \in pipelines
  BY Zenon, StoredDeal
<1>3. DealWriteOK(deal, pipelines', r)
  BY Zenon, <1>1, <1>2, LoadDealOK
<1>4. r.op = "write" /\ InHand(r) = {d} /\ "op" \in DOMAIN r
  BY DealWriteHolds
<1>5. \A p \in DealRequests : dealReq[p] # NoDeal /\ dealReq[p].op = "ensure" => dealReq[p].deal # d
  BY Zenon DEF DealInv, DealRequestInv, DealRequestOK, DealWriteOK, Unborn
<1> QED
  BY Zenon, <1>1, <1>3, <1>4, <1>5, DealRowsSame, TakeInHand DEF DealRequestOK

(* What a request that looks for the pipeline holds.                        *)
LEMMA LookingHolds ==
  ASSUME NEW d, NEW phase
  PROVE  LET r == Looking(d, phase) IN
         /\ r.op = "ensure" /\ r.deal = d /\ r.phase = phase /\ InHand(r) = {d}
         /\ [r EXCEPT !.phase = "reread"] = Looking(d, "reread")
BY DEF Looking, InHand

(* The lookup of the default pipeline finds the one that is visible.        *)
LEMMA LooksFor ==
  ASSUME DealInv, NEW q \in DealRequests, dealReq[q] # NoDeal, dealReq[q].op = "ensure"
  PROVE  /\ dealReq[q].deal \in DealIds /\ Unborn(deal[dealReq[q].deal])
         /\ InHand(dealReq[q]) = {dealReq[q].deal}
         /\ [dealReq[q] EXCEPT !.phase = "reread"] = Looking(dealReq[q].deal, "reread")
         /\ \A p \in DealRequests \ {q} : dealReq[p] # NoDeal =>
              /\ dealReq[p].op = "ensure" => dealReq[p].deal # dealReq[q].deal
              /\ dealReq[q].deal \notin InHand(dealReq[p])
<1>1. /\ \E phase \in {"insert", "reread"} : dealReq[q] = Looking(dealReq[q].deal, phase)
      /\ dealReq[q].deal \in DealIds /\ Unborn(deal[dealReq[q].deal])
  <2>1. ~DealWriteOK(deal, pipelines, dealReq[q])
    BY Zenon DEF DealWriteOK
  <2> QED
    BY Zenon, <2>1 DEF DealInv, DealRequestInv, DealRequestOK
<1>2. /\ InHand(dealReq[q]) = {dealReq[q].deal}
      /\ [dealReq[q] EXCEPT !.phase = "reread"] = Looking(dealReq[q].deal, "reread")
  <2>1. PICK phase \in {"insert", "reread"} : dealReq[q] = Looking(dealReq[q].deal, phase)
    BY Zenon, <1>1
  <2> QED
    BY <2>1, LookingHolds
<1>3. \A p \in DealRequests \ {q} : dealReq[p] # NoDeal =>
        /\ dealReq[p].op = "ensure" => dealReq[p].deal # dealReq[q].deal
        /\ dealReq[q].deal \notin InHand(dealReq[p])
  BY Zenon, <1>2 DEF DealInv, DealRequestInv
<1> QED
  BY Zenon, <1>1, <1>2, <1>3

(* The write of a new deal into pipeline p.                                 *)
LEMMA NewDealOK ==
  ASSUME DealInv, NEW d \in DealIds, Unborn(deal[d]), NEW made, NEW p \in DealRequests, p \in made,
         NEW s \in Stages
  PROVE  DealWriteOK(deal, made, DealWrite(d, deal[d], NewDeal(d, p, s)))
<1> DEFINE new == NewDeal(d, p, s)
<1>1. deal[d] \in DealRow /\ ~deal[d].exists /\ deal[d].pipeline = NoDeal
  BY Zenon, StoredDeal DEF Unborn
<1>2. new \in DealRow /\ new.exists /\ new.pipeline = p /\ Agree(new)
  <2>1. /\ new \in DealRow /\ new.exists = TRUE /\ new.pipeline = p
        /\ new.status = deal[d].status /\ new.closed_at = deal[d].closed_at
        /\ new.loss_reason = deal[d].loss_reason
    BY Zenon, <1>1 DEF NewDeal, DealRow
  <2> QED
    BY Zenon, <2>1 DEF Unborn, Agree
<1> HIDE DEF new
<1>3. DealWriteOK(deal, made, DealWrite(d, deal[d], new))
  BY Zenon, <1>1, <1>2, LoadDealOK
<1> QED
  BY Zenon, <1>3 DEF new

(* create_deal looks for the default pipeline before it makes one.          *)
LEMMA CreateDealStep ==
  ASSUME DealInv, NEW q \in DealRequests, NEW d \in DealIds, CreateDeal(q, d)
  PROVE  DealInv'
<1>1. /\ ~deal[d].exists
      /\ \A p \in DealRequests : dealReq[p] # NoDeal => d \notin InHand(dealReq[p])
  BY Zenon DEF CreateDeal, InHand
<1>2. Unborn(deal[d])
  BY Zenon, <1>1, StoredDeal
<1>3. \A p \in DealRequests : dealReq[p] # NoDeal /\ dealReq[p].op = "ensure" => dealReq[p].deal # d
  BY Zenon, <1>1, LooksFor
<1>4. CASE pipelines = {}
  <2> DEFINE r == Looking(d, "insert")
  <2>1. /\ dealReq' = [dealReq EXCEPT ![q] = r] /\ deal' = deal /\ dealTaint' = dealTaint
        /\ pipelines' = pipelines
    BY Zenon, <1>4 DEF CreateDeal
  <2>2. r.op = "ensure" /\ r.deal = d /\ InHand(r) = {d}
    BY LookingHolds
  <2>3. DealRequestOK(deal, pipelines', r)
    BY Zenon, <1>2, <2>2 DEF DealRequestOK
  <2> HIDE DEF r
  <2> QED
    BY Zenon, <1>1, <1>3, <2>1, <2>2, <2>3, DealRowsSame, TakeInHand
<1>5. CASE pipelines # {}
  <2>1. PICK p \in pipelines, s \in Stages : LoadDeal(q, d, NewDeal(d, p, s))
    BY Zenon, <1>5 DEF CreateDeal
  <2> DEFINE r == DealWrite(d, deal[d], NewDeal(d, p, s))
  <2>2. /\ dealReq' = [dealReq EXCEPT ![q] = r] /\ deal' = deal /\ dealTaint' = dealTaint
        /\ pipelines' = pipelines
    BY Zenon, <2>1 DEF LoadDeal, DealWrite
  <2>3. p \in DealRequests
    BY Zenon DEF DealInv, DealRowsInv
  <2>4. DealRequestOK(deal, pipelines', r)
    BY Zenon, <1>2, <2>2, <2>3, NewDealOK DEF DealRequestOK
  <2>5. r.op = "write" /\ InHand(r) = {d}
    BY DealWriteHolds
  <2> HIDE DEF r
  <2> QED
    BY Zenon, <1>3, <2>2, <2>4, <2>5, DealRowsSame, TakeInHand
<1> QED
  BY Zenon, <1>4, <1>5

(* The insert of a pipeline takes the partial unique index or waits for the *)
(* one that holds it.                                                       *)
LEMMA ensure_pipelineStep ==
  ASSUME DealInv, NEW q \in DealRequests, ensure_pipeline(q)
  PROVE  DealInv'
<1> DEFINE d == dealReq[q].deal
<1>1. /\ dealReq[q] # NoDeal /\ dealReq[q].op = "ensure" /\ deal' = deal /\ dealTaint' = dealTaint
  BY Zenon DEF ensure_pipeline
<1>2. /\ d \in DealIds /\ Unborn(deal[d])
      /\ [dealReq[q] EXCEPT !.phase = "reread"] = Looking(d, "reread")
      /\ \A p \in DealRequests \ {q} : dealReq[p] # NoDeal =>
           /\ dealReq[p].op = "ensure" => dealReq[p].deal # d
           /\ d \notin InHand(dealReq[p])
  BY Zenon, <1>1, LooksFor
<1>3. ASSUME NEW s \in Stages, pipelines = {}, pipelines' = pipelines \cup {q},
             dealReq' = [dealReq EXCEPT ![q] = DealWrite(d, deal[d], NewDeal(d, q, s))]
      PROVE  DealInv'
  <2> DEFINE r == DealWrite(d, deal[d], NewDeal(d, q, s))
  <2>1. DealRowsInv'
    BY Zenon, <1>1, <1>3 DEF DealInv, DealRowsInv, Unborn, Agree
  <2>2. q \in pipelines' /\ pipelines \subseteq pipelines'
    BY Zenon, <1>3
  <2>3. DealRequestOK(deal, pipelines', r)
    BY Zenon, <1>2, <2>2, NewDealOK DEF DealRequestOK
  <2>4. r.op = "write" /\ InHand(r) = {d}
    BY DealWriteHolds
  <2>5. dealReq' = [dealReq EXCEPT ![q] = r]
    BY Zenon, <1>3
  <2> HIDE DEF r
  <2> QED
    BY Zenon, <1>1, <1>2, <2>1, <2>2, <2>3, <2>4, <2>5, TakeInHand
<1>4. ASSUME dealReq' = [dealReq EXCEPT ![q] = Looking(d, "reread")], pipelines' = pipelines
      PROVE  DealInv'
  <2> DEFINE r == Looking(d, "reread")
  <2>1. r.op = "ensure" /\ r.deal = d /\ InHand(r) = {d}
    BY LookingHolds
  <2>2. DealRequestOK(deal, pipelines', r)
    BY Zenon, <1>2, <2>1 DEF DealRequestOK
  <2>3. dealReq' = [dealReq EXCEPT ![q] = r]
    BY Zenon, <1>4
  <2> HIDE DEF r
  <2> QED
    <3>1. DealRowsInv'
      BY Zenon, <1>1, <1>4, DealRowsSame
    <3>2. \A p \in DealRequests \ {q} : dealReq[p] # NoDeal =>
            /\ dealReq[p].op = "ensure" => dealReq[p].deal \notin InHand(r)
            /\ r.deal \notin InHand(dealReq[p])
      BY Zenon, <1>2, <2>1
    <3>3. pipelines \subseteq pipelines'
      BY Zenon, <1>4
    <3> QED
      BY Zenon, <1>1, <2>2, <2>3, <3>1, <3>2, <3>3, TakeInHand
<1>5. \/ /\ pipelines = {} /\ pipelines' = pipelines \cup {q}
         /\ \E s \in Stages :
              dealReq' = [dealReq EXCEPT ![q] = DealWrite(d, deal[d], NewDeal(d, q, s))]
      \/ dealReq' = [dealReq EXCEPT ![q].phase = "reread"] /\ pipelines' = pipelines
  BY Zenon DEF ensure_pipeline, pipeline_tenant_name, DealWrite
<1>6. dealReq' = [dealReq EXCEPT ![q].phase = "reread"]
        => dealReq' = [dealReq EXCEPT ![q] = Looking(d, "reread")]
  BY Zenon, <1>2
<1> QED
  BY Zenon, <1>3, <1>4, <1>5, <1>6

(* A request whose insert conflicted reads the pipeline again.              *)
LEMMA RereadStep ==
  ASSUME DealInv, NEW q \in DealRequests, Reread(q)
  PROVE  DealInv'
<1> DEFINE d == dealReq[q].deal
<1>1. /\ dealReq[q] # NoDeal /\ dealReq[q].op = "ensure"
  BY Zenon DEF Reread
<1>2. /\ d \in DealIds /\ Unborn(deal[d])
      /\ \A p \in DealRequests \ {q} : dealReq[p] # NoDeal /\ dealReq[p].op = "ensure"
           => dealReq[p].deal # d
  BY Zenon, <1>1, LooksFor
<1>3. CASE pipelines = {}
  <2>1. /\ dealReq' = [dealReq EXCEPT ![q] = NoDeal] /\ deal' = deal /\ dealTaint' = dealTaint
        /\ pipelines' = pipelines
    BY Zenon, <1>3 DEF Reread
  <2> QED
    BY Zenon, <2>1, DealRowsSame, TakeInHand
<1>4. CASE pipelines # {}
  <2>1. PICK p \in pipelines, s \in Stages : LoadDeal(q, d, NewDeal(d, p, s))
    BY Zenon, <1>4 DEF Reread
  <2> DEFINE r == DealWrite(d, deal[d], NewDeal(d, p, s))
  <2>2. /\ dealReq' = [dealReq EXCEPT ![q] = r] /\ deal' = deal /\ dealTaint' = dealTaint
        /\ pipelines' = pipelines
    BY Zenon, <2>1 DEF LoadDeal, DealWrite
  <2>3. p \in DealRequests
    BY Zenon DEF DealInv, DealRowsInv
  <2>4. DealRequestOK(deal, pipelines', r)
    BY Zenon, <1>2, <2>2, <2>3, NewDealOK DEF DealRequestOK
  <2>5. r.op = "write" /\ InHand(r) = {d}
    BY DealWriteHolds
  <2> HIDE DEF r
  <2> QED
    BY Zenon, <1>2, <2>2, <2>4, <2>5, DealRowsSame, TakeInHand
<1> QED
  BY Zenon, <1>3, <1>4

(* A commit keeps every deal in the pipeline, and sets the deal as the      *)
(* request did when it was as the request loaded it.                        *)
LEMMA CommittedDeal ==
  ASSUME DealInv, NEW q \in DealRequests, CommitDeal(q), NEW d \in DealIds
  PROVE  LET r == dealReq[q] IN
         /\ deal'[d] \in DealRow
         /\ deal[d].exists => deal'[d].exists
         /\ d \notin Dirty(r) => deal'[d] = deal[d]
         /\ d \in Dirty(r) => deal'[d].exists
         /\ deal'[d].exists => deal'[d].pipeline \in pipelines
         /\ d \in Dirty(r) \ r.stale => (Agree(deal[d]) => Agree(deal'[d]))
<1> DEFINE r == dealReq[q]
           old == r.writes[d].old
           new == r.writes[d].new
<1>1. DealWriteOK(deal, pipelines, r) /\ deal' = Commit(deal, r)
  <2>1. r.op = "write" /\ r # NoDeal /\ deal' = Commit(deal, r)
    BY Zenon DEF CommitDeal
  <2>2. ASSUME NEW phase, r = Looking(r.deal, phase) PROVE FALSE
    BY <2>1, <2>2, LookingHolds
  <2> QED
    BY Zenon, <2>1, <2>2 DEF DealInv, DealRequestInv, DealRequestOK
<1>2. /\ DOMAIN deal = DealIds /\ deal[d] \in DealRow
      /\ deal[d].exists => deal[d].pipeline \in pipelines
  BY Zenon, StoredDeal DEF DealInv, DealRowsInv
<1>3. deal'[d] = IF d \in Dirty(r) THEN Flush(deal[d], old, new) ELSE deal[d]
  BY Zenon, <1>1, <1>2 DEF Commit
<1>4. CASE d \notin Dirty(r)
  BY Zenon, <1>2, <1>3, <1>4
<1>5. CASE d \in Dirty(r)
  <2>1. /\ old \in DealRow /\ new \in DealRow /\ new.exists /\ new.pipeline \in pipelines
        /\ IF old.exists THEN deal[d].exists /\ new.pipeline = old.pipeline
                         ELSE old.pipeline = NoDeal
        /\ Agree(old) => Agree(new)
        /\ d \notin r.stale => deal[d] = old
    BY Zenon, <1>1, <1>5 DEF DealWriteOK
  <2>2. deal'[d] = Flush(deal[d], old, new)
    BY Zenon, <1>3, <1>5
  <2> DEFINE out == deal'[d]
  <2>3. /\ out \in DealRow
        /\ out.exists = IF new.exists # old.exists THEN new.exists ELSE deal[d].exists
        /\ out.pipeline = IF new.pipeline # old.pipeline THEN new.pipeline ELSE deal[d].pipeline
        /\ deal[d] = old => out = new
    <3>1. deal[d] \in DealRow /\ old \in DealRow /\ new \in DealRow
      BY Zenon, <1>2, <2>1
    <3> QED
      BY <2>2, <3>1, DealFlush
  <2> HIDE DEF out, old, new
  <2>4. new.pipeline # NoDeal
    BY Zenon, <2>1, DealAssumption DEF DealInv, DealRowsInv
  <2>5. out.exists /\ out.pipeline \in pipelines
    <3>1. CASE old.exists
      <4>1. new.exists = old.exists
        BY Zenon, <2>1, <3>1 DEF DealRow
      <4> QED
        BY Zenon, <1>2, <2>1, <2>3, <3>1, <4>1
    <3>2. CASE ~old.exists
      BY Zenon, <2>1, <2>3, <2>4, <3>2
    <3> QED
      BY Zenon, <3>1, <3>2
  <2> QED
    BY Zenon, <1>5, <2>1, <2>3, <2>5 DEF out
<1> QED
  BY Zenon, <1>4, <1>5

(* A commit outdates what other requests had loaded.                        *)
LEMMA DealOutdated ==
  ASSUME NEW table, NEW after, NEW made, NEW r, NEW ids, DealWriteOK(table, made, r),
         \A d \in DealIds : /\ d \notin ids => after[d] = table[d]
                            /\ table[d].exists => after[d].exists
  PROVE  /\ DealWriteOK(after, made, Outdate(r, ids))
         /\ Outdate(r, ids).op = "write" /\ InHand(Outdate(r, ids)) = InHand(r)
<1> DEFINE o == Outdate(r, ids)
<1>1. Shaped(r) /\ r.op = "write" /\ "op" \in DOMAIN r /\ r.stale \subseteq Dirty(r)
  BY Zenon DEF DealWriteOK
<1>2. /\ Dirty(o) = Dirty(r) /\ o.writes = r.writes /\ Shaped(o)
      /\ o.stale = r.stale \cup (ids \cap Dirty(r))
      /\ o.op = "write" /\ "op" \in DOMAIN o
  BY <1>1, OutdateHolds
<1> HIDE DEF o
<1>3. o.stale \subseteq Dirty(o)
  BY Zenon, <1>1, <1>2
<1>4. ASSUME NEW d \in Dirty(o)
      PROVE  LET old == o.writes[d].old
                 new == o.writes[d].new
             IN  /\ d \in DealIds /\ old \in DealRow /\ new \in DealRow
                 /\ new.exists /\ new.pipeline \in made
                 /\ IF old.exists THEN after[d].exists /\ new.pipeline = old.pipeline
                                  ELSE old.pipeline = NoDeal
                 /\ Agree(old) => Agree(new)
                 /\ d \notin o.stale => after[d] = old
  <2> DEFINE old == r.writes[d].old
             new == r.writes[d].new
  <2>1. /\ d \in DealIds /\ old \in DealRow /\ new \in DealRow
        /\ new.exists /\ new.pipeline \in made
        /\ IF old.exists THEN table[d].exists /\ new.pipeline = old.pipeline
                         ELSE old.pipeline = NoDeal
        /\ Agree(old) => Agree(new)
        /\ d \notin r.stale => table[d] = old
    BY Zenon, <1>2 DEF DealWriteOK
  <2>2. old.exists => after[d].exists
    BY Zenon, <2>1
  <2>3. d \notin o.stale => after[d] = old
    BY Zenon, <1>2, <2>1
  <2> QED
    BY Zenon, <1>2, <2>1, <2>2, <2>3
<1>5. DealWriteOK(after, made, o)
  BY Zenon, <1>2, <1>3, <1>4 DEF DealWriteOK
<1>6. InHand(o) = InHand(r)
  BY Zenon, <1>1, <1>2 DEF InHand
<1> QED
  BY Zenon, <1>2, <1>5, <1>6 DEF o

(* A commit flushes the deal and makes the pipeline visible.                *)
LEMMA CommitDealStep ==
  ASSUME DealInv, NEW q \in DealRequests, CommitDeal(q)
  PROVE  DealInv'
<1> DEFINE r == dealReq[q]
<1>1. /\ deal' = Commit(deal, r) /\ dealTaint' = dealTaint \cup r.stale /\ pipelines' = pipelines
      /\ dealReq' = [p \in DealRequests |->
            IF p = q \/ dealReq[p] = NoDeal THEN NoDeal
            ELSE IF dealReq[p].op = "write" THEN Outdate(dealReq[p], Dirty(r)) ELSE dealReq[p]]
      /\ r.op = "write" /\ r # NoDeal
  BY Zenon DEF CommitDeal
<1>2. \A d \in DealIds :
        /\ deal'[d] \in DealRow
        /\ deal[d].exists => deal'[d].exists
        /\ d \notin Dirty(r) => deal'[d] = deal[d]
        /\ d \in Dirty(r) => deal'[d].exists
        /\ deal'[d].exists => deal'[d].pipeline \in pipelines
        /\ d \in Dirty(r) \ r.stale => (Agree(deal[d]) => Agree(deal'[d]))
  BY Zenon, CommittedDeal
<1>3. ASSUME NEW p \in DealRequests, dealReq[p] # NoDeal
      PROVE  \/ DealWriteOK(deal, pipelines, dealReq[p]) /\ dealReq[p].op = "write"
             \/ dealReq[p].op = "ensure" /\ ~DealWriteOK(deal, pipelines, dealReq[p])
  <2>1. ASSUME NEW phase, dealReq[p] = Looking(dealReq[p].deal, phase)
        PROVE  dealReq[p].op = "ensure"
    BY <2>1, LookingHolds
  <2>2. DealWriteOK(deal, pipelines, dealReq[p]) => dealReq[p].op = "write"
    BY Zenon DEF DealWriteOK
  <2> QED
    BY Zenon, <1>3, <2>1, <2>2 DEF DealInv, DealRequestInv, DealRequestOK
<1>4. r.stale \subseteq DealIds
  <2>1. DealWriteOK(deal, pipelines, r)
    BY Zenon, <1>1, <1>3
  <2> QED
    BY Zenon, <2>1 DEF DealWriteOK
<1>5. DealRowsInv'
  <2>1. deal' \in [DealIds -> DealRow]
    <3>1. DOMAIN deal' = DealIds
      BY Zenon, <1>1 DEF Commit, DealInv, DealRowsInv
    <3>2. deal' = [d \in DealIds |-> deal'[d]]
      BY Zenon, <1>1, <3>1 DEF Commit
    <3> QED
      BY Zenon, <1>2, <3>2
  <2>2. \A d \in DealIds :
          IF deal'[d].exists THEN deal'[d].pipeline \in pipelines ELSE Unborn(deal'[d])
    BY Zenon, <1>2, StoredDeal
  <2>3. \A d \in DealIds \ dealTaint' : Agree(deal'[d])
    <3> TAKE d \in DealIds \ dealTaint'
    <3>1. d \notin dealTaint /\ d \notin r.stale
      BY Zenon, <1>1
    <3>2. Agree(deal[d])
      BY Zenon, <3>1 DEF DealInv, DealRowsInv
    <3> QED
      BY Zenon, <1>2, <3>1, <3>2
  <2>4. dealTaint' \subseteq DealIds /\ pipelines' \subseteq DealRequests
        /\ \A p, s \in pipelines' : p = s
    BY Zenon, <1>1, <1>4 DEF DealInv, DealRowsInv
  <2> QED
    BY Zenon, <1>1, <2>1, <2>2, <2>3, <2>4 DEF DealRowsInv, Unborn, Agree
<1>6. ASSUME NEW p \in DealRequests, dealReq'[p] # NoDeal
      PROVE  /\ p # q /\ dealReq[p] # NoDeal
             /\ DealRequestOK(deal', pipelines', dealReq'[p])
             /\ dealReq'[p].op = dealReq[p].op /\ InHand(dealReq'[p]) = InHand(dealReq[p])
             /\ dealReq'[p].op = "ensure" => dealReq'[p].deal = dealReq[p].deal
  <2>1. p # q /\ dealReq[p] # NoDeal
    BY Zenon, <1>1, <1>6
  <2>2. CASE dealReq[p].op = "write"
    <3>1. dealReq'[p] = Outdate(dealReq[p], Dirty(r))
      BY Zenon, <1>1, <2>1, <2>2
    <3>2. DealWriteOK(deal, pipelines, dealReq[p])
      BY Zenon, <1>3, <2>1, <2>2
    <3>3. /\ DealWriteOK(deal', pipelines, dealReq'[p])
          /\ dealReq'[p].op = "write" /\ InHand(dealReq'[p]) = InHand(dealReq[p])
      <4>1. \A d \in DealIds : /\ d \notin Dirty(r) => deal'[d] = deal[d]
                               /\ deal[d].exists => deal'[d].exists
        BY Zenon, <1>2
      <4> DEFINE o == Outdate(dealReq[p], Dirty(r))
      <4>2. /\ DealWriteOK(deal', pipelines, o)
            /\ o.op = "write" /\ InHand(o) = InHand(dealReq[p])
        BY <3>2, <4>1, DealOutdated
      <4> QED
        BY Zenon, <3>1, <4>2
    <3>4. dealReq'[p].op # "ensure"
      BY Zenon, <3>3
    <3> QED
      BY Zenon, <1>1, <2>1, <2>2, <3>3, <3>4 DEF DealRequestOK
  <2>3. CASE dealReq[p].op # "write"
    <3>1. dealReq'[p] = dealReq[p]
      BY Zenon, <1>1, <2>1, <2>3
    <3>2. dealReq[p].op = "ensure"
      BY Zenon, <1>3, <2>1, <2>3
    <3>3. /\ dealReq[p].deal \in DealIds /\ Unborn(deal[dealReq[p].deal])
          /\ dealReq[p].deal \notin InHand(r)
      BY Zenon, <1>1, <2>1, <3>2, LooksFor
    <3>4. InHand(r) = Dirty(r)
      BY Zenon, <1>1 DEF InHand
    <3>5. deal'[dealReq[p].deal] = deal[dealReq[p].deal]
      BY Zenon, <1>2, <3>3, <3>4
    <3>6. DealRequestOK(deal', pipelines', dealReq[p])
      BY Zenon, <1>3, <2>1, <2>3, <3>3, <3>5 DEF DealInv, DealRequestInv, DealRequestOK, DealWriteOK
    <3> QED
      BY Zenon, <2>1, <3>1, <3>6
  <2> QED
    BY Zenon, <2>2, <2>3
<1>7. DOMAIN dealReq' = DealRequests
  BY Zenon, <1>1
<1>8. \A p, s \in DealRequests :
        p # s /\ dealReq'[p] # NoDeal /\ dealReq'[s] # NoDeal /\ dealReq'[p].op = "ensure"
          => dealReq'[p].deal \notin InHand(dealReq'[s])
  <2> SUFFICES ASSUME NEW p \in DealRequests, NEW s \in DealRequests, p # s, dealReq'[p] # NoDeal,
                      dealReq'[s] # NoDeal, dealReq'[p].op = "ensure"
               PROVE  dealReq'[p].deal \notin InHand(dealReq'[s])
    BY Zenon
  <2>1. /\ dealReq[p] # NoDeal /\ dealReq[p].op = "ensure" /\ dealReq'[p].deal = dealReq[p].deal
        /\ dealReq[s] # NoDeal /\ InHand(dealReq'[s]) = InHand(dealReq[s])
    BY Zenon, <1>6
  <2>2. dealReq[p].deal \notin InHand(dealReq[s])
    BY Zenon, <2>1 DEF DealInv, DealRequestInv
  <2> QED
    BY Zenon, <2>1, <2>2
<1> QED
  BY Zenon, <1>5, <1>6, <1>7, <1>8, DealInvNext

-----------------------------------------------------------------------------

(* DealInv is inductive.                                                    *)
LEMMA DealInit_Inv == DealInit => DealInv
<1> SUFFICES ASSUME DealInit PROVE DealInv
  OBVIOUS
<1> DEFINE row == [exists |-> FALSE, pipeline |-> NoDeal, stage |-> "new", status |-> "open",
                   closed_at |-> FALSE, loss_reason |-> FALSE]
<1>1. deal = [d \in DealIds |-> row]
  BY Zenon DEF DealInit
<1>2. row \in DealRow
  BY Zenon DEF DealRow, Stages, OpenStages, DealStatus
<1>3. Agree(row) /\ Unborn(row)
  BY Zenon DEF Agree, Unborn
<1> HIDE DEF row
<1>4. /\ deal \in [DealIds -> DealRow]
      /\ \A d \in DealIds : deal[d] = row
  BY Zenon, <1>1, <1>2
<1>5. \A d \in DealIds : IF deal[d].exists THEN deal[d].pipeline \in pipelines ELSE Unborn(deal[d])
  BY Zenon, <1>3, <1>4 DEF Unborn
<1>6. DealRowsInv
  BY Zenon, <1>3, <1>4, <1>5 DEF DealRowsInv, DealInit
<1> QED
  BY Zenon, <1>6 DEF DealInv, DealRequestInv, DealInit

(* Every step preserves DealInv.                                            *)
LEMMA DealNext_Inv == DealInv /\ [DealNext]_dealVars => DealInv'
<1> SUFFICES ASSUME DealInv, [DealNext]_dealVars PROVE DealInv'
  OBVIOUS
<1>1. ASSUME NEW q \in DealRequests, DealRoutes(q) PROVE DealInv'
  <2>1. PICK d \in DealIds :
          \/ CreateDeal(q, d) \/ UpdateDeal(q, d, "current") \/ reopen(q, d)
          \/ \E to \in Stages, reason \in BOOLEAN : move_stage(q, d, to, reason)
    BY Zenon, <1>1 DEF DealRoutes
  <2>2. deal[d] \in DealRow
    BY Zenon, StoredDeal
  <2>3. ASSUME UpdateDeal(q, d, "current") PROVE DealInv'
    BY Zenon, <2>2, <2>3, EditStep DEF UpdateDeal
  <2>4. ASSUME reopen(q, d) PROVE DealInv'
    <3>1. LET new == Reopened(deal[d]) IN
            new \in DealRow /\ new.exists = deal[d].exists
            /\ new.pipeline = deal[d].pipeline /\ Agree(new)
      BY Zenon, <2>2, DealEdits
    <3> QED
      BY Zenon, <2>4, <3>1, EditStep DEF reopen
  <2>5. ASSUME NEW to \in Stages, NEW reason \in BOOLEAN, move_stage(q, d, to, reason)
        PROVE  DealInv'
    <3>1. LET new == Moved(deal[d], to) IN
            new \in DealRow /\ new.exists = deal[d].exists
            /\ new.pipeline = deal[d].pipeline /\ Agree(new)
      BY Zenon, <2>2, DealEdits
    <3> QED
      BY Zenon, <2>5, <3>1, EditStep DEF move_stage
  <2> QED
    BY Zenon, <2>1, <2>3, <2>4, <2>5, CreateDealStep
<1>2. ASSUME UNCHANGED dealVars PROVE DealInv'
  <2>1. deal' = deal /\ dealReq' = dealReq /\ dealTaint' = dealTaint /\ pipelines' = pipelines
    BY Zenon, <1>2 DEF dealVars
  <2> QED
    BY Zenon, <2>1, DealRowsSame, DealInvNext DEF DealInv, DealRequestInv
<1> QED
  BY Zenon, <1>1, <1>2, ensure_pipelineStep, RereadStep, CommitDealStep DEF DealNext

(* DealInv holds throughout.                                                *)
THEOREM DealsInvariant == DealSpec => []DealInv
<1> QED
  BY DealInit_Inv, DealNext_Inv, PTL DEF DealSpec

(* However many requests create the first deal of a tenant at once, there   *)
(* is one default pipeline and every deal that was inserted is in it: the   *)
(* partial unique index and the read after the conflict are enough          *)
(* (ensure_pipeline).                                                       *)
THEOREM OnePipeline == DealSpec => []OneDefaultPipeline
<1>1. DealInv => OneDefaultPipeline
  <2> SUFFICES ASSUME DealInv PROVE OneDefaultPipeline
    OBVIOUS
  <2>1. Cardinality(pipelines) <= 1
    <3>1. CASE pipelines = {}
      BY <3>1, FS_EmptySet
    <3>2. CASE pipelines # {}
      <4>1. PICK p \in pipelines : TRUE
        BY Zenon, <3>2
      <4>2. pipelines = {p}
        BY Zenon DEF DealInv, DealRowsInv
      <4>3. Cardinality({p}) = 1
        BY Zenon, FS_Singleton
      <4> QED
        BY <4>2, <4>3
    <3> QED
      BY Zenon, <3>1, <3>2
  <2> QED
    BY Zenon, <2>1, StoredDeal DEF OneDefaultPipeline
<1> QED
  BY <1>1, DealsInvariant, PTL

(* The status, stage, closing time and loss reason of a deal agree, unless  *)
(* a request wrote it from an outdated load: move_deal and reopen set the   *)
(* four columns together, and the flush writes the ones that changed.       *)
THEOREM DealsConsistent == DealSpec => []DealIsConsistent
<1>1. DealInv => DealIsConsistent
  BY Zenon DEF DealInv, DealRowsInv, DealIsConsistent, Agree
<1> QED
  BY <1>1, DealsInvariant, PTL

-----------------------------------------------------------------------------
(* ProviderCalls.                                                           *)

(* A call in flight.                                                        *)
Routes == ROUTES \cup {<<p>> : p \in Adapters}

CallOK(r) ==
  /\ r \in [kind : {"ai", "adapter"}, route : Routes, pos : Nat,
            step : {"routing", "calling", "recording"}, trial : BOOLEAN]
  /\ r.pos \in 1..(Len(r.route) + 1)
  /\ r.step # "calling" => r.kind = "ai"
  /\ r.step = "calling" => r.route[r.pos] \in Configured

(* The calls that a provider has let through as trials.                     *)
Trials(calls, p) ==
  {c \in Callers : /\ calls[c] # NoCall /\ calls[c].step = "calling" /\ calls[c].trial
                   /\ calls[c].route[calls[c].pos] = p}

(* While the breaker is half open its trials are those let through since    *)
(* the last success and, at most, a full round for each success before.     *)
TrialsOK(b, T) ==
  /\ b.state = "half_open" => Cardinality(T) <= b.trials + half_open_max_trials * b.successes
  /\ b.state # "half_open" => T = {}

BreakersOK(b, calls) ==
  /\ b \in [Configured -> CircuitBreaker]
  /\ DOMAIN calls = Callers
  /\ \A c \in Callers : calls[c] # NoCall => CallOK(calls[c])
  /\ \A p \in Configured : TrialsOK(b[p], Trials(calls, p))

(* The calls that may still be charged, and the room they leave.            *)
Charged(calls) == {c \in Callers : calls[c] # NoCall /\ calls[c].kind = "ai"}

RoomLeft(calls, tokens, unseen) ==
  tokens + Cardinality(Charged(calls)) <= Budget - 1 + Cardinality(Callers) + unseen

CallsInv ==
  /\ BreakersOK(breaker, call)
  /\ used \in Nat /\ blind \in 0..MaxBlind
  /\ RoomLeft(call, used, blind)

-----------------------------------------------------------------------------
(* A route has a length.                                                    *)
LEMMA RoutesAreLists == \A r \in Routes : Len(r) \in Nat
  BY DEF Routes, ROUTES, Adapters

(* Sets of calls are finite, and a smaller one has fewer.                   *)
LEMMA CallsFinite ==
  ASSUME NEW S \in SUBSET Callers
  PROVE  IsFiniteSet(S) /\ Cardinality(S) \in Nat /\ Cardinality(S) <= Cardinality(Callers)
  BY Zenon, FS_Subset, FS_CardinalityType, PolicyAssumption

(* A smaller set of calls has no more of them.                              *)
LEMMA FewerCalls ==
  ASSUME NEW S \in SUBSET Callers, NEW T \in SUBSET S
  PROVE  Cardinality(T) <= Cardinality(S)
<1>1. IsFiniteSet(S)
  BY Zenon, CallsFinite
<1> QED
  BY Zenon, <1>1, FS_Subset

(* With one call more there is at most one more.                            *)
LEMMA OneMoreCall ==
  ASSUME NEW S \in SUBSET Callers, NEW c \in Callers, NEW T \in SUBSET (S \cup {c})
  PROVE  Cardinality(T) <= Cardinality(S) + 1
<1>1. IsFiniteSet(S)
  BY Zenon, CallsFinite
<1>2. Cardinality(S \cup {c}) <= Cardinality(S) + 1 /\ IsFiniteSet(S \cup {c})
  <2>1. Cardinality(S) \in Nat
    BY Zenon, CallsFinite
  <2>2. /\ IsFiniteSet(S \cup {c})
        /\ \/ Cardinality(S \cup {c}) = Cardinality(S)
           \/ Cardinality(S \cup {c}) = Cardinality(S) + 1
    BY Zenon, <1>1, FS_AddElement
  <2> QED
    BY <2>1, <2>2
<1>3. Cardinality(T) <= Cardinality(S \cup {c})
  BY Zenon, <1>2, FS_Subset
<1>4. Cardinality(S) \in Nat /\ Cardinality(T) \in Nat /\ Cardinality(S \cup {c}) \in Nat
  <2>1. T \in SUBSET Callers /\ S \cup {c} \in SUBSET Callers
    OBVIOUS
  <2> QED
    BY Zenon, <2>1, CallsFinite
<1> QED
  BY <1>2, <1>3, <1>4

(* A smaller set of trials is as good.                                      *)
LEMMA FewerTrials ==
  ASSUME NEW b \in CircuitBreaker, NEW S \in SUBSET Callers, TrialsOK(b, S), NEW T \in SUBSET S
  PROVE  TrialsOK(b, T)
<1>1. Cardinality(T) <= Cardinality(S)
  BY Zenon, FewerCalls
<1>2. Cardinality(S) \in Nat /\ Cardinality(T) \in Nat
  <2>1. T \in SUBSET Callers
    OBVIOUS
  <2> QED
    BY Zenon, <2>1, CallsFinite
<1>3. b.trials \in Nat /\ half_open_max_trials * b.successes \in Nat
  BY PolicyAssumption DEF CircuitBreaker
<1>4. CASE b.state = "half_open"
  BY <1>1, <1>2, <1>3, <1>4 DEF TrialsOK
<1>5. CASE b.state # "half_open"
  BY Zenon, <1>5 DEF TrialsOK
<1> QED
  BY Zenon, <1>4, <1>5

-----------------------------------------------------------------------------
(* A call ends, or waits for something other than a provider.               *)
LEMMA CallReplaced ==
  ASSUME NEW b, NEW calls, BreakersOK(b, calls), NEW c \in Callers, NEW r,
         r = NoCall \/ (CallOK(r) /\ r.step # "calling")
  PROVE  BreakersOK(b, [calls EXCEPT ![c] = r])
<1> DEFINE next == [calls EXCEPT ![c] = r]
<1>1. DOMAIN next = Callers /\ next[c] = r /\ \A o \in Callers \ {c} : next[o] = calls[o]
  BY Zenon DEF BreakersOK
<1> HIDE DEF next
<1>2. \A o \in Callers : next[o] # NoCall => CallOK(next[o])
  BY Zenon, <1>1 DEF BreakersOK
<1>3. ASSUME NEW p \in Configured PROVE TrialsOK(b[p], Trials(next, p))
  <2>1. Trials(next, p) \in SUBSET Trials(calls, p) /\ Trials(calls, p) \in SUBSET Callers
    BY Zenon, <1>1 DEF Trials
  <2>2. b[p] \in CircuitBreaker /\ TrialsOK(b[p], Trials(calls, p))
    BY Zenon, <1>3 DEF BreakersOK
  <2> QED
    BY Zenon, <2>1, <2>2, FewerTrials
<1>4. BreakersOK(b, next)
  BY Zenon, <1>1, <1>2, <1>3 DEF BreakersOK
<1> QED
  BY Zenon, <1>4 DEF next

(* allow() counts the trial it lets through.                                *)
LEMMA AllowCounts ==
  ASSUME NEW b \in CircuitBreaker, b.state = "half_open" => b.trials < half_open_max_trials,
         NEW S \in SUBSET Callers, TrialsOK(b, S), NEW c \in Callers,
         NEW T \in SUBSET (S \cup {c}), b.state = "closed" => T \in SUBSET S
  PROVE  allow(b) \in CircuitBreaker /\ TrialsOK(allow(b), T)
<1>1. /\ b.state \in {"closed", "open", "half_open"} /\ b.failures \in 0..(failure_threshold - 1)
      /\ b.successes \in 0..(half_open_successes - 1) /\ b.trials \in 0..half_open_max_trials
  BY Zenon DEF CircuitBreaker
<1>2. half_open_max_trials \in Nat \ {0} /\ half_open_successes \in Nat \ {0}
  BY Zenon, PolicyAssumption
<1>3. /\ Cardinality(S) \in Nat /\ Cardinality(T) \in Nat /\ Cardinality(T) <= Cardinality(S) + 1
  <2>1. T \in SUBSET Callers
    BY Zenon
  <2> QED
    BY Zenon, <2>1, CallsFinite, OneMoreCall
<1>4. CASE b.state = "closed"
  <2>1. allow(b) = b
    BY Zenon, <1>4 DEF allow
  <2> QED
    BY Zenon, <1>4, <2>1, FewerTrials
<1>5. CASE b.state = "open"
  <2>1. allow(b) = [b EXCEPT !.state = "half_open", !.successes = 0, !.trials = 1]
    BY Zenon, <1>5 DEF allow
  <2>2. allow(b) \in CircuitBreaker
    <3>1. 0 \in 0..(half_open_successes - 1) /\ 1 \in 0..half_open_max_trials
      BY <1>2
    <3> QED
      BY Zenon, <2>1, <3>1 DEF CircuitBreaker
  <2>3. allow(b).state = "half_open" /\ allow(b).successes = 0 /\ allow(b).trials = 1
    BY Zenon, <1>1, <2>1 DEF CircuitBreaker
  <2>4. S = {}
    BY Zenon, <1>5 DEF TrialsOK
  <2>5. Cardinality(S) = 0
    BY Zenon, <2>4, FS_EmptySet
  <2>6. half_open_max_trials * 0 = 0
    BY <1>2
  <2>7. Cardinality(T) <= 1 + half_open_max_trials * 0
    BY <1>3, <2>5, <2>6
  <2> QED
    BY Zenon, <2>2, <2>3, <2>7 DEF TrialsOK
<1>6. CASE b.state = "half_open"
  <2>1. allow(b) = [b EXCEPT !.trials = @ + 1]
    BY Zenon, <1>6 DEF allow
  <2>2. allow(b) \in CircuitBreaker
    BY <1>1, <1>2, <1>6, <2>1 DEF CircuitBreaker
  <2>3. /\ allow(b).state = "half_open" /\ allow(b).successes = b.successes
        /\ allow(b).trials = b.trials + 1
    BY Zenon, <1>1, <1>6, <2>1 DEF CircuitBreaker
  <2>4. Cardinality(S) <= b.trials + half_open_max_trials * b.successes
    BY Zenon, <1>6 DEF TrialsOK
  <2>5. half_open_max_trials * b.successes \in Nat
    BY <1>1, <1>2
  <2>6. Cardinality(T) <= b.trials + 1 + half_open_max_trials * b.successes
    BY <1>1, <1>3, <2>4, <2>5
  <2> QED
    BY Zenon, <2>2, <2>3, <2>6 DEF TrialsOK
<1> QED
  BY Zenon, <1>1, <1>4, <1>5, <1>6

(* The loop over a route, from a position in it.                            *)
LEMMA AdvanceStep ==
  ASSUME NEW b, NEW calls, BreakersOK(b, calls), NEW c \in Callers, NEW route \in Routes,
         NEW i \in Nat \ {0}, NEW how \in {"ai", "adapter"}, Advance(b, calls, c, route, i, how)
  PROVE  /\ BreakersOK(breaker', call')
         /\ Charged(call') \in SUBSET (Charged(calls) \cup {c})
         /\ how = "adapter" => Charged(call') \in SUBSET Charged(calls)
<1>1. CASE /\ breaker' = b
           /\ call' = [calls EXCEPT ![c] = NoCall]
  <2>1. call'[c] = NoCall /\ \A o \in Callers \ {c} : call'[o] = calls[o]
    BY Zenon, <1>1 DEF BreakersOK
  <2>2. Charged(call') \in SUBSET Charged(calls)
    BY Zenon, <2>1 DEF Charged
  <2>3. BreakersOK(b, [calls EXCEPT ![c] = NoCall])
    BY Zenon, CallReplaced
  <2> QED
    BY Zenon, <1>1, <2>2, <2>3
<1>2. ASSUME NEW k \in i..Len(route), MayAdmit(b, route[k]),
             breaker' = [b EXCEPT ![route[k]] = allow(@)],
             call' = [calls EXCEPT ![c] = [kind |-> how, route |-> route, pos |-> k,
                        step |-> "calling", trial |-> b[route[k]].state # "closed"]]
      PROVE  /\ BreakersOK(breaker', call')
             /\ Charged(call') \in SUBSET (Charged(calls) \cup {c})
             /\ how = "adapter" => Charged(call') \in SUBSET Charged(calls)
  <2> DEFINE p == route[k]
             r == [kind |-> how, route |-> route, pos |-> k,
                   step |-> "calling", trial |-> b[p].state # "closed"]
  <2>1. p \in Configured /\ (b[p].state = "half_open" => b[p].trials < half_open_max_trials)
    BY Zenon, <1>2 DEF MayAdmit
  <2>2. k \in 1..(Len(route) + 1) /\ k \in Nat
    BY <1>2, RoutesAreLists
  <2>3. CallOK(r)
    BY Zenon, <2>1, <2>2 DEF CallOK
  <2>4. /\ r.kind = how /\ r.step = "calling" /\ r.route[r.pos] = p
        /\ r.trial = (b[p].state # "closed")
    BY Zenon
  <2>5. /\ DOMAIN call' = Callers /\ call'[c] = r
        /\ \A o \in Callers \ {c} : call'[o] = calls[o]
    BY Zenon, <1>2 DEF BreakersOK
  <2>6. /\ DOMAIN breaker' = Configured /\ breaker'[p] = allow(b[p])
        /\ \A o \in Configured \ {p} : breaker'[o] = b[o]
    BY Zenon, <1>2, <2>1 DEF BreakersOK
  <2> HIDE DEF p, r
  <2>7. \A o \in Callers : call'[o] # NoCall => CallOK(call'[o])
    BY Zenon, <2>3, <2>5 DEF BreakersOK
  <2>8. allow(b[p]) \in CircuitBreaker /\ TrialsOK(allow(b[p]), Trials(call', p))
    <3>1. b[p] \in CircuitBreaker /\ TrialsOK(b[p], Trials(calls, p))
      BY Zenon, <2>1 DEF BreakersOK
    <3>2. /\ Trials(calls, p) \in SUBSET Callers
          /\ Trials(call', p) \in SUBSET (Trials(calls, p) \cup {c})
      BY Zenon, <2>5 DEF Trials
    <3>3. b[p].state = "closed" => Trials(call', p) \in SUBSET Trials(calls, p)
      <4>1. b[p].state = "closed" => ~call'[c].trial
        BY Zenon, <2>4, <2>5
      <4> QED
        BY Zenon, <2>5, <4>1 DEF Trials
    <3> QED
      BY Zenon, <2>1, <3>1, <3>2, <3>3, AllowCounts
  <2>9. ASSUME NEW o \in Configured, o # p
        PROVE  b[o] \in CircuitBreaker /\ TrialsOK(b[o], Trials(call', o))
    <3>1. b[o] \in CircuitBreaker /\ TrialsOK(b[o], Trials(calls, o))
      BY Zenon DEF BreakersOK
    <3>2. Trials(calls, o) \in SUBSET Callers /\ Trials(call', o) \in SUBSET Trials(calls, o)
      <4>1. call'[c].route[call'[c].pos] # o
        BY Zenon, <2>4, <2>5, <2>9
      <4> QED
        BY Zenon, <2>5, <4>1 DEF Trials
    <3> QED
      BY Zenon, <3>1, <3>2, FewerTrials
  <2>10. breaker' \in [Configured -> CircuitBreaker]
    <3>1. breaker' = [o \in Configured |-> breaker'[o]]
      BY Zenon, <1>2, <2>6 DEF BreakersOK
    <3>2. \A o \in Configured : breaker'[o] \in CircuitBreaker
      BY Zenon, <2>6, <2>8, <2>9
    <3> QED
      BY Zenon, <3>1, <3>2
  <2>11. BreakersOK(breaker', call')
    BY Zenon, <2>5, <2>6, <2>7, <2>8, <2>9, <2>10 DEF BreakersOK
  <2>12. /\ Charged(call') \in SUBSET (Charged(calls) \cup {c})
         /\ how = "adapter" => Charged(call') \in SUBSET Charged(calls)
    BY Zenon, <2>4, <2>5 DEF Charged
  <2> QED
    BY Zenon, <2>11, <2>12
<1> QED
  BY Zenon, <1>1, <1>2 DEF Advance

-----------------------------------------------------------------------------
(* What an answer or a failure makes of the breaker and its trials.         *)
LEMMA RecordsCount ==
  ASSUME NEW b \in CircuitBreaker, NEW kept \in 0..b.failures,
         NEW S \in SUBSET Callers, TrialsOK(b, S),
         NEW n, n = record_success(b, kept) \/ n = record_failure(b, kept)
  PROVE  n \in CircuitBreaker /\ (n.state = "half_open" => TrialsOK(n, S))
<1> DEFINE M == half_open_max_trials
<1>1. /\ b.state \in {"closed", "open", "half_open"} /\ b.failures \in 0..(failure_threshold - 1)
      /\ b.successes \in 0..(half_open_successes - 1) /\ b.trials \in 0..M
  BY Zenon DEF CircuitBreaker
<1>2. M \in Nat \ {0} /\ half_open_successes \in Nat \ {0} /\ failure_threshold \in Nat \ {0}
  BY Zenon, PolicyAssumption
<1>3. kept \in 0..(failure_threshold - 1) /\ kept \in Nat
  BY <1>1, <1>2
<1>4. Cardinality(S) \in Nat
  BY Zenon, CallsFinite
<1> DEFINE Fresh(state) == [state |-> state, failures |-> 0, successes |-> 0, trials |-> 0]
<1>5. \A state \in {"closed", "open"} : Fresh(state) \in CircuitBreaker /\ Fresh(state).state = state
  <2>1. 0 \in 0..(half_open_successes - 1) /\ 0 \in 0..M /\ 0 \in 0..(failure_threshold - 1)
    BY <1>2
  <2> QED
    BY Zenon, <2>1 DEF CircuitBreaker
<1>6. CASE n = Fresh("closed") \/ n = Fresh("open")
  BY Zenon, <1>5, <1>6
<1>7. CASE b.state # "half_open" /\ n = [b EXCEPT !.failures = kept]
  <2>1. n \in CircuitBreaker /\ n.state = b.state
    BY Zenon, <1>3, <1>7 DEF CircuitBreaker
  <2> QED
    BY Zenon, <1>7, <2>1
<1>8. CASE /\ b.state # "half_open" /\ kept + 1 < failure_threshold
           /\ n = [b EXCEPT !.failures = kept + 1]
  <2>1. kept + 1 \in 0..(failure_threshold - 1)
    BY <1>2, <1>3, <1>8
  <2>2. n \in CircuitBreaker /\ n.state = b.state
    BY Zenon, <1>8, <2>1 DEF CircuitBreaker
  <2> QED
    BY Zenon, <1>8, <2>2
<1>9. CASE /\ b.state = "half_open" /\ b.successes + 1 < half_open_successes
           /\ n = [b EXCEPT !.successes = @ + 1, !.trials = 0]
  <2>1. b.successes + 1 \in 0..(half_open_successes - 1) /\ 0 \in 0..M
    BY <1>1, <1>2, <1>9
  <2>2. /\ n \in CircuitBreaker /\ n.successes = b.successes + 1 /\ n.trials = 0
    BY Zenon, <1>9, <2>1 DEF CircuitBreaker
  <2>3. Cardinality(S) <= b.trials + M * b.successes
    BY Zenon, <1>9 DEF TrialsOK
  <2>4. M * (b.successes + 1) = M * b.successes + M /\ M * b.successes \in Nat
    BY <1>1, <1>2
  <2>5. Cardinality(S) <= 0 + M * (b.successes + 1)
    BY <1>1, <1>2, <1>4, <2>3, <2>4
  <2>6. n.state = "half_open"
    BY Zenon, <1>9 DEF CircuitBreaker
  <2> QED
    BY Zenon, <2>2, <2>5, <2>6 DEF TrialsOK
<1> QED
  BY <1>2, <1>3, <1>6, <1>7, <1>8, <1>9 DEF record_success, record_failure, _trip

(* A breaker records an answer or a failure of one of its calls.            *)
LEMMA RecordedStep ==
  ASSUME BreakersOK(breaker, call), NEW p \in Configured, NEW kept \in 0..breaker[p].failures,
         NEW n, n = record_success(breaker[p], kept) \/ n = record_failure(breaker[p], kept)
  PROVE  LET b == [breaker EXCEPT ![p] = n] IN
           /\ BreakersOK(b, Settled(b))
           /\ \A c \in Callers :
                call[c] # NoCall =>
                  CallOK(Settled(b)[c]) /\ Settled(b)[c].kind = call[c].kind
           /\ Charged(Settled(b)) \in SUBSET Charged(call)
<1> DEFINE b == [breaker EXCEPT ![p] = n]
           next == Settled(b)
<1>1. /\ breaker \in [Configured -> CircuitBreaker] /\ DOMAIN call = Callers
      /\ \A c \in Callers : call[c] # NoCall => CallOK(call[c])
      /\ \A o \in Configured : TrialsOK(breaker[o], Trials(call, o))
  BY Zenon DEF BreakersOK
<1>2. \A o : Trials(call, o) \in SUBSET Callers
  BY Zenon DEF Trials
<1>3. n \in CircuitBreaker /\ (n.state = "half_open" => TrialsOK(n, Trials(call, p)))
  BY Zenon, <1>1, <1>2, RecordsCount
<1>4. /\ b \in [Configured -> CircuitBreaker] /\ b[p] = n
      /\ \A o \in Configured \ {p} : b[o] = breaker[o]
  BY Zenon, <1>1, <1>3
<1> HIDE DEF b
<1>5. ASSUME NEW c \in Callers, call[c] = NoCall PROVE next[c] = NoCall
  BY Zenon, <1>5 DEF Settled
<1>6. ASSUME NEW c \in Callers, call[c] # NoCall
      PROVE  /\ CallOK(next[c]) /\ next[c].kind = call[c].kind /\ next[c].step = call[c].step
             /\ next[c].route = call[c].route /\ next[c].pos = call[c].pos
             /\ next[c].trial => call[c].trial
             /\ next[c].step = "calling" /\ next[c].trial => b[Provider(c)].state = "half_open"
  <2>1. CASE call[c].step = "calling" /\ b[Provider(c)].state # "half_open"
    <3>1. next[c] = [call[c] EXCEPT !.trial = FALSE]
      BY Zenon, <1>6, <2>1 DEF Settled
    <3>2. CallOK(call[c])
      BY Zenon, <1>1, <1>6
    <3>3. /\ next[c].kind = call[c].kind /\ next[c].step = call[c].step
          /\ next[c].route = call[c].route /\ next[c].pos = call[c].pos /\ next[c].trial = FALSE
          /\ next[c] \in [kind : {"ai", "adapter"}, route : Routes, pos : Nat,
                          step : {"routing", "calling", "recording"}, trial : BOOLEAN]
      BY Zenon, <3>1, <3>2 DEF CallOK
    <3> QED
      BY Zenon, <3>2, <3>3 DEF CallOK
  <2>2. CASE ~(call[c].step = "calling" /\ b[Provider(c)].state # "half_open")
    <3>1. next[c] = call[c]
      BY Zenon, <1>6, <2>2 DEF Settled
    <3> QED
      BY Zenon, <1>1, <1>6, <2>2, <3>1
  <2> QED
    BY Zenon, <2>1, <2>2
<1>7. DOMAIN next = Callers
  BY Zenon DEF Settled
<1> HIDE DEF next
<1>8. ASSUME NEW o \in Configured PROVE TrialsOK(b[o], Trials(next, o))
  <2>1. Trials(next, o) \in SUBSET Trials(call, o)
    <3> SUFFICES ASSUME NEW c \in Trials(next, o) PROVE c \in Trials(call, o)
      BY Zenon
    <3>1. /\ c \in Callers /\ next[c] # NoCall /\ next[c].step = "calling" /\ next[c].trial
          /\ next[c].route[next[c].pos] = o
      BY Zenon DEF Trials
    <3>2. call[c] # NoCall
      BY Zenon, <1>5, <3>1
    <3>3. call[c].step = "calling" /\ call[c].trial /\ call[c].route[call[c].pos] = o
      BY Zenon, <1>6, <3>1, <3>2
    <3> QED
      BY Zenon, <3>1, <3>2, <3>3 DEF Trials
  <2>2. CASE b[o].state # "half_open"
    <3>1. ASSUME NEW c \in Trials(next, o) PROVE FALSE
      <4>1. /\ c \in Callers /\ next[c] # NoCall /\ next[c].step = "calling" /\ next[c].trial
            /\ next[c].route[next[c].pos] = o
        BY Zenon, <3>1 DEF Trials
      <4>2. call[c] # NoCall
        BY Zenon, <1>5, <4>1
      <4>3. Provider(c) = o
        BY Zenon, <1>6, <4>1, <4>2 DEF Provider
      <4>4. b[Provider(c)].state = "half_open"
        BY Zenon, <1>6, <4>1, <4>2
      <4> QED
        BY Zenon, <2>2, <4>3, <4>4
    <3> QED
      BY Zenon, <2>2, <3>1 DEF TrialsOK
  <2>3. CASE b[o].state = "half_open"
    <3>1. TrialsOK(b[o], Trials(call, o)) /\ b[o] \in CircuitBreaker
      BY Zenon, <1>1, <1>3, <1>4, <2>3
    <3> QED
      BY Zenon, <1>2, <2>1, <3>1, FewerTrials
  <2> QED
    BY Zenon, <2>2, <2>3
<1>9. BreakersOK(b, next)
  BY Zenon, <1>4, <1>5, <1>6, <1>7, <1>8 DEF BreakersOK
<1>10. Charged(next) \in SUBSET Charged(call)
  BY Zenon, <1>5, <1>6 DEF Charged
<1>11. \A c \in Callers :
         call[c] # NoCall => CallOK(next[c]) /\ next[c].kind = call[c].kind
  BY Zenon, <1>6
<1> QED
  BY Zenon, <1>9, <1>10, <1>11 DEF b, next

-----------------------------------------------------------------------------
(* The room left in the budget after a step that charges no call more.      *)
LEMMA RoomStays ==
  ASSUME CallsInv, NEW calls, Charged(calls) \in SUBSET Charged(call)
  PROVE  RoomLeft(calls, used, blind)
<1>1. Charged(call) \in SUBSET Callers /\ Charged(calls) \in SUBSET Callers
  BY Zenon DEF Charged
<1>2. /\ Cardinality(Charged(calls)) <= Cardinality(Charged(call))
      /\ Cardinality(Charged(calls)) \in Nat /\ Cardinality(Charged(call)) \in Nat
      /\ Cardinality(Callers) \in Nat
  BY Zenon, <1>1, FewerCalls, CallsFinite, FS_CardinalityType, PolicyAssumption
<1> QED
  BY <1>2, PolicyAssumption DEF CallsInv, RoomLeft

(* Closed breakers and no calls.                                            *)
LEMMA CallsInit_Inv == CallsInit => CallsInv
<1> SUFFICES ASSUME CallsInit PROVE CallsInv
  OBVIOUS
<1> DEFINE closed == [state |-> "closed", failures |-> 0, successes |-> 0, trials |-> 0]
<1>1. closed \in CircuitBreaker /\ closed.state = "closed"
  BY PolicyAssumption DEF CircuitBreaker
<1>2. /\ breaker = [p \in Configured |-> closed] /\ call = [c \in Callers |-> NoCall]
      /\ used = 0 /\ blind = 0
  BY Zenon DEF CallsInit
<1> HIDE DEF closed
<1>3. Charged(call) = {} /\ \A p : Trials(call, p) = {}
  BY Zenon, <1>2 DEF Charged, Trials
<1>4. BreakersOK(breaker, call)
  <2>1. breaker \in [Configured -> CircuitBreaker]
    BY Zenon, <1>1, <1>2
  <2>2. \A p \in Configured : breaker[p].state # "half_open" /\ Trials(call, p) = {}
    BY Zenon, <1>1, <1>2, <1>3
  <2>3. DOMAIN call = Callers /\ \A c \in Callers : call[c] = NoCall
    BY Zenon, <1>2
  <2> QED
    BY Zenon, <2>1, <2>2, <2>3 DEF BreakersOK, TrialsOK
<1>5. Cardinality(Charged(call)) = 0 /\ Cardinality(Callers) \in Nat
  BY Zenon, <1>3, FS_EmptySet, FS_CardinalityType, PolicyAssumption
<1> QED
  BY <1>2, <1>4, <1>5, PolicyAssumption DEF CallsInv, RoomLeft

(* The budget check: whoever it sees within the budget leaves room for all  *)
(* calls in flight, whoever it does not see is counted.                     *)
LEMMA CompleteStep ==
  ASSUME CallsInv, NEW c \in Callers, NEW route \in ROUTES, NEW sees \in BOOLEAN,
         complete(c, route, sees)
  PROVE  CallsInv'
<1> DEFINE r == [kind |-> "ai", route |-> route, pos |-> 1, step |-> "routing", trial |-> FALSE]
<1>1. /\ sees => used < Budget
      /\ blind' = (IF sees THEN blind ELSE blind + 1) /\ blind' <= MaxBlind
      /\ call' = [call EXCEPT ![c] = r] /\ breaker' = breaker /\ used' = used
  BY Zenon DEF complete, within_budget
<1>2. CallOK(r) /\ r.step # "calling"
  <2>1. route \in Routes /\ Len(route) \in Nat
    BY Zenon, RoutesAreLists DEF Routes
  <2>2. 1 \in 1..(Len(route) + 1)
    BY <2>1
  <2> QED
    BY Zenon, <2>1, <2>2 DEF CallOK
<1> HIDE DEF r
<1>3. BreakersOK(breaker, [call EXCEPT ![c] = r])
  BY Zenon, <1>2, CallReplaced DEF CallsInv
<1>4. \A o \in Callers \ {c} : call'[o] = call[o]
  BY Zenon, <1>1 DEF CallsInv, BreakersOK
<1>5. /\ Charged(call) \in SUBSET Callers /\ Charged(call') \in SUBSET Callers
      /\ Charged(call') \in SUBSET (Charged(call) \cup {c})
  BY Zenon, <1>4 DEF Charged
<1>6. /\ Cardinality(Charged(call')) <= Cardinality(Charged(call)) + 1
      /\ Cardinality(Charged(call')) <= Cardinality(Callers)
      /\ Cardinality(Charged(call')) \in Nat /\ Cardinality(Charged(call)) \in Nat
      /\ Cardinality(Callers) \in Nat
  BY Zenon, <1>5, OneMoreCall, CallsFinite, FS_CardinalityType, PolicyAssumption
<1>7. used \in Nat /\ blind \in 0..MaxBlind /\ Budget \in Nat /\ MaxBlind \in Nat
  BY Zenon, PolicyAssumption DEF CallsInv
<1>8. blind' \in 0..MaxBlind
  BY <1>1, <1>7
<1>9. RoomLeft(call', used', blind')
  <2>1. CASE sees
    BY <1>1, <1>6, <1>7, <2>1 DEF RoomLeft
  <2>2. CASE ~sees
    BY <1>1, <1>6, <1>7, <2>2 DEF CallsInv, RoomLeft
  <2> QED
    BY Zenon, <2>1, <2>2
<1> QED
  BY Zenon, <1>1, <1>3, <1>7, <1>8, <1>9 DEF CallsInv

(* Steps that only move calls and breakers.                                 *)
LEMMA MovedStep ==
  ASSUME CallsInv, BreakersOK(breaker', call'), UNCHANGED <<used, blind>>,
         Charged(call') \in SUBSET Charged(call)
  PROVE  CallsInv'
<1>1. RoomLeft(call', used, blind)
  BY Zenon, RoomStays
<1> QED
  BY Zenon, <1>1 DEF CallsInv

(* A call is let through to the first provider that admits it, or refused   *)
(* by all.                                                                  *)
LEMMA FirstStep ==
  ASSUME CallsInv, NEW c \in Callers,
         FirstProvider(c) \/ send_message(c) \/ create_order(c)
  PROVE  CallsInv'
<1>1. CASE FirstProvider(c)
  <2>1. CallOK(call[c]) /\ call[c] # NoCall /\ call[c].step # "calling"
    BY Zenon, <1>1 DEF FirstProvider, CallsInv, BreakersOK
  <2>2. call[c].route \in Routes /\ call[c].kind = "ai"
    BY Zenon, <2>1 DEF CallOK
  <2>3. /\ BreakersOK(breaker', call')
        /\ Charged(call') \in SUBSET (Charged(call) \cup {c})
    <3>1. PICK route \in Routes : Advance(breaker, call, c, route, 1, "ai")
      BY Zenon, <1>1, <2>2 DEF FirstProvider
    <3>2. 1 \in Nat \ {0}
      OBVIOUS
    <3> QED
      BY Zenon, <3>1, <3>2, AdvanceStep DEF CallsInv
  <2>4. c \in Charged(call)
    BY Zenon, <2>1, <2>2 DEF Charged
  <2> QED
    BY Zenon, <1>1, <2>3, <2>4, MovedStep DEF FirstProvider
<1>2. CASE send_message(c) \/ create_order(c)
  <2>1. PICK route \in Routes : Advance(breaker, call, c, route, 1, "adapter")
    BY Zenon, <1>2 DEF send_message, create_order, Routes, Adapters
  <2>2. 1 \in Nat \ {0}
    OBVIOUS
  <2>3. BreakersOK(breaker', call') /\ Charged(call') \in SUBSET Charged(call)
    BY Zenon, <2>1, <2>2, AdvanceStep DEF CallsInv
  <2> QED
    BY Zenon, <1>2, <2>3, MovedStep DEF send_message, create_order
<1> QED
  BY Zenon, <1>1, <1>2

(* A provider answers, raises, or is given up.                              *)
LEMMA AnsweredStep ==
  ASSUME CallsInv, NEW c \in Callers, Answered(c)
  PROVE  CallsInv'
<1>1. Calling(c) /\ CallOK(call[c]) /\ Provider(c) \in Configured
  BY Zenon DEF Answered, Calling, Provider, CallsInv, BreakersOK, CallOK
<1>2. PICK p \in Configured : p = Provider(c)
  BY Zenon, <1>1
<1>3. PICK kept \in 0..breaker[p].failures :
        LET b == [breaker EXCEPT ![p] = record_success(breaker[p], kept)]
        IN  /\ breaker' = b
            /\ call' = [Settled(b) EXCEPT ![c] =
                          IF Settled(b)[c].kind = "adapter" THEN NoCall
                          ELSE [Settled(b)[c] EXCEPT !.step = "recording"]]
            /\ UNCHANGED <<used, blind>>
  BY Zenon, <1>2 DEF Answered
<1> DEFINE b == [breaker EXCEPT ![p] = record_success(breaker[p], kept)]
           s == Settled(b)[c]
           r == IF s.kind = "adapter" THEN NoCall ELSE [s EXCEPT !.step = "recording"]
<1>4. /\ BreakersOK(b, Settled(b)) /\ Charged(Settled(b)) \in SUBSET Charged(call)
      /\ CallOK(s) /\ s.kind = call[c].kind
  BY Zenon, <1>1, RecordedStep DEF CallsInv, Calling
<1>5. breaker' = b /\ call' = [Settled(b) EXCEPT ![c] = r] /\ UNCHANGED <<used, blind>>
  BY Zenon, <1>3
<1> HIDE DEF b
<1>6. r = NoCall \/ (CallOK(r) /\ r.step # "calling")
  BY Zenon, <1>4 DEF CallOK
<1> HIDE DEF s, r
<1>7. BreakersOK(b, [Settled(b) EXCEPT ![c] = r])
  BY Zenon, <1>4, <1>6, CallReplaced
<1>8. Charged(call') \in SUBSET Charged(call)
  <2>1. \A o \in Callers \ {c} : call'[o] = Settled(b)[o]
    BY Zenon, <1>4, <1>5 DEF BreakersOK
  <2>2. call'[c] = r
    BY Zenon, <1>4, <1>5 DEF BreakersOK
  <2>3. r # NoCall => call[c] # NoCall /\ call[c].kind = "ai"
    BY Zenon, <1>1, <1>4 DEF r, CallOK, Calling
  <2> QED
    BY Zenon, <1>4, <2>1, <2>2, <2>3 DEF Charged
<1> QED
  BY Zenon, <1>5, <1>7, <1>8, MovedStep

(* A call fails: the gateway goes on along the route, an adapter gives up.  *)
LEMMA FailedStep ==
  ASSUME CallsInv, NEW c \in Callers, Failed(c)
  PROVE  CallsInv'
<1>1. Calling(c) /\ CallOK(call[c]) /\ Provider(c) \in Configured
  BY Zenon DEF Failed, Calling, Provider, CallsInv, BreakersOK, CallOK
<1>2. PICK p \in Configured : p = Provider(c)
  BY Zenon, <1>1
<1>3. PICK kept \in 0..breaker[p].failures :
        LET b == [breaker EXCEPT ![p] = record_failure(breaker[p], kept)]
        IN  IF call[c].kind = "adapter"
              THEN breaker' = b /\ call' = [Settled(b) EXCEPT ![c] = NoCall]
              ELSE Advance(b, Settled(b), c, call[c].route, call[c].pos + 1, "ai")
  BY Zenon, <1>2 DEF Failed
<1> DEFINE b == [breaker EXCEPT ![p] = record_failure(breaker[p], kept)]
<1>4. BreakersOK(b, Settled(b)) /\ Charged(Settled(b)) \in SUBSET Charged(call)
  BY Zenon, RecordedStep DEF CallsInv
<1>5. IF call[c].kind = "adapter"
        THEN breaker' = b /\ call' = [Settled(b) EXCEPT ![c] = NoCall]
        ELSE Advance(b, Settled(b), c, call[c].route, call[c].pos + 1, "ai")
  BY Zenon, <1>3
<1> HIDE DEF b
<1>6. CASE call[c].kind = "adapter"
  <2>1. breaker' = b /\ call' = [Settled(b) EXCEPT ![c] = NoCall]
    BY Zenon, <1>5, <1>6
  <2>2. BreakersOK(b, [Settled(b) EXCEPT ![c] = NoCall])
    BY Zenon, <1>4, CallReplaced
  <2>3. call'[c] = NoCall /\ \A o \in Callers \ {c} : call'[o] = Settled(b)[o]
    BY Zenon, <1>4, <2>1 DEF BreakersOK
  <2>4. Charged(call') \in SUBSET Charged(call)
    BY Zenon, <1>4, <2>3 DEF Charged
  <2> QED
    BY Zenon, <2>1, <2>2, <2>4, MovedStep DEF Failed
<1>7. CASE call[c].kind # "adapter"
  <2>1. call[c].kind = "ai" /\ call[c].route \in Routes /\ call[c].pos + 1 \in Nat \ {0}
    BY <1>1, <1>7 DEF CallOK
  <2>2. PICK route \in Routes, i \in Nat \ {0} : Advance(b, Settled(b), c, route, i, "ai")
    BY Zenon, <1>5, <1>7, <2>1
  <2>3. BreakersOK(breaker', call') /\ Charged(call') \in SUBSET (Charged(Settled(b)) \cup {c})
    BY Zenon, <1>4, <2>2, AdvanceStep
  <2>4. c \in Charged(call)
    BY Zenon, <1>1, <2>1 DEF Charged, Calling
  <2>5. Charged(call') \in SUBSET Charged(call)
    BY Zenon, <1>4, <2>3, <2>4
  <2> QED
    BY Zenon, <2>3, <2>5, MovedStep DEF Failed
<1> QED
  BY Zenon, <1>6, <1>7

(* A call ends without the breaker being told; the tokens of an answer may  *)
(* be recorded.                                                             *)
LEMMA EndedStep ==
  ASSUME CallsInv, NEW c \in Callers, Abandoned(c) \/ record_usage(c)
  PROVE  CallsInv'
<1>1. /\ call' = [call EXCEPT ![c] = NoCall] /\ breaker' = breaker /\ blind' = blind
      /\ call[c] # NoCall
  BY Zenon DEF Abandoned, record_usage, Calling
<1>2. BreakersOK(breaker, [call EXCEPT ![c] = NoCall])
  BY Zenon, CallReplaced DEF CallsInv
<1>3. call'[c] = NoCall /\ \A o \in Callers \ {c} : call'[o] = call[o]
  BY Zenon, <1>1 DEF CallsInv, BreakersOK
<1>4. Charged(call') \in SUBSET Charged(call)
  BY Zenon, <1>3 DEF Charged
<1>5. CASE used' = used
  BY Zenon, <1>1, <1>2, <1>4, <1>5, MovedStep
<1>6. CASE used' # used
  <2>1. used' = used + 1 /\ call[c].step = "recording"
    BY Zenon, <1>6 DEF Abandoned, record_usage
  <2>2. call[c].kind = "ai"
    BY Zenon, <1>1, <2>1 DEF CallsInv, BreakersOK, CallOK
  <2>3. c \in Charged(call) /\ Charged(call') = Charged(call) \ {c}
    BY Zenon, <1>1, <1>3, <2>2 DEF Charged
  <2>4. Charged(call) \in SUBSET Callers
    BY Zenon DEF Charged
  <2>5. Cardinality(Charged(call')) = Cardinality(Charged(call)) - 1
    <3>1. IsFiniteSet(Charged(call))
      BY Zenon, <2>4, CallsFinite
    <3>2. Cardinality(Charged(call) \ {c}) = Cardinality(Charged(call)) - 1
      BY Zenon, <2>3, <3>1, FS_RemoveElement
    <3> QED
      BY Zenon, <2>3, <3>2
  <2>6. Cardinality(Charged(call)) \in Nat /\ Cardinality(Callers) \in Nat
    BY Zenon, <2>4, CallsFinite, FS_CardinalityType, PolicyAssumption
  <2>7. used \in Nat /\ blind \in 0..MaxBlind /\ Budget \in Nat /\ MaxBlind \in Nat
    BY Zenon, PolicyAssumption DEF CallsInv
  <2>8. RoomLeft(call', used', blind') /\ used' \in Nat
    BY <1>1, <2>1, <2>5, <2>6, <2>7 DEF CallsInv, RoomLeft
  <2> QED
    BY Zenon, <1>1, <1>2, <2>7, <2>8 DEF CallsInv
<1> QED
  BY Zenon, <1>5, <1>6

(* Every step keeps CallsInv.                                               *)
LEMMA CallsNext_Inv == CallsInv /\ [CallsNext]_callVars => CallsInv'
<1> SUFFICES ASSUME CallsInv, [CallsNext]_callVars PROVE CallsInv'
  OBVIOUS
<1>1. CASE UNCHANGED callVars
  <2>1. breaker' = breaker /\ call' = call /\ used' = used /\ blind' = blind
    BY Zenon, <1>1 DEF callVars
  <2> QED
    BY Zenon, <2>1 DEF CallsInv
<1>2. CASE CallsNext
  BY Zenon, <1>2, CompleteStep, FirstStep, AnsweredStep, FailedStep, EndedStep DEF CallsNext
<1> QED
  BY Zenon, <1>1, <1>2

(* CallsInv holds throughout.                                               *)
THEOREM CallsInvariant == CallsSpec => []CallsInv
<1> QED
  BY CallsInit_Inv, CallsNext_Inv, PTL DEF CallsSpec

(* With any number of callers, any thresholds and any budget: a provider    *)
(* tried again after an outage has no more trials under way than            *)
(* half_open_max_trials for each success and one round more, and the token  *)
(* budget is overrun by no more than the calls that passed its check        *)
(* together and those let through unchecked.                                *)
THEOREM CallsLimited == CallsSpec => []CallsAreLimited
<1>1. CallsInv => CallsAreLimited
  <2> SUFFICES ASSUME CallsInv PROVE CallsAreLimited
    OBVIOUS
  <2>1. ASSUME NEW p \in Configured, breaker[p].state = "half_open"
        PROVE  Cardinality({c \in Callers : Calling(c) /\ call[c].trial /\ Provider(c) = p})
                 <= half_open_max_trials * (breaker[p].successes + 1)
    <3> DEFINE T == {c \in Callers : Calling(c) /\ call[c].trial /\ Provider(c) = p}
    <3>1. T = Trials(call, p)
      BY Zenon DEF Trials, Calling, Provider
    <3> HIDE DEF T
    <3>2. Cardinality(T) <= breaker[p].trials + half_open_max_trials * breaker[p].successes
      BY Zenon, <2>1, <3>1 DEF CallsInv, BreakersOK, TrialsOK
    <3>3. T \in SUBSET Callers /\ breaker[p] \in CircuitBreaker
      BY Zenon, <3>1 DEF Trials, CallsInv, BreakersOK
    <3>4. Cardinality(T) \in Nat
      BY Zenon, <3>3, CallsFinite
    <3>5. /\ breaker[p].trials \in 0..half_open_max_trials
          /\ breaker[p].successes \in Nat /\ half_open_max_trials \in Nat
      BY <3>3, PolicyAssumption DEF CircuitBreaker
    <3>6. /\ half_open_max_trials * (breaker[p].successes + 1)
               = half_open_max_trials * breaker[p].successes + half_open_max_trials
          /\ half_open_max_trials * breaker[p].successes \in Nat
      BY <3>5
    <3>7. Cardinality(T) <= half_open_max_trials * (breaker[p].successes + 1)
      BY <3>2, <3>4, <3>5, <3>6
    <3> QED
      BY Zenon, <3>7 DEF T
  <2>2. used <= Budget - 1 + Cardinality(Callers) + blind
    <3>1. Charged(call) \in SUBSET Callers
      BY Zenon DEF Charged
    <3>2. Cardinality(Charged(call)) \in Nat /\ Cardinality(Callers) \in Nat
      BY Zenon, <3>1, CallsFinite, FS_CardinalityType, PolicyAssumption
    <3> QED
      BY <3>2, PolicyAssumption DEF CallsInv, RoomLeft
  <2> QED
    BY Zenon, <2>1, <2>2 DEF CallsAreLimited, TrialsAreFew, BudgetOverrunIsBounded
<1> QED
  BY <1>1, CallsInvariant, PTL
=============================================================================
