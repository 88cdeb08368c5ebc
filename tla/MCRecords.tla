----------------------------- MODULE MCRecords -----------------------------
(***************************************************************************)
(* The records a tenant keeps, side by side.  Their modules share no       *)
(* table: a behaviour runs the requests of one of them, named by `part`,   *)
(* and leaves the others at rest.  Two requests are in flight at a time,   *)
(* over two rows of the kinds whose rows refer to one another.             *)
(***************************************************************************)
EXTENDS PaymentInbound, LeadLifecycle, Forms, LeadIntake, AssignmentRules,
        LeadScoring, Deals, CrmTables, Appointments, Files, TLC

CONSTANTS p1, authorized, captured, failed, refunded, other, unknown, h1, h2,
          l1, l2, q1, q2, f1, f2, s1, s2, k1, k2, u1, u2

MCPayments == {p1}
MCEvents == {authorized, captured, failed, refunded, other, unknown}
MCPaymentOf == [e \in MCEvents |-> p1]
MCTarget ==
  [e \in MCEvents |->
     CASE e = authorized -> "attempted"
       [] e \in {captured, other} -> "captured"
       [] e = failed -> "failed"
       [] e = refunded -> "refunded"
       [] e = unknown -> "unsupported"]
MCDisagreeing == {other}
MCHandlers == {h1, h2}

TwoRows == {l1, l2}
TwoRequests == {q1, q2}
ThreeFiles == {l1, l2, k1}
MCPatchTargets == {"qualified", "converted"}
TwoForms == {f1, f2}
OneSchema == {s1}
TwoKeys == {k1, k2}
TwoPeople == {u1, u2}
OneCaptureKey == {k2}
MCFileOf == (k1 :> (1 :> u1 @@ 2 :> u2)) @@ (k2 :> (1 :> u1 @@ 2 :> u1))
TwoRules == {1, 2}
MCTargetLists == {<<u1, u2>>, <<u2>>}
MCMatches == (1 :> {"a"}) @@ (2 :> {"a"})
OneProspect == {"a"}
MCScores == {20, 80}
TwoAccounts == {f1, f2}
OneContact == {s1}
OneTask == {s2}
OneNote == {k1}
TwoNames == {"x", "y"}
MCStarts == 0..1
MCLengths == {1, 2}
MCSlotIndexes == {0, 1}
OneDocument == {s1}
MCDocTargets == {"sent", "signed"}

VARIABLE part

Parts == {"payments", "leads", "forms", "intake", "rules", "scoring", "deals",
          "crm", "appointments", "files"}

recordVars == <<part, vars, leadVars, formVars, intakeVars, ruleVars, scoreVars,
                dealVars, crmVars, apptVars, fileVars>>

RecordsInit ==
  /\ part \in Parts
  /\ Init /\ LeadInit /\ FormInit /\ IntakeInit /\ RuleInit /\ ScoreInit
  /\ DealInit /\ CrmInit /\ ApptInit /\ FileInit

(* The components that a step of part p leaves alone.                       *)
Rest(p) ==
  /\ p # "payments" => UNCHANGED vars
  /\ p # "leads" => UNCHANGED leadVars
  /\ p # "forms" => UNCHANGED formVars
  /\ p # "intake" => UNCHANGED intakeVars
  /\ p # "rules" => UNCHANGED ruleVars
  /\ p # "scoring" => UNCHANGED scoreVars
  /\ p # "deals" => UNCHANGED dealVars
  /\ p # "crm" => UNCHANGED crmVars
  /\ p # "appointments" => UNCHANGED apptVars
  /\ p # "files" => UNCHANGED fileVars

RecordsNext ==
  /\ \/ part = "payments" /\ Next
     \/ part = "leads" /\ LeadNext
     \/ part = "forms" /\ FormNext
     \/ part = "intake" /\ IntakeNext
     \/ part = "rules" /\ RuleNext
     \/ part = "scoring" /\ ScoreNext
     \/ part = "deals" /\ DealNext
     \/ part = "crm" /\ CrmNext
     \/ part = "appointments" /\ ApptNext
     \/ part = "files" /\ FileNext
  /\ UNCHANGED part
  /\ Rest(part)

RecordsSpec == RecordsInit /\ [][RecordsNext]_recordVars

(* Past a write from an outdated load the properties of that row no longer  *)
(* speak of it; behaviours are followed that far and no further, except     *)
(* where one row of two may be so written.  Files are named in the order    *)
(* their rows are inserted, the third last.                                 *)
RecordsBound ==
  /\ tainted # Leads
  /\ formTaint = {} /\ ruleTaint = {} /\ ~scoreTaint /\ dealTaint = {}
  /\ crmTaint = {} /\ apptTaint = {}
  /\ Cardinality({f \in FileIds : files[f].exists})
       + Cardinality({d \in DocIds : docs[d].exists}) <= 2
  /\ files[k1].exists => \A f \in TwoRows : files[f].exists

RecordsSymmetry == Permutations(TwoRows) \cup Permutations(TwoRequests)

-----------------------------------------------------------------------------
(* The variables of the component at work keep their types.                 *)
RecordsTypeOK ==
  CASE part = "payments" -> TypeOK
    [] part = "leads" -> LeadTypeOK
    [] part = "forms" -> FormTypeOK
    [] part = "intake" -> IntakeTypeOK
    [] part = "rules" -> RuleTypeOK
    [] part = "scoring" -> ScoreTypeOK
    [] part = "deals" -> DealTypeOK
    [] part = "crm" -> CrmTypeOK
    [] part = "appointments" -> ApptTypeOK
    [] part = "files" -> FileTypeOK

(* A row that no request wrote from an outdated load satisfies what its own *)
(* operations keep: an archived form is offline, a score has its category,  *)
(* a deal's status, stage, closing time and loss reason agree, account      *)
(* names are unique, a task's completion time follows its status and a      *)
(* document carries the time of the status it is in.                        *)
FreshRowsConsistent ==
  /\ ArchivedIsOffline /\ CategoryFitsScore /\ DealIsConsistent
  /\ TablesAreConsistent /\ StatusIsStamped
=============================================================================
