----------------------------- MODULE LeadIntake -----------------------------
(***************************************************************************)
(* How leads enter: LeadService.capture and the CSV import                 *)
(* (leads/importer.py).  Every entry leaves a source event, unique in its  *)
(* source and key; the import reads whether its key was used, then which   *)
(* prospects exist (in a session of its own), and inserts everything in    *)
(* one transaction.                                                        *)
(***************************************************************************)
EXTENDS Naturals, FiniteSets

CONSTANTS
  Importers,   \* concurrent import requests
  ImportKeys,  \* keys the clients choose
  People,      \* who a row is about: the dedupe value
  FileOf,      \* rows of the file sent under a key, NoImport where unusable
  CaptureKeys, \* Idempotency-Key values of POST /leads
  NoImport,    \* null
  MaxRows,     \* bound on the rows of a file
  MaxCaptures  \* bound on captures

ASSUME IntakeAssumption ==
  /\ MaxCaptures \in Nat /\ MaxRows \in Nat
  /\ \A k \in ImportKeys : DOMAIN FileOf[k] \subseteq 1..MaxRows

VARIABLES
  sourceEvent,  \* lead_source_events: the unique keys in use
  madeBy,       \* leads created, by source event key
  known,        \* people with a lead
  importer,     \* requests in flight
  captures      \* captures so far

intakeVars == <<sourceEvent, madeBy, known, importer, captures>>

(* plan_import: the accepted rows of a file.  A row with no name or no      *)
(* usable address, or with that of an earlier row, is rejected.             *)
plan_import(k) ==
  {n \in DOMAIN FileOf[k] :
     /\ FileOf[k][n] \in People
     /\ \A m \in DOMAIN FileOf[k] : m < n => FileOf[k][m] # FileOf[k][n]}

BatchMarker(k) == <<"csv_import", k, 0>>
RowEvent(k, n) == <<"csv_import", k, n>>
CaptureEvent(source, k) == <<source, k, 0>>

EventKeys == {RowEvent(k, n) : k \in ImportKeys, n \in 0..MaxRows} \cup
             {CaptureEvent(s, k) : s \in {"web", "csv_import"}, k \in CaptureKeys}

IntakeTypeOK ==
  /\ sourceEvent \subseteq EventKeys
  /\ madeBy \in [EventKeys -> Nat]
  /\ known \subseteq People /\ captures \in 0..MaxCaptures

IntakeInit ==
  /\ sourceEvent = {} /\ known = {} /\ captures = 0
  /\ madeBy = [e \in EventKeys |-> 0]
  /\ importer = [i \in Importers |-> NoImport]

-----------------------------------------------------------------------------
(* UniqueConstraint("tenant_id", "source", "source_idempotency_key")        *)
source_idem_None(events) == TRUE

source_idem(events) == events \cap sourceEvent = {}

(* A capture under a key already used fails as a whole.                     *)
capture(source, k, who) ==
  /\ captures < MaxCaptures
  /\ captures' = captures + 1
  /\ LET e == CaptureEvent(source, k) IN
       IF source_idem({e})
         THEN /\ sourceEvent' = sourceEvent \cup {e}
              /\ madeBy' = [madeBy EXCEPT ![e] = @ + 1]
              /\ known' = known \cup {who}
         ELSE UNCHANGED <<sourceEvent, madeBy, known>>
  /\ UNCHANGED importer

(* commit_import: the key has not been used, under any source.              *)
BeginImport(i, k) ==
  /\ importer[i] = NoImport
  /\ ~\E e \in sourceEvent : e[2] = k /\ e[3] = 0
  /\ importer' = [importer EXCEPT ![i] = [key |-> k, read |-> FALSE, matches |-> {}]]
  /\ UNCHANGED <<sourceEvent, madeBy, known, captures>>

(* _existing_matches                                                        *)
ReadMatches(i) ==
  /\ importer[i] # NoImport
  /\ ~importer[i].read
  /\ importer' = [importer EXCEPT ![i] = [key |-> @.key, read |-> TRUE, matches |-> known]]
  /\ UNCHANGED <<sourceEvent, madeBy, known, captures>>

(* A row that matches leaves an event and no lead, any other row both.      *)
CommitImport(i) ==
  /\ importer[i] # NoImport
  /\ importer[i].read
  /\ LET k == importer[i].key
         rows == plan_import(k)
         new == {n \in rows : FileOf[k][n] \notin importer[i].matches}
         events == {RowEvent(k, n) : n \in rows} \cup {BatchMarker(k)}
     IN IF source_idem(events)
          THEN /\ sourceEvent' = sourceEvent \cup events
               /\ madeBy' = [e \in EventKeys |->
                               IF e \in {RowEvent(k, n) : n \in new}
                                 THEN madeBy[e] + 1 ELSE madeBy[e]]
               /\ known' = known \cup {FileOf[k][n] : n \in new}
          ELSE UNCHANGED <<sourceEvent, madeBy, known>>
  /\ importer' = [importer EXCEPT ![i] = NoImport]
  /\ UNCHANGED captures

AbortImport(i) ==
  /\ importer[i] # NoImport
  /\ importer' = [importer EXCEPT ![i] = NoImport]
  /\ UNCHANGED <<sourceEvent, madeBy, known, captures>>

(* POST /leads and POST /imports/leads, retried at will by their clients.   *)
IntakeNext ==
  \/ \E s \in {"web", "csv_import"}, k \in CaptureKeys, who \in People : capture(s, k, who)
  \/ \E i \in Importers :
       \/ \E k \in ImportKeys : BeginImport(i, k)
       \/ ReadMatches(i) \/ CommitImport(i) \/ AbortImport(i)

IntakeSpec == IntakeInit /\ [][IntakeNext]_intakeVars

-----------------------------------------------------------------------------
(* A retried or concurrent import or capture makes no lead twice, and an    *)
(* import is all or nothing: none of its rows is on record before its key,  *)
(* only accepted rows ever are, and with the key they all are, unless a     *)
(* capture claimed that key as its own.                                     *)
EntersOnce ==
  /\ \A e \in EventKeys : madeBy[e] <= 1
  /\ \A k \in ImportKeys, n \in 1..MaxRows :
       /\ RowEvent(k, n) \in sourceEvent => n \in plan_import(k) /\ BatchMarker(k) \in sourceEvent
       /\ BatchMarker(k) \in sourceEvent /\ k \notin CaptureKeys /\ n \in plan_import(k)
            => RowEvent(k, n) \in sourceEvent
       /\ madeBy[RowEvent(k, n)] = 1 => RowEvent(k, n) \in sourceEvent
=============================================================================
