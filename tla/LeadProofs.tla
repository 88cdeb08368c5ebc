----------------------------- MODULE LeadProofs -----------------------------
(***************************************************************************)
(* Leads, appointments and outbound webhooks, for any rows and any number  *)
(* of requests, deliveries and workers: leads are made once (LeadIntake),  *)
(* merges are kept and a conversion is final (LeadLifecycle), an open      *)
(* appointment holds its slot (Appointments), a delivery that is marked    *)
(* delivered was received (WebhookDelivery), and accounts, contacts, tasks *)
(* and notes stay consistent with each other (CrmTables).                  *)
(***************************************************************************)
EXTENDS CrmTables, LeadIntake, LeadLifecycle, Appointments, WebhookDelivery, TLAPS

(* LeadIntake.                                                              *)

Import == [key : ImportKeys, read : BOOLEAN, matches : SUBSET People]

(* A lead is made with its event and the event is new, so counting leads by *)
(* event counts to one.                                                     *)
IntakeInv ==
  /\ IntakeTypeOK
  /\ \A i \in Importers : importer[i] # NoImport => importer[i] \in Import
  /\ \A e \in EventKeys \ sourceEvent : madeBy[e] = 0
  /\ EntersOnce

(* plan_import accepts rows of the file.                                    *)
LEMMA AcceptedRows ==
  ASSUME NEW k \in ImportKeys
  PROVE  plan_import(k) \subseteq 1..MaxRows
BY Zenon, IntakeAssumption DEF plan_import

(* Every key an import or a capture writes is one of the table.             *)
LEMMA KeysAreEvents ==
  /\ \A k \in ImportKeys : BatchMarker(k) \in EventKeys
  /\ \A k \in ImportKeys, n \in 1..MaxRows : RowEvent(k, n) \in EventKeys
  /\ \A s \in {"web", "csv_import"}, k \in CaptureKeys : CaptureEvent(s, k) \in EventKeys
BY IntakeAssumption DEF EventKeys, BatchMarker, RowEvent, CaptureEvent

(* The keys of rows, batches and captures do not collide, but for a batch   *)
(* and a capture under the same client key.                                 *)
LEMMA RowsDiffer ==
  /\ \A k, j, n, m : RowEvent(k, n) = RowEvent(j, m) <=> k = j /\ n = m
  /\ \A k, j : BatchMarker(k) = BatchMarker(j) <=> k = j
  /\ \A k, j : \A n \in 1..MaxRows : RowEvent(k, n) # BatchMarker(j)
  /\ \A s, k, j : \A n \in 1..MaxRows : RowEvent(k, n) # CaptureEvent(s, j)
  /\ \A s, k, j : BatchMarker(k) = CaptureEvent(s, j) => k = j
BY IntakeAssumption DEF RowEvent, BatchMarker, CaptureEvent

(* A capture adds its own event and touches no row of an import.            *)
LEMMA CaptureKeepsInv ==
  ASSUME IntakeInv, NEW s \in {"web", "csv_import"}, NEW k \in CaptureKeys, NEW who \in People,
         capture(s, k, who)
  PROVE  IntakeInv'
<1> DEFINE e == CaptureEvent(s, k)
<1> USE IntakeAssumption
<1>1. e \in EventKeys
  BY Zenon, KeysAreEvents
<1>2. CASE ~source_idem({e})
  BY <1>2 DEF capture, IntakeInv, IntakeTypeOK, EntersOnce
<1>3. CASE source_idem({e})
  <2>1. /\ e \notin sourceEvent
        /\ sourceEvent' = sourceEvent \cup {e}
        /\ madeBy' = [madeBy EXCEPT ![e] = @ + 1]
        /\ madeBy[e] = 0
    BY Zenon, <1>1, <1>3 DEF capture, source_idem, IntakeInv
  <2>2. IntakeTypeOK'
    BY <1>1, <1>3, <2>1 DEF capture, IntakeInv, IntakeTypeOK
  <2>3. /\ \A i \in Importers : importer'[i] # NoImport => importer'[i] \in Import
        /\ \A x \in EventKeys \ sourceEvent' : madeBy'[x] = 0
        /\ \A x \in EventKeys : madeBy'[x] <= 1
    BY <1>1, <2>1 DEF capture, IntakeInv, IntakeTypeOK, EntersOnce
  <2>4. ASSUME NEW j \in ImportKeys, NEW n \in 1..MaxRows
        PROVE  /\ RowEvent(j, n) \in sourceEvent' <=> RowEvent(j, n) \in sourceEvent
               /\ madeBy'[RowEvent(j, n)] = madeBy[RowEvent(j, n)]
               /\ BatchMarker(j) \in sourceEvent => BatchMarker(j) \in sourceEvent'
               /\ j \notin CaptureKeys /\ BatchMarker(j) \in sourceEvent' => BatchMarker(j) \in sourceEvent
    BY <1>1, <2>1, RowsDiffer, KeysAreEvents DEF IntakeInv, IntakeTypeOK
  <2> QED BY Zenon, <2>2, <2>3, <2>4 DEF IntakeInv, EntersOnce
<1> QED BY Zenon, <1>2, <1>3

(* An import writes its key and all its rows in one transaction.            *)
LEMMA CommitKeepsInv ==
  ASSUME IntakeInv, NEW i \in Importers, CommitImport(i)
  PROVE  IntakeInv'
<1> USE IntakeAssumption
<1> DEFINE k == importer[i].key
           rows == plan_import(k)
           new == {n \in rows : FileOf[k][n] \notin importer[i].matches}
           events == {RowEvent(k, n) : n \in rows} \cup {BatchMarker(k)}
           made == {RowEvent(k, n) : n \in new}
<1>1. k \in ImportKeys /\ rows \subseteq 1..MaxRows
  BY Zenon, AcceptedRows DEF CommitImport, IntakeInv, Import
<1>2. \A j \in Importers : importer'[j] # NoImport => importer'[j] \in Import
  BY DEF CommitImport, IntakeInv
<1>3. CASE ~source_idem(events)
  BY Zenon, <1>2, <1>3 DEF CommitImport, IntakeInv, IntakeTypeOK, EntersOnce
<1>4. CASE source_idem(events)
  <2>1. /\ events \cap sourceEvent = {}
        /\ sourceEvent' = sourceEvent \cup events
        /\ madeBy' = [e \in EventKeys |-> IF e \in made THEN madeBy[e] + 1 ELSE madeBy[e]]
        /\ known' = known \cup {FileOf[k][n] : n \in new}
        /\ captures' = captures
    BY Zenon, <1>4 DEF CommitImport, source_idem
  <2>2. events \subseteq EventKeys /\ made \subseteq events
    BY Zenon, <1>1, KeysAreEvents
  <2>3. \A n \in new : FileOf[k][n] \in People
    BY Zenon DEF plan_import
  <2>4. IntakeTypeOK'
    BY SMTT(40), <2>1, <2>2, <2>3 DEF IntakeInv, IntakeTypeOK
  <2>5. /\ \A e \in EventKeys \ sourceEvent' : madeBy'[e] = 0
        /\ \A e \in EventKeys : madeBy'[e] <= 1
        /\ \A e \in EventKeys : madeBy'[e] = 1 => e \in sourceEvent'
    BY <2>1, <2>2 DEF IntakeInv, IntakeTypeOK, EntersOnce
  <2>6. ASSUME NEW j \in ImportKeys, NEW n \in 1..MaxRows
        PROVE  /\ RowEvent(j, n) \in events <=> j = k /\ n \in rows
               /\ BatchMarker(j) \in events <=> j = k
    BY <1>1, RowsDiffer
  <2>7. ASSUME NEW j \in ImportKeys, NEW n \in 1..MaxRows
        PROVE  /\ RowEvent(j, n) \in sourceEvent' => n \in plan_import(j) /\ BatchMarker(j) \in sourceEvent'
               /\ BatchMarker(j) \in sourceEvent' /\ j \notin CaptureKeys /\ n \in plan_import(j)
                    => RowEvent(j, n) \in sourceEvent'
    BY Zenon, <2>1, <2>6 DEF IntakeInv, EntersOnce
  <2> QED BY Zenon, <1>2, <2>4, <2>5, <2>7, KeysAreEvents DEF IntakeInv, EntersOnce
<1> QED BY Zenon, <1>3, <1>4

(* However imports and captures are retried, overlap and abort, each makes  *)
(* its leads once and an import is all or nothing: the unique key of        *)
(* lead_source_events is enough, although it is looked up without a lock.   *)
THEOREM LeadsEnterOnce == IntakeSpec => []EntersOnce
<1>1. IntakeInit => IntakeInv
  BY IntakeAssumption, KeysAreEvents DEF IntakeInit, IntakeInv, IntakeTypeOK, EntersOnce
<1>2. IntakeInv /\ [IntakeNext]_intakeVars => IntakeInv'
  <2> SUFFICES ASSUME IntakeInv, [IntakeNext]_intakeVars PROVE IntakeInv'
    OBVIOUS
  <2>1. ASSUME NEW s \in {"web", "csv_import"}, NEW k \in CaptureKeys, NEW who \in People,
               capture(s, k, who)
        PROVE  IntakeInv'
    BY Zenon, <2>1, CaptureKeepsInv
  <2>2. ASSUME NEW i \in Importers, NEW k \in ImportKeys, BeginImport(i, k)
        PROVE  IntakeInv'
    BY <2>2 DEF BeginImport, IntakeInv, Import, IntakeTypeOK, EntersOnce
  <2>3. ASSUME NEW i \in Importers, ReadMatches(i)
        PROVE  IntakeInv'
    BY <2>3 DEF ReadMatches, IntakeInv, Import, IntakeTypeOK, EntersOnce
  <2>4. ASSUME NEW i \in Importers, CommitImport(i)
        PROVE  IntakeInv'
    BY Zenon, <2>4, CommitKeepsInv
  <2>5. ASSUME NEW i \in Importers, AbortImport(i)
        PROVE  IntakeInv'
    BY <2>5 DEF AbortImport, IntakeInv, IntakeTypeOK, EntersOnce
  <2>6. CASE UNCHANGED intakeVars
    BY Zenon, <2>6 DEF intakeVars, IntakeInv, IntakeTypeOK, EntersOnce
  <2> QED BY Zenon, <2>1, <2>2, <2>3, <2>4, <2>5, <2>6 DEF IntakeNext
<1>3. IntakeInv => EntersOnce
  BY Zenon DEF IntakeInv
<1> QED BY <1>1, <1>2, <1>3, PTL DEF IntakeSpec

-----------------------------------------------------------------------------
(* LeadLifecycle.                                                           *)

(* A request loads rows, waits, and flushes what it changed (RowFlush).  The *)
(* inductive invariant says of every request in flight what it loaded and    *)
(* what it will set, and that a load which no commit has outdated is still   *)
(* what is stored; a commit is then the flush of a row the invariant knows.  *)

(* A request's record of what it loaded and will write (RowFlush).          *)
Shaped(r) == {"writes", "stale"} \subseteq DOMAIN r

(* What a request that loads one row has in hand.                           *)
LEMMA LoadHolds ==
  ASSUME NEW id, NEW old, NEW new
  PROVE  /\ Dirty(Load(id, old, new)) = {id}
         /\ Load(id, old, new).writes[id].old = old
         /\ Load(id, old, new).writes[id].new = new
         /\ Load(id, old, new).stale = {}
         /\ Shaped(Load(id, old, new))
BY Zenon DEF Load, Dirty, Write, Shaped

(* ... and one that loads a further row.                                    *)
LEMMA LoadMoreHolds ==
  ASSUME NEW r, NEW id, NEW old, NEW new, Shaped(r)
  PROVE  /\ Dirty(LoadMore(r, id, old, new)) = Dirty(r) \cup {id}
         /\ LoadMore(r, id, old, new).writes[id].old = old
         /\ LoadMore(r, id, old, new).writes[id].new = new
         /\ \A i \in Dirty(r) \ {id} : LoadMore(r, id, old, new).writes[i] = r.writes[i]
         /\ LoadMore(r, id, old, new).stale = r.stale
         /\ Shaped(LoadMore(r, id, old, new))
BY Zenon DEF LoadMore, Dirty, Shaped

(* A commit by another request outdates what was loaded and nothing else.   *)
LEMMA OutdateHolds ==
  ASSUME NEW r, NEW ids, Shaped(r)
  PROVE  /\ Dirty(Outdate(r, ids)) = Dirty(r)
         /\ Outdate(r, ids).writes = r.writes
         /\ Outdate(r, ids).stale = r.stale \cup (ids \cap Dirty(r))
         /\ \A f \in DOMAIN r \ {"stale"} : Outdate(r, ids)[f] = r[f]
         /\ DOMAIN Outdate(r, ids) = DOMAIN r
         /\ Shaped(Outdate(r, ids))
BY Zenon DEF Outdate, Dirty, Shaped

(* The flush of a lead writes the columns that were changed.                *)
LEMMA LeadFlush ==
  ASSUME NEW row \in LeadRow, NEW old \in LeadRow, NEW new \in LeadRow,
         NEW out, out = Flush(row, old, new)
  PROVE  /\ out \in LeadRow
         /\ out.status = IF new.status # old.status THEN new.status ELSE row.status
         /\ out.merged_into = IF new.merged_into # old.merged_into
                                THEN new.merged_into ELSE row.merged_into
         /\ out.deleted = IF new.deleted # old.deleted THEN new.deleted ELSE row.deleted
<1>1. DOMAIN row = {"status", "contact", "merged_into", "deleted"}
  BY Zenon DEF LeadRow
<1>2. out = [f \in {"status", "contact", "merged_into", "deleted"} |->
               IF new[f] # old[f] THEN new[f] ELSE row[f]]
  BY Zenon, <1>1 DEF Flush
<1>3. /\ out.status = IF new.status # old.status THEN new.status ELSE row.status
      /\ out.contact = IF new.contact # old.contact THEN new.contact ELSE row.contact
      /\ out.merged_into = IF new.merged_into # old.merged_into
                             THEN new.merged_into ELSE row.merged_into
  BY Zenon, <1>2
<1>4. out.deleted = IF new.deleted # old.deleted THEN new.deleted ELSE row.deleted
  BY Zenon, <1>2
<1>5. out = [status |-> out.status, contact |-> out.contact, merged_into |-> out.merged_into,
             deleted |-> out.deleted]
  BY Zenon, <1>2
<1>6. /\ out.status \in LeadStatus /\ out.contact \in 0..MaxConverts
      /\ out.merged_into \in Leads \cup {NoLead}
  BY Zenon, <1>3 DEF LeadRow
<1>7. out.deleted \in BOOLEAN
  BY Zenon, <1>4 DEF LeadRow
<1> QED
  BY Zenon, <1>3, <1>4, <1>5, <1>6, <1>7 DEF LeadRow

(* A lead that is not merged, one that is, and the rows the operations set. *)
Unmerged(row) == row \in LeadRow /\ row.merged_into = NoLead /\ ~row.deleted
Merged(row) ==
  row \in LeadRow /\ row.merged_into \in Leads /\ row.deleted /\ row.status = "archived"

(* The rows that the operations set.                                        *)
LEMMA LeadEdits ==
  ASSUME NEW row \in LeadRow
  PROVE  /\ \A s \in LeadStatus :
              LET new == [row EXCEPT !.status = s]
              IN  /\ new \in LeadRow /\ new.status = s
                  /\ new.merged_into = row.merged_into /\ new.deleted = row.deleted
                  /\ Unmerged(row) => Unmerged(new)
         /\ \A c \in 0..MaxConverts :
              LET new == [row EXCEPT !.status = "converted", !.contact = c]
              IN  new.status = "converted" /\ (Unmerged(row) => Unmerged(new))
         /\ LET new == [row EXCEPT !.status = "new", !.deleted = FALSE]
            IN  row.merged_into = NoLead => Unmerged(new)
         /\ \A l \in Leads : /\ Merged(MergedInto(row, l))
                             /\ MergedInto(row, l).merged_into = l
<1>1. \A s \in LeadStatus :
        LET new == [row EXCEPT !.status = s]
        IN  /\ new \in LeadRow /\ new.status = s
            /\ new.merged_into = row.merged_into /\ new.deleted = row.deleted
  BY Zenon DEF LeadRow
<1>2. \A c \in 0..MaxConverts :
        LET new == [row EXCEPT !.status = "converted", !.contact = c]
        IN  /\ new \in LeadRow /\ new.status = "converted"
            /\ new.merged_into = row.merged_into /\ new.deleted = row.deleted
  BY Zenon DEF LeadRow, LeadStatus
<1>3. LET new == [row EXCEPT !.status = "new", !.deleted = FALSE]
      IN  new \in LeadRow /\ new.merged_into = row.merged_into /\ new.deleted = FALSE
  BY Zenon DEF LeadRow, LeadStatus
<1>4. \A l \in Leads :
        LET new == MergedInto(row, l)
        IN  new \in LeadRow /\ new.merged_into = l /\ new.deleted = TRUE /\ new.status = "archived"
  BY Zenon DEF LeadRow, LeadStatus, MergedInto
<1> QED
  BY Zenon, <1>1, <1>2, <1>3, <1>4 DEF Unmerged, Merged

(* A request loads only leads that are not merged, keeps a converted lead   *)
(* converted, and merges a lead into one that it loaded and leaves alone.   *)
SoundWrites(r) ==
  \A l \in Dirty(r) :
    /\ l \in Leads /\ Unmerged(r.writes[l].old)
    /\ r.writes[l].old.status = "converted" => r.writes[l].new.status = "converted"
    /\ \/ Unmerged(r.writes[l].new)
       \/ /\ Merged(r.writes[l].new)
          /\ r.writes[l].new.merged_into \in Dirty(r) \ {l}
          /\ LET s == r.writes[l].new.merged_into IN r.writes[s].new = r.writes[s].old

(* What it loaded is what is stored, unless it has been outdated.           *)
FreshLoads(table, r) == \A l \in Dirty(r) \ r.stale : table[l] = r.writes[l].old

LeadRequestOK(table, r) ==
  /\ Shaped(r) /\ r.stale \subseteq Dirty(r)
  /\ SoundWrites(r) /\ FreshLoads(table, r)

LeadRequestInv ==
  /\ DOMAIN leadReq = LeadRequests
  /\ \A q \in LeadRequests : leadReq[q] # NoLead => LeadRequestOK(lead, leadReq[q])

LeadInv ==
  /\ lead \in [Leads -> LeadRow]
  /\ tainted \subseteq Leads /\ converts \in 0..MaxConverts
  /\ LeadRequestInv
  /\ MergesAreKept

(* The invariant of the requests, after a step.                             *)
LEMMA LeadRequestNext ==
  ASSUME DOMAIN leadReq' = LeadRequests,
         \A q \in LeadRequests : leadReq'[q] # NoLead => LeadRequestOK(lead', leadReq'[q])
  PROVE  LeadRequestInv'
BY Zenon DEF LeadRequestInv, LeadRequestOK, Shaped, SoundWrites, FreshLoads, Dirty, Unmerged,
             Merged, LeadRow

(* Of a stored lead: it is merged, or not.                                  *)
LEMMA StoredLead ==
  ASSUME LeadInv, NEW l \in Leads
  PROVE  /\ lead[l] \in LeadRow
         /\ ~lead[l].deleted => Unmerged(lead[l])
         /\ lead[l].merged_into = NoLead => Unmerged(lead[l])
BY Zenon DEF LeadInv, MergesAreKept, Unmerged

(* Loading a lead that is not merged.                                       *)
LEMMA LoadLeadStep ==
  ASSUME LeadInv, NEW q \in LeadRequests, NEW l \in Leads, NEW new, LoadLead(q, l, new),
         Unmerged(lead[l]), Unmerged(new),
         lead[l].status = "converted" => new.status = "converted",
         converts' \in 0..MaxConverts
  PROVE  LeadInv'
<1>1. /\ lead' = lead /\ tainted' = tainted
      /\ leadReq' = [leadReq EXCEPT ![q] = Load(l, lead[l], new)]
  BY Zenon DEF LoadLead
<1>2. DOMAIN leadReq' = LeadRequests /\ leadReq'[q] = Load(l, lead[l], new)
      /\ \A p \in LeadRequests \ {q} : leadReq'[p] = leadReq[p]
  BY Zenon, <1>1 DEF LeadInv, LeadRequestInv
<1> DEFINE r == Load(l, lead[l], new)
<1>3. /\ Dirty(r) = {l} /\ r.writes[l].old = lead[l] /\ r.writes[l].new = new
      /\ r.stale = {} /\ Shaped(r)
  BY LoadHolds
<1>4. LeadRequestOK(lead, r)
  BY Zenon, <1>3 DEF LeadRequestOK, SoundWrites, FreshLoads
<1>5. LeadRequestInv'
  BY Zenon, <1>1, <1>2, <1>4, LeadRequestNext DEF LeadInv, LeadRequestInv
<1> QED
  BY Zenon, <1>1, <1>5 DEF LeadInv, MergesAreKept, SoundLeads

(* Each load of the routes.                                                 *)
LEMMA LeadLoads ==
  ASSUME LeadInv, NEW q \in LeadRequests, NEW l \in Leads
  PROVE  /\ \A to \in PatchTargets, reason \in BOOLEAN :
              UpdateLead(q, l, to, reason, "current") => LeadInv'
         /\ ConvertLead(q, l) => LeadInv'
         /\ disqualify_lead(q, l) => LeadInv'
         /\ restore_lead(q, l) => LeadInv'
         /\ merge_leads(q, l) => LeadInv'
<1>1. /\ lead[l] \in LeadRow /\ converts \in 0..MaxConverts
      /\ ~lead[l].deleted => Unmerged(lead[l])
      /\ lead[l].merged_into = NoLead => Unmerged(lead[l])
  BY Zenon, StoredLead DEF LeadInv
<1>2. \A to, reason : assert_transition(lead[l].status, to, reason) /\ lead[l].status = "converted"
        => to = "converted"
  BY DEF assert_transition, ALLOWED_TRANSITIONS
<1>3. "converted" \in LeadStatus /\ "disqualified" \in LeadStatus /\ "new" \in LeadStatus
  BY Zenon DEF LeadStatus
<1>4. \A to \in LeadStatus : Unmerged(lead[l]) => Unmerged([lead[l] EXCEPT !.status = to])
                             /\ [lead[l] EXCEPT !.status = to].status = to
  BY Zenon, <1>1, LeadEdits
<1>5. ASSUME NEW to \in PatchTargets, NEW reason \in BOOLEAN,
             UpdateLead(q, l, to, reason, "current")
      PROVE  LeadInv'
  <2>1. to \in LeadStatus
    BY Zenon, LeadAssumption
  <2>2. /\ Unmerged(lead[l]) /\ assert_transition(lead[l].status, to, reason)
        /\ LoadLead(q, l, [lead[l] EXCEPT !.status = to]) /\ converts' = converts
    BY Zenon, <1>1, <1>5 DEF UpdateLead, LeadFound
  <2> QED
    BY Zenon, <1>1, <1>2, <1>4, <2>1, <2>2, LoadLeadStep
<1>6. ASSUME ConvertLead(q, l) PROVE LeadInv'
  <2>1. /\ Unmerged(lead[l]) /\ converts' = converts + 1 /\ converts < MaxConverts
        /\ LoadLead(q, l, [lead[l] EXCEPT !.status = "converted", !.contact = converts + 1])
    BY Zenon, <1>1, <1>6 DEF ConvertLead, LeadFound
  <2>2. converts + 1 \in 0..MaxConverts
    BY <1>1, <2>1, LeadAssumption
  <2> DEFINE new == [lead[l] EXCEPT !.status = "converted", !.contact = converts + 1]
  <2>3. Unmerged(new) /\ new.status = "converted"
    BY Zenon, <1>1, <2>1, <2>2, LeadEdits
  <2> QED
    BY Zenon, <2>1, <2>2, <2>3, LoadLeadStep
<1>7. ASSUME disqualify_lead(q, l) PROVE LeadInv'
  <2>1. /\ Unmerged(lead[l]) /\ assert_transition(lead[l].status, "disqualified", TRUE)
        /\ LoadLead(q, l, [lead[l] EXCEPT !.status = "disqualified"]) /\ converts' = converts
    BY Zenon, <1>1, <1>7 DEF disqualify_lead, LeadFound
  <2> QED
    BY Zenon, <1>1, <1>2, <1>3, <1>4, <2>1, LoadLeadStep
<1>8. ASSUME restore_lead(q, l) PROVE LeadInv'
  <2>1. /\ lead[l].merged_into = NoLead /\ lead[l].status # "converted"
        /\ LoadLead(q, l, [lead[l] EXCEPT !.status = "new", !.deleted = FALSE])
        /\ converts' = converts
    BY Zenon, <1>8 DEF restore_lead, Restorable
  <2> DEFINE new == [lead[l] EXCEPT !.status = "new", !.deleted = FALSE]
  <2>2. Unmerged(new)
    BY Zenon, <1>1, <2>1, LeadEdits
  <2> QED
    BY Zenon, <1>1, <2>1, <2>2, LoadLeadStep
<1>9. ASSUME merge_leads(q, l) PROVE LeadInv'
  <2>1. Unmerged(lead[l]) /\ LoadLead(q, l, lead[l]) /\ converts' = converts
    BY Zenon, <1>1, <1>9 DEF merge_leads, LeadFound
  <2> QED
    BY Zenon, <1>1, <2>1, LoadLeadStep
<1> QED
  BY Zenon, <1>5, <1>6, <1>7, <1>8, <1>9

(* merge_leads loads the loser beside the survivor.                         *)
LEMMA MergeLoserStep ==
  ASSUME LeadInv, NEW q \in LeadRequests, NEW survivor \in Leads, NEW loser \in Leads,
         MergeLoser(q, survivor, loser)
  PROVE  LeadInv'
<1> DEFINE r == leadReq[q]
           new == MergedInto(lead[loser], survivor)
           m == LoadMore(r, loser, lead[loser], new)
<1>1. /\ LeadRequestOK(lead, r) /\ Dirty(r) = {survivor} /\ survivor # loser
      /\ r.writes[survivor].new = r.writes[survivor].old
      /\ ~lead[loser].deleted /\ lead[loser].status # "converted"
  BY Zenon DEF LeadInv, LeadRequestInv, MergeLoser, NoRequest, LeadFound, Mergeable
<1>2. /\ lead' = lead /\ tainted' = tainted /\ converts' = converts
      /\ leadReq' = [leadReq EXCEPT ![q] = m]
  BY Zenon DEF MergeLoser
<1>3. /\ DOMAIN leadReq' = LeadRequests /\ leadReq'[q] = m
      /\ \A p \in LeadRequests \ {q} : leadReq'[p] = leadReq[p]
  BY Zenon, <1>2 DEF LeadInv, LeadRequestInv
<1>4. /\ Unmerged(lead[loser]) /\ Merged(new) /\ new.merged_into = survivor
  BY Zenon, <1>1, StoredLead, LeadEdits
<1>5. /\ Dirty(m) = {survivor, loser} /\ Shaped(m) /\ m.stale = r.stale
      /\ m.writes[loser].old = lead[loser] /\ m.writes[loser].new = new
      /\ m.writes[survivor] = r.writes[survivor]
  <2>1. Shaped(r)
    BY Zenon, <1>1 DEF LeadRequestOK
  <2>2. /\ Dirty(m) = Dirty(r) \cup {loser} /\ Shaped(m) /\ m.stale = r.stale
        /\ m.writes[loser].old = lead[loser] /\ m.writes[loser].new = new
        /\ \A i \in Dirty(r) \ {loser} : m.writes[i] = r.writes[i]
    BY <2>1, LoadMoreHolds
  <2> QED
    BY Zenon, <1>1, <2>2
<1>6. /\ r.stale \subseteq {survivor} /\ Unmerged(r.writes[survivor].old)
      /\ r.writes[survivor].old.status = "converted" => r.writes[survivor].new.status = "converted"
      /\ survivor \notin r.stale => lead[survivor] = r.writes[survivor].old
  BY Zenon, <1>1 DEF LeadRequestOK, SoundWrites, FreshLoads
<1>7. SoundWrites(m)
  BY Zenon, <1>1, <1>4, <1>5, <1>6 DEF SoundWrites
<1>8. LeadRequestOK(lead, m)
  BY Zenon, <1>1, <1>5, <1>6, <1>7 DEF LeadRequestOK, FreshLoads
<1>9. LeadRequestInv'
  BY Zenon, <1>2, <1>3, <1>8, LeadRequestNext DEF LeadInv, LeadRequestInv
<1> QED
  BY Zenon, <1>2, <1>9 DEF LeadInv, MergesAreKept, SoundLeads

(* A request that is rolled back writes nothing.                            *)
LEMMA RollBackLeadStep ==
  ASSUME LeadInv, NEW q \in LeadRequests, RollBackLead(q)
  PROVE  LeadInv'
<1>1. /\ lead' = lead /\ tainted' = tainted /\ converts' = converts
      /\ leadReq' = [leadReq EXCEPT ![q] = NoLead]
  BY Zenon DEF RollBackLead
<1>2. /\ DOMAIN leadReq' = LeadRequests /\ leadReq'[q] = NoLead
      /\ \A p \in LeadRequests \ {q} : leadReq'[p] = leadReq[p]
  BY Zenon, <1>1 DEF LeadInv, LeadRequestInv
<1>3. LeadRequestInv'
  BY Zenon, <1>1, <1>2, LeadRequestNext DEF LeadInv, LeadRequestInv
<1> QED
  BY Zenon, <1>1, <1>3 DEF LeadInv, MergesAreKept, SoundLeads

(* A request is outdated by a write of rows it loaded, and sound as before. *)
LEMMA LeadOutdated ==
  ASSUME NEW table, NEW after, NEW r, NEW ids, LeadRequestOK(table, r),
         \A l \in Leads \ ids : after[l] = table[l]
  PROVE  LeadRequestOK(after, Outdate(r, ids))
<1> DEFINE o == Outdate(r, ids)
<1>1. /\ Dirty(o) = Dirty(r) /\ o.writes = r.writes /\ Shaped(o)
      /\ o.stale = r.stale \cup (ids \cap Dirty(r))
  BY Zenon, OutdateHolds DEF LeadRequestOK
<1> HIDE DEF o
<1>2. SoundWrites(o)
  BY Zenon, <1>1 DEF LeadRequestOK, SoundWrites
<1>3. o.stale \subseteq Dirty(o) /\ FreshLoads(after, o)
  BY Zenon, <1>1 DEF LeadRequestOK, FreshLoads, SoundWrites
<1> QED
  BY Zenon, <1>1, <1>2, <1>3 DEF LeadRequestOK, o

(* bulk_update writes statuses of leads that are not merged.                *)
LEMMA BulkUpdateStep ==
  ASSUME LeadInv, NEW rows \in SUBSET Leads, NEW to \in PatchTargets, bulk_update(rows, to)
  PROVE  LeadInv'
<1>1. /\ lead' = [l \in Leads |-> IF l \in rows THEN [lead[l] EXCEPT !.status = to] ELSE lead[l]]
      /\ leadReq' = [q \in LeadRequests |->
                       IF NoRequest(q) THEN NoLead ELSE Outdate(leadReq[q], rows)]
      /\ tainted' = tainted /\ converts' = converts
      /\ \A l \in rows : ~lead[l].deleted
  BY Zenon DEF bulk_update, LeadFound
<1>2. to \in LeadStatus
  BY Zenon, LeadAssumption
<1>3. \A l \in Leads : /\ lead'[l] \in LeadRow
                       /\ lead'[l].merged_into = lead[l].merged_into
                       /\ lead'[l].deleted = lead[l].deleted
                       /\ l \notin rows => lead'[l] = lead[l]
  BY Zenon, <1>1, <1>2, LeadEdits, StoredLead
<1>4. lead' \in [Leads -> LeadRow]
  BY Zenon, <1>1, <1>3
<1>5. LeadRequestInv'
  BY Zenon, <1>1, <1>3, LeadOutdated, LeadRequestNext DEF LeadInv, LeadRequestInv, NoRequest
<1>6. \A l \in Leads : lead[l].merged_into # NoLead => l \notin rows
  BY Zenon, <1>1 DEF LeadInv, MergesAreKept
<1>7. MergesAreKept'
  BY Zenon, <1>1, <1>3, <1>6 DEF LeadInv, MergesAreKept, SoundLeads
<1> QED
  BY Zenon, <1>1, <1>4, <1>5, <1>7 DEF LeadInv

(* A commit writes what the request set in the rows that were as it loaded  *)
(* them, and of the others keeps both columns of a merge.                   *)
LEMMA CommittedLead ==
  ASSUME LeadInv, NEW q \in LeadRequests, CommitLead(q), NEW l \in Leads
  PROVE  LET r == leadReq[q] IN
         /\ LeadRequestOK(lead, r)
         /\ lead'[l] \in LeadRow
         /\ l \notin Dirty(r) => lead'[l] = lead[l]
         /\ lead'[l].deleted <=> lead'[l].merged_into # NoLead
         /\ l \in Dirty(r) \ r.stale =>
              /\ lead'[l].status = r.writes[l].new.status
              /\ lead'[l].merged_into = r.writes[l].new.merged_into
<1> DEFINE r == leadReq[q]
           old == r.writes[l].old
           new == r.writes[l].new
<1>1. LeadRequestOK(lead, r) /\ lead' = Commit(lead, r)
  BY Zenon DEF CommitLead, LeadInv, LeadRequestInv, NoRequest
<1>2. DOMAIN lead = Leads /\ lead[l] \in LeadRow
  BY Zenon DEF LeadInv
<1>3. lead'[l] = IF l \in Dirty(r) THEN Flush(lead[l], old, new) ELSE lead[l]
  BY Zenon, <1>1, <1>2 DEF Commit
<1>4. CASE l \notin Dirty(r)
  BY Zenon, <1>1, <1>2, <1>3, <1>4 DEF LeadInv, MergesAreKept
<1>5. CASE l \in Dirty(r)
  <2>1. /\ Unmerged(old) /\ (Unmerged(new) \/ Merged(new))
        /\ l \notin r.stale => lead[l] = old
    BY Zenon, <1>1, <1>5 DEF LeadRequestOK, SoundWrites, FreshLoads
  <2>2. old \in LeadRow /\ new \in LeadRow
    BY Zenon, <2>1 DEF Unmerged, Merged
  <2>3. lead'[l] = Flush(lead[l], old, new)
    BY ZenonT(40), <1>3, <1>5
  <2>4. /\ lead'[l] \in LeadRow
        /\ lead'[l].status = IF new.status # old.status THEN new.status ELSE lead[l].status
        /\ lead'[l].merged_into = IF new.merged_into # old.merged_into
                                    THEN new.merged_into ELSE lead[l].merged_into
        /\ lead'[l].deleted = IF new.deleted # old.deleted THEN new.deleted ELSE lead[l].deleted
    BY SMTT(40), <1>2, <2>2, <2>3, LeadFlush
  <2>5. lead'[l].deleted <=> lead'[l].merged_into # NoLead
    <3>1. lead[l].deleted <=> lead[l].merged_into # NoLead
      BY Zenon DEF LeadInv, MergesAreKept
    <3>2. CASE Unmerged(new)
      <4>1. new.merged_into = old.merged_into /\ ~new.deleted /\ ~old.deleted
        BY Zenon, <2>1, <3>2 DEF Unmerged
      <4>2. new.deleted = old.deleted
        BY Zenon, <2>2, <4>1 DEF LeadRow
      <4> QED
        BY Zenon, <2>4, <3>1, <4>1, <4>2
    <3>3. CASE Merged(new)
      BY Zenon, <2>1, <2>4, <3>3, LeadAssumption DEF Unmerged, Merged
    <3> QED
      BY Zenon, <2>1, <3>2, <3>3
  <2> QED
    BY Zenon, <1>1, <1>5, <2>1, <2>4, <2>5
<1> QED
  BY Zenon, <1>4, <1>5

(* A commit flushes the columns that the request changed and outdates the   *)
(* requests that had loaded the same leads.                                 *)
LEMMA CommitLeadStep ==
  ASSUME LeadInv, NEW q \in LeadRequests, CommitLead(q)
  PROVE  LeadInv'
<1> DEFINE r == leadReq[q]
<1>1. /\ lead' = Commit(lead, r) /\ tainted' = tainted \cup r.stale /\ converts' = converts
      /\ leadReq' = [p \in LeadRequests |->
                       IF p = q \/ NoRequest(p) THEN NoLead ELSE Outdate(leadReq[p], Dirty(r))]
      /\ LeadRequestOK(lead, r)
  BY Zenon DEF CommitLead, LeadInv, LeadRequestInv, NoRequest
<1>2. \A l \in Leads :
        /\ lead'[l] \in LeadRow
        /\ l \notin Dirty(r) => lead'[l] = lead[l]
        /\ lead'[l].deleted <=> lead'[l].merged_into # NoLead
        /\ l \in Dirty(r) \ r.stale =>
             /\ lead'[l].status = r.writes[l].new.status
             /\ lead'[l].merged_into = r.writes[l].new.merged_into
  BY Zenon, CommittedLead
<1>3. \A l \in Dirty(r) :
        /\ l \in Leads /\ Unmerged(r.writes[l].old)
        /\ \/ Unmerged(r.writes[l].new)
           \/ /\ Merged(r.writes[l].new)
              /\ LET s == r.writes[l].new.merged_into
                 IN  s \in Dirty(r) /\ r.writes[s].new = r.writes[s].old
  BY Zenon, <1>1 DEF LeadRequestOK, SoundWrites
<1>4. lead' \in [Leads -> LeadRow]
  <2>1. DOMAIN lead' = Leads
    BY Zenon, <1>1 DEF Commit, LeadInv
  <2>2. lead' = [l \in Leads |-> lead'[l]]
    BY Zenon, <1>1, <2>1 DEF Commit
  <2> QED
    BY Zenon, <1>2, <2>2
<1>5. tainted' \subseteq Leads
  BY Zenon, <1>1, <1>3 DEF LeadRequestOK, LeadInv
<1>6. LeadRequestInv'
  BY Zenon, <1>1, <1>2, LeadOutdated, LeadRequestNext DEF LeadInv, LeadRequestInv, NoRequest
<1>7. \A l \in Leads \ tainted' : lead'[l].merged_into # NoLead => lead'[l].status = "archived"
  <2> TAKE l \in Leads \ tainted'
  <2>1. l \notin tainted /\ l \notin r.stale
    BY Zenon, <1>1
  <2>2. CASE l \in Dirty(r)
    <3>1. /\ lead'[l].status = r.writes[l].new.status
          /\ lead'[l].merged_into = r.writes[l].new.merged_into
      BY Zenon, <1>2, <2>1, <2>2
    <3>2. Unmerged(r.writes[l].new) \/ Merged(r.writes[l].new)
      BY Zenon, <1>3, <2>2
    <3> QED
      BY Zenon, <3>1, <3>2 DEF Unmerged, Merged
  <2>3. CASE l \notin Dirty(r)
    BY Zenon, <1>2, <2>1, <2>3 DEF LeadInv, MergesAreKept, SoundLeads
  <2> QED
    BY Zenon, <2>2, <2>3
<1>8. ASSUME NEW circle \in SUBSET (Leads \ tainted'), circle # {},
             \A l \in circle : lead'[l].merged_into \in circle
      PROVE  FALSE
  <2>1. \A l \in circle : l \in Leads /\ l \notin r.stale /\ l \notin tainted
    BY Zenon, <1>1
  <2>2. NoLead \notin circle
    BY Zenon, LeadAssumption
  <2>3. \A l \in circle \cap Dirty(r) : ~Merged(r.writes[l].new)
    <3> SUFFICES ASSUME NEW l \in circle \cap Dirty(r), Merged(r.writes[l].new) PROVE FALSE
      BY Zenon
    <3> DEFINE s == r.writes[l].new.merged_into
    <3>1. s \in Dirty(r) /\ r.writes[s].new = r.writes[s].old /\ Unmerged(r.writes[s].old)
      BY Zenon, <1>3 DEF Unmerged, Merged
    <3>2. lead'[l].merged_into = s
      BY Zenon, <1>2, <2>1
    <3>3. s \in circle
      BY Zenon, <1>8, <3>2
    <3>4. lead'[s].merged_into = NoLead
      BY ZenonT(40), <1>2, <2>1, <3>1, <3>3 DEF Unmerged
    <3> QED
      BY Zenon, <1>8, <2>2, <3>3, <3>4
  <2>4. \A l \in circle : l \notin Dirty(r)
    <3> SUFFICES ASSUME NEW l \in circle, l \in Dirty(r) PROVE FALSE
      BY Zenon
    <3>1. Unmerged(r.writes[l].new)
      BY Zenon, <1>3, <2>3
    <3>2. lead'[l].merged_into = NoLead
      BY Zenon, <1>2, <2>1, <3>1 DEF Unmerged
    <3> QED
      BY Zenon, <1>8, <2>2, <3>2
  <2>5. \A l \in circle : lead[l].merged_into \in circle
    BY Zenon, <1>2, <1>8, <2>1, <2>4
  <2>6. circle \in (SUBSET SoundLeads) \ {{}}
    BY Zenon, <1>8, <2>1 DEF SoundLeads
  <2> QED
    BY Zenon, <2>5, <2>6 DEF LeadInv, MergesAreKept
<1>9. MergesAreKept'
  BY Zenon, <1>2, <1>7, <1>8 DEF MergesAreKept, SoundLeads
<1> QED
  BY Zenon, <1>1, <1>4, <1>5, <1>6, <1>9 DEF LeadInv

-----------------------------------------------------------------------------

(* LeadInv is inductive.                                                    *)
LEMMA LeadInit_Inv == LeadInit => LeadInv
<1> SUFFICES ASSUME LeadInit PROVE LeadInv
  OBVIOUS
<1>1. NewLead \in LeadRow /\ NewLead.merged_into = NoLead /\ NewLead.deleted = FALSE
  BY LeadAssumption DEF NewLead, LeadRow, LeadStatus
<1>2. /\ lead \in [Leads -> LeadRow]
      /\ \A l \in Leads : lead[l].merged_into = NoLead /\ lead[l].deleted = FALSE
  BY Zenon, <1>1 DEF LeadInit
<1>3. tainted \subseteq Leads /\ converts \in 0..MaxConverts
  BY LeadAssumption DEF LeadInit
<1>4. LeadRequestInv
  BY Zenon DEF LeadInit, LeadRequestInv
<1>5. NoLead \notin Leads
  BY Zenon, LeadAssumption
<1>6. ASSUME NEW circle \in (SUBSET SoundLeads) \ {{}}
      PROVE  \E l \in circle : lead[l].merged_into \notin circle
  <2>1. PICK l \in circle : TRUE
    BY Zenon
  <2>2. circle \subseteq Leads
    BY Zenon DEF SoundLeads
  <2> QED
    BY ZenonT(40), <1>2, <1>5, <2>1, <2>2
<1>7. MergesAreKept
  BY Zenon, <1>2, <1>6 DEF MergesAreKept, SoundLeads
<1> QED
  BY Zenon, <1>2, <1>3, <1>4, <1>7 DEF LeadInv

(* Every step preserves LeadInv.                                            *)
LEMMA LeadNext_Inv == LeadInv /\ [LeadNext]_leadVars => LeadInv'
<1> SUFFICES ASSUME LeadInv, [LeadNext]_leadVars PROVE LeadInv'
  OBVIOUS
<1>1. ASSUME NEW q \in LeadRequests, LeadRoutes(q) PROVE LeadInv'
  BY Zenon, <1>1, LeadLoads, MergeLoserStep DEF LeadRoutes
<1>2. ASSUME NEW q \in LeadRequests, CommitLead(q) PROVE LeadInv'
  BY Zenon, <1>2, CommitLeadStep
<1>3. ASSUME NEW q \in LeadRequests, RollBackLead(q) PROVE LeadInv'
  BY Zenon, <1>3, RollBackLeadStep
<1>4. ASSUME NEW rows \in SUBSET Leads, NEW to \in PatchTargets, bulk_update(rows, to)
      PROVE  LeadInv'
  BY Zenon, <1>4, BulkUpdateStep
<1>5. ASSUME UNCHANGED leadVars PROVE LeadInv'
  <2>1. lead' = lead /\ leadReq' = leadReq /\ tainted' = tainted /\ converts' = converts
    BY Zenon, <1>5 DEF leadVars
  <2>2. LeadRequestInv'
    BY Zenon, <2>1, LeadRequestNext DEF LeadInv, LeadRequestInv
  <2> QED
    BY Zenon, <2>1, <2>2 DEF LeadInv, MergesAreKept, SoundLeads
<1> QED
  BY Zenon, <1>1, <1>2, <1>3, <1>4, <1>5 DEF LeadNext

(* LeadInv holds throughout: rows are rows, a request loads leads that are  *)
(* not merged, and what it loaded is what is stored unless another commit   *)
(* has outdated it.                                                         *)
THEOREM LeadsInvariant == LeadSpec => []LeadInv
<1> QED
  BY LeadInit_Inv, LeadNext_Inv, PTL DEF LeadSpec

(* For any leads and any number of requests and bulk updates in flight: a   *)
(* merge, once committed, is kept. The loser stays archived, deleted and    *)
(* pointing to a lead, and the survivor that merge_leads read is not itself *)
(* merged away, but where a request wrote from an outdated load.            *)
THEOREM MergesKept == LeadSpec => []MergesAreKept
<1>1. LeadInv => MergesAreKept
  BY Zenon DEF LeadInv
<1> QED
  BY <1>1, LeadsInvariant, PTL

(* No step takes a lead out of converted, unless it taints the lead.        *)
LEMMA ConvertedStays ==
  ASSUME LeadInv, LeadNext, NEW l \in Leads, lead[l].status = "converted", l \notin tainted'
  PROVE  lead'[l].status = "converted"
<1>1. CASE lead' = lead
  BY Zenon, <1>1
<1>2. ASSUME NEW q \in LeadRequests, CommitLead(q) PROVE lead'[l].status = "converted"
  <2> DEFINE r == leadReq[q]
  <2>1. /\ LeadRequestOK(lead, r) /\ (l \notin Dirty(r) => lead'[l] = lead[l])
        /\ l \in Dirty(r) \ r.stale => lead'[l].status = r.writes[l].new.status
        /\ tainted' = tainted \cup r.stale
    BY Zenon, <1>2, CommittedLead DEF CommitLead
  <2>2. l \in Dirty(r) \ r.stale => r.writes[l].new.status = "converted"
    BY Zenon, <2>1 DEF LeadRequestOK, SoundWrites, FreshLoads
  <2> QED
    BY Zenon, <2>1, <2>2
<1>3. ASSUME NEW rows \in SUBSET Leads, NEW to \in PatchTargets, bulk_update(rows, to)
      PROVE  lead'[l].status = "converted"
  <2>1. lead[l] \in LeadRow /\ to \in LeadStatus
    BY Zenon, StoredLead, LeadAssumption
  <2>2. /\ lead'[l] = IF l \in rows THEN [lead[l] EXCEPT !.status = to] ELSE lead[l]
        /\ l \in rows => assert_transition(lead[l].status, to, TRUE)
    BY Zenon, <1>3 DEF bulk_update
  <2>3. l \in rows => to = "converted"
    BY <2>2 DEF assert_transition, ALLOWED_TRANSITIONS
  <2>4. [lead[l] EXCEPT !.status = to].status = to
    BY Zenon, <2>1, LeadEdits
  <2> QED
    BY Zenon, <2>2, <2>3, <2>4
<1>4. ASSUME NEW q \in LeadRequests, LeadRoutes(q) \/ RollBackLead(q) PROVE lead' = lead
  BY Zenon, <1>4 DEF LeadRoutes, UpdateLead, ConvertLead, disqualify_lead, restore_lead, merge_leads,
                     MergeLoser, LoadLead, RollBackLead
<1> QED
  BY Zenon, <1>1, <1>2, <1>3, <1>4 DEF LeadNext

(* No step takes a lead out of "converted" unless it wrote from an outdated *)
(* load (convert, move and bulk_update check the status they loaded,        *)
(* without a lock).                                                         *)
THEOREM ConvertedFinal == LeadSpec => ConvertedIsFinal
<1> DEFINE Stays == \A l \in Leads :
             lead[l].status = "converted" /\ l \notin tainted' => lead'[l].status = "converted"
<1>1. LeadInv /\ [LeadNext]_leadVars => [Stays]_leadVars
  BY Zenon, ConvertedStays
<1> QED
  BY <1>1, LeadsInvariant, PTL DEF LeadSpec, ConvertedIsFinal

-----------------------------------------------------------------------------
(* Appointments.                                                            *)

(* The flush of an appointment writes the columns that were changed.        *)
LEMMA ApptFlush ==
  ASSUME NEW row \in ApptRow, NEW old \in ApptRow, NEW new \in ApptRow,
         NEW out, out = Flush(row, old, new)
  PROVE  /\ out \in ApptRow
         /\ new.exists = old.exists => out.exists = row.exists
         /\ out.status = IF new.status # old.status THEN new.status ELSE row.status
         /\ row = old => out = new
<1>1. DOMAIN row = {"exists", "start", "len", "status"}
  BY Zenon DEF ApptRow
<1>2. out = [f \in {"exists", "start", "len", "status"} |->
               IF new[f] # old[f] THEN new[f] ELSE row[f]]
  BY Zenon, <1>1 DEF Flush
<1>3. /\ out.exists = IF new.exists # old.exists THEN new.exists ELSE row.exists
      /\ out.start = IF new.start # old.start THEN new.start ELSE row.start
      /\ out.len = IF new.len # old.len THEN new.len ELSE row.len
      /\ out.status = IF new.status # old.status THEN new.status ELSE row.status
  BY Zenon, <1>2
<1>4. out = [exists |-> out.exists, start |-> out.start, len |-> out.len, status |-> out.status]
  BY Zenon, <1>2
<1>5. new = [exists |-> new.exists, start |-> new.start, len |-> new.len, status |-> new.status]
  BY Zenon DEF ApptRow
<1>6. /\ out.exists \in BOOLEAN /\ out.start \in Starts /\ out.len \in Lengths
      /\ out.status \in ApptStatus
  BY Zenon, <1>3 DEF ApptRow
<1>7. out \in ApptRow
  BY Zenon, <1>4, <1>6 DEF ApptRow
<1>8. row = old => out = new
  BY Zenon, <1>3, <1>4, <1>5
<1> QED
  BY Zenon, <1>3, <1>7, <1>8

(* What a request has loaded and will set; a reschedule that is not         *)
(* outdated has read the lock that is held.                                 *)
ApptWriteOK(r) ==
  LET old == r.writes[r.appt].old
      new == r.writes[r.appt].new
  IN  /\ old \in ApptRow /\ new \in ApptRow /\ old.exists /\ new.exists
      /\ \/ /\ r.op \in {"find lock", "reschedule"}
            /\ old.status = "scheduled" /\ new.status = "scheduled"
         \/ r.op = "cancel" /\ old.status # "cancelled" /\ new.status = "cancelled"
         \/ r.op = "outcome" /\ new.status \in {"completed", "no_show"}

ApptFresh(table, locks, r) ==
  /\ table[r.appt] = r.writes[r.appt].old
  /\ r.op = "reschedule" => r.lock = locks[r.appt]

ApptRequestOK(table, locks, r) ==
  /\ Shaped(r) /\ DOMAIN r = {"op", "appt", "lock", "stale", "writes"}
  /\ r.appt \in ApptIds /\ Dirty(r) = {r.appt} /\ r.stale \subseteq {r.appt}
  /\ table[r.appt].exists
  /\ ApptWriteOK(r)
  /\ r.appt \notin r.stale => ApptFresh(table, locks, r)

ApptRequestInv ==
  /\ DOMAIN apptReq = ApptRequests
  /\ \A q \in ApptRequests : apptReq[q] # NoAppt => ApptRequestOK(appt, slot_locks, apptReq[q])

(* An appointment and its lock.                                             *)
Held(row, lock) ==
  /\ row.exists /\ row.status = "scheduled" => lock # NoAppt
  /\ row.status = "cancelled" => lock = NoAppt
  /\ ~row.exists => lock = NoAppt
  /\ lock # NoAppt => lock \in SlotLock

InSlot(row, lock) ==
  row.exists /\ row.status = "scheduled" => lock.start = row.start /\ lock.len = row.len

ApptRowsInv ==
  /\ appt \in [ApptIds -> ApptRow] /\ DOMAIN slot_locks = ApptIds
  /\ apptTaint \subseteq ApptIds
  /\ resource_slot(slot_locks)
  /\ \A a \in ApptIds : Held(appt[a], slot_locks[a])
  /\ \A a \in ApptIds \ apptTaint : InSlot(appt[a], slot_locks[a])

ApptInv == ApptRowsInv /\ ApptRequestInv

(* The invariant, after a step.                                             *)
LEMMA ApptInvNext ==
  ASSUME ApptRowsInv', DOMAIN apptReq' = ApptRequests,
         \A q \in ApptRequests :
           apptReq'[q] # NoAppt => ApptRequestOK(appt', slot_locks', apptReq'[q])
  PROVE  ApptInv'
BY Zenon DEF ApptInv, ApptRequestInv, ApptRequestOK, ApptWriteOK, ApptFresh, Shaped, Dirty, ApptRow,
             ApptStatus

(* A step that writes no row and no lock keeps the invariant of the rows.   *)
LEMMA ApptRowsSame ==
  ASSUME ApptInv, appt' = appt, slot_locks' = slot_locks, apptTaint' = apptTaint
  PROVE  ApptRowsInv'
BY ZenonT(40) DEF ApptInv, ApptRowsInv, Held, InSlot, resource_slot, SlotLock, ApptRow, ApptStatus

(* A request begins, or goes on.                                            *)
LEMMA ApptRequestStep ==
  ASSUME ApptInv, NEW q \in ApptRequests, NEW r, apptReq' = [apptReq EXCEPT ![q] = r],
         appt' = appt, slot_locks' = slot_locks, apptTaint' = apptTaint,
         r # NoAppt => ApptRequestOK(appt, slot_locks, r)
  PROVE  ApptInv'
<1>1. /\ DOMAIN apptReq' = ApptRequests /\ apptReq'[q] = r
      /\ \A p \in ApptRequests \ {q} : apptReq'[p] = apptReq[p]
  BY Zenon DEF ApptInv, ApptRequestInv
<1> QED
  BY Zenon, <1>1, ApptRowsSame, ApptInvNext DEF ApptInv, ApptRequestInv

(* A request loads an appointment and decides what to set.                  *)
LEMMA LoadApptStep ==
  ASSUME ApptInv, NEW q \in ApptRequests, NEW a \in ApptIds, NEW op, NEW new \in ApptRow,
         LoadAppt(q, a, op, new), new.exists,
         \/ op = "find lock" /\ appt[a].status = "scheduled" /\ new.status = "scheduled"
         \/ op = "cancel" /\ appt[a].status # "cancelled" /\ new.status = "cancelled"
         \/ op = "outcome" /\ new.status \in {"completed", "no_show"}
  PROVE  ApptInv'
<1> DEFINE r == [op |-> op, appt |-> a, lock |-> NoAppt, stale |-> {},
                 writes |-> Write(a, appt[a], new)]
<1>1. /\ appt' = appt /\ slot_locks' = slot_locks /\ apptTaint' = apptTaint
      /\ apptReq' = [apptReq EXCEPT ![q] = r] /\ appt[a].exists
  BY Zenon DEF LoadAppt
<1>2. /\ r.op = op /\ r.appt = a /\ r.stale = {}
      /\ DOMAIN r = {"op", "appt", "lock", "stale", "writes"}
      /\ DOMAIN r.writes = {a} /\ r.writes[a].old = appt[a] /\ r.writes[a].new = new
  BY Zenon DEF Write
<1>3. appt[a] \in ApptRow
  BY Zenon DEF ApptInv, ApptRowsInv
<1> HIDE DEF r
<1>4. \/ op \in {"find lock", "reschedule"} /\ appt[a].status = "scheduled" /\ new.status = "scheduled"
      \/ op = "cancel" /\ appt[a].status # "cancelled" /\ new.status = "cancelled"
      \/ op = "outcome" /\ new.status \in {"completed", "no_show"}
  BY Zenon
<1>5. r.op # "reschedule"
  BY Zenon, <1>2
<1>6. ApptWriteOK(r)
  BY Zenon, <1>1, <1>2, <1>3, <1>4 DEF ApptWriteOK
<1>7. ApptRequestOK(appt, slot_locks, r)
  BY Zenon, <1>1, <1>2, <1>5, <1>6 DEF ApptRequestOK, ApptFresh, Shaped, Dirty
<1> QED
  BY Zenon, <1>1, <1>7, ApptRequestStep

(* The routes of an appointment that exists.                                *)
LEMMA ApptLoads ==
  ASSUME ApptInv, NEW q \in ApptRequests, NEW a \in ApptIds
  PROVE  /\ \A s \in Starts, l \in Lengths : reschedule(q, a, s, l) => ApptInv'
         /\ cancel(q, a) => ApptInv'
         /\ \A to \in {"completed", "no_show"} : record_outcome(q, a, to) => ApptInv'
<1>1. appt[a] \in ApptRow
  BY Zenon DEF ApptInv, ApptRowsInv
<1>2. ASSUME NEW s \in Starts, NEW l \in Lengths, reschedule(q, a, s, l)
      PROVE  ApptInv'
  <2> DEFINE new == [appt[a] EXCEPT !.start = s, !.len = l]
  <2>1. appt[a].status = "scheduled" /\ appt[a].exists /\ LoadAppt(q, a, "find lock", new)
    BY Zenon, <1>2 DEF reschedule, LoadAppt, OPEN_STATUSES
  <2>2. new \in ApptRow /\ new.exists = appt[a].exists /\ new.status = appt[a].status
    BY Zenon, <1>1 DEF ApptRow
  <2> HIDE DEF new
  <2> QED
    BY Zenon, <2>1, <2>2, LoadApptStep
<1>3. ASSUME NEW to \in {"cancelled", "completed", "no_show"}, NEW op,
             LoadAppt(q, a, op, [appt[a] EXCEPT !.status = to]),
             \/ op = "cancel" /\ appt[a].status # "cancelled" /\ to = "cancelled"
             \/ op = "outcome" /\ to \in {"completed", "no_show"}
      PROVE  ApptInv'
  <2> DEFINE new == [appt[a] EXCEPT !.status = to]
  <2>1. appt[a].exists /\ LoadAppt(q, a, op, new)
    BY Zenon, <1>3 DEF LoadAppt
  <2>2. new \in ApptRow /\ new.exists = appt[a].exists /\ new.status = to
    BY Zenon, <1>1 DEF ApptRow, ApptStatus
  <2> HIDE DEF new
  <2> QED
    BY Zenon, <1>3, <2>1, <2>2, LoadApptStep
<1>4. ASSUME cancel(q, a) PROVE ApptInv'
  <2>1. appt[a].status # "cancelled"
        /\ LoadAppt(q, a, "cancel", [appt[a] EXCEPT !.status = "cancelled"])
    BY Zenon, <1>4 DEF cancel
  <2> QED
    BY Zenon, <1>3, <2>1
<1>5. ASSUME NEW to \in {"completed", "no_show"}, record_outcome(q, a, to) PROVE ApptInv'
  <2>1. LoadAppt(q, a, "outcome", [appt[a] EXCEPT !.status = to])
    BY Zenon, <1>5 DEF record_outcome
  <2> QED
    BY Zenon, <1>3, <2>1
<1> QED
  BY Zenon, <1>2, <1>4, <1>5

(* reschedule goes on to read the lock.                                     *)
LEMMA FindLockStep ==
  ASSUME ApptInv, NEW q \in ApptRequests, FindLock(q)
  PROVE  ApptInv'
<1> DEFINE r == apptReq[q]
           f == [r EXCEPT !.op = "reschedule", !.lock = slot_locks[r.appt]]
<1>1. /\ appt' = appt /\ slot_locks' = slot_locks /\ apptTaint' = apptTaint
      /\ r.op = "find lock" /\ ApptRequestOK(appt, slot_locks, r)
      /\ apptReq' = [apptReq EXCEPT ![q].op = "reschedule", ![q].lock = slot_locks[apptReq[q].appt]]
  BY Zenon DEF FindLock, ApptInv, ApptRequestInv
<1>2. DOMAIN r = {"op", "appt", "lock", "stale", "writes"}
  BY Zenon, <1>1 DEF ApptRequestOK
<1>3. /\ f.op = "reschedule" /\ f.lock = slot_locks[r.appt] /\ f.appt = r.appt /\ f.stale = r.stale
      /\ f.writes = r.writes /\ DOMAIN f = DOMAIN r
  BY Zenon, <1>2
<1>4. apptReq' = [apptReq EXCEPT ![q] = f]
  BY Zenon, <1>1, <1>2
<1> HIDE DEF f
<1>5. ApptWriteOK(f)
  <2>1. r.op # "cancel" /\ r.op # "outcome"
    BY Zenon, <1>1
  <2> QED
    BY Zenon, <1>1, <1>3, <2>1 DEF ApptRequestOK, ApptWriteOK
<1>6. ApptRequestOK(appt, slot_locks, f)
  BY Zenon, <1>1, <1>3, <1>5 DEF ApptRequestOK, ApptFresh, Shaped, Dirty
<1> QED
  BY Zenon, <1>1, <1>4, <1>6, ApptRequestStep

(* An appointment and its lock are inserted for an id no request has.       *)
LEMMA InsertStep ==
  ASSUME ApptInv, NEW a \in ApptIds, NEW s \in Starts, NEW l \in Lengths, NEW i \in SlotIndexes,
         Insert(a, s, l, i)
  PROVE  ApptInv'
<1> DEFINE row == [exists |-> TRUE, start |-> s, len |-> l, status |-> "scheduled"]
           lock == [start |-> s, len |-> l, slot_index |-> i]
<1>1. /\ ~appt[a].exists /\ appt' = [appt EXCEPT ![a] = row]
      /\ slot_locks' = [slot_locks EXCEPT ![a] = lock]
      /\ apptReq' = apptReq /\ apptTaint' = apptTaint
  BY Zenon DEF Insert
<1>2. row \in ApptRow /\ lock \in SlotLock
  BY Zenon DEF ApptRow, ApptStatus, SlotLock
<1>3. lock # NoAppt
  BY Zenon, <1>2, ApptAssumption
<1>4. /\ row.exists = TRUE /\ row.status = "scheduled" /\ row.start = lock.start /\ row.len = lock.len
  BY Zenon
<1>5. "scheduled" # "cancelled"
  OBVIOUS
<1> HIDE DEF row, lock
<1>6. Held(row, lock) /\ InSlot(row, lock)
  BY Zenon, <1>2, <1>3, <1>4, <1>5 DEF Held, InSlot
<1>7. /\ appt \in [ApptIds -> ApptRow] /\ DOMAIN slot_locks = ApptIds /\ apptTaint \subseteq ApptIds
      /\ \A b \in ApptIds : Held(appt[b], slot_locks[b])
      /\ \A b \in ApptIds \ apptTaint : InSlot(appt[b], slot_locks[b])
  BY Zenon DEF ApptInv, ApptRowsInv
<1>8. /\ appt' \in [ApptIds -> ApptRow] /\ DOMAIN slot_locks' = ApptIds
      /\ appt'[a] = row /\ slot_locks'[a] = lock
      /\ \A b \in ApptIds \ {a} : appt'[b] = appt[b] /\ slot_locks'[b] = slot_locks[b]
  BY Zenon, <1>1, <1>2, <1>7
<1>9. resource_slot(slot_locks')
  BY Zenon DEF Insert
<1>10. \A b \in ApptIds : Held(appt'[b], slot_locks'[b])
  BY Zenon, <1>6, <1>7, <1>8
<1>11. \A b \in ApptIds \ apptTaint' : InSlot(appt'[b], slot_locks'[b])
  BY Zenon, <1>1, <1>6, <1>7, <1>8
<1>12. ApptRowsInv'
  BY Zenon, <1>1, <1>7, <1>8, <1>9, <1>10, <1>11
     DEF ApptRowsInv, Held, InSlot, resource_slot, ApptRow, ApptStatus, SlotLock
<1>13. \A q \in ApptRequests : apptReq[q] # NoAppt => ApptRequestOK(appt', slot_locks', apptReq[q])
  <2> SUFFICES ASSUME NEW q \in ApptRequests, apptReq[q] # NoAppt
               PROVE  ApptRequestOK(appt', slot_locks', apptReq[q])
    BY Zenon
  <2>1. ApptRequestOK(appt, slot_locks, apptReq[q])
    BY Zenon DEF ApptInv, ApptRequestInv
  <2>2. apptReq[q].appt \in ApptIds \ {a}
    BY Zenon, <1>1, <2>1 DEF ApptRequestOK
  <2> QED
    BY Zenon, <1>8, <2>1, <2>2 DEF ApptRequestOK, ApptFresh
<1> QED
  BY Zenon, <1>1, <1>12, <1>13, ApptInvNext DEF ApptInv, ApptRequestInv

(* The locks after a commit.                                                *)
LEMMA MovedLock ==
  ASSUME ApptInv, NEW r, ApptRequestOK(appt, slot_locks, r)
  PROVE  LET a == r.appt
             new == r.writes[a].new
             locks == MovedLocks(r)
         IN  /\ DOMAIN locks = ApptIds
             /\ \A b \in ApptIds \ {a} : locks[b] = slot_locks[b]
             /\ r.op = "cancel" => locks[a] = NoAppt
             /\ r.op = "outcome" => locks[a] = slot_locks[a]
             /\ r.op = "reschedule" =>
                  /\ slot_locks[a] = NoAppt => locks[a] = NoAppt
                  /\ slot_locks[a] # NoAppt =>
                       /\ locks[a] \in SlotLock
                       /\ r.lock = slot_locks[a] => locks[a].start = new.start /\ locks[a].len = new.len
<1> DEFINE a == r.appt
           new == r.writes[a].new
           lock == slot_locks[a]
           moved == [start |-> IF r.lock.start # new.start THEN new.start ELSE lock.start,
                     len |-> IF r.lock.len # new.len THEN new.len ELSE lock.len,
                     slot_index |-> lock.slot_index]
           dirty == r.lock # NoAppt /\ (r.lock.start # new.start \/ r.lock.len # new.len)
           locks == MovedLocks(r)
<1>1. /\ a \in ApptIds /\ DOMAIN slot_locks = ApptIds /\ new \in ApptRow
      /\ lock # NoAppt => lock \in SlotLock
  BY Zenon DEF ApptRequestOK, ApptWriteOK, ApptInv, ApptRowsInv, Held
<1>2. CASE r.op = "cancel"
  <2>1. locks = [slot_locks EXCEPT ![a] = NoAppt] /\ r.op # "outcome" /\ r.op # "reschedule"
    BY Zenon, <1>2 DEF MovedLocks
  <2> QED
    BY Zenon, <1>1, <2>1
<1>3. CASE r.op = "reschedule" /\ dirty /\ lock # NoAppt
  <2>1. locks = [slot_locks EXCEPT ![a] = moved] /\ r.op # "outcome" /\ r.op # "cancel"
    BY Zenon, <1>3 DEF MovedLocks
  <2>2. /\ moved.start = (IF r.lock.start # new.start THEN new.start ELSE lock.start)
        /\ moved.len = (IF r.lock.len # new.len THEN new.len ELSE lock.len)
    BY Zenon
  <2>3. moved \in SlotLock
    BY Zenon, <1>1, <1>3 DEF SlotLock, ApptRow
  <2>4. r.lock = lock => moved.start = new.start /\ moved.len = new.len
    BY Zenon, <2>2
  <2> HIDE DEF moved
  <2>5. locks[a] = moved /\ DOMAIN locks = ApptIds /\ \A b \in ApptIds \ {a} : locks[b] = slot_locks[b]
    BY Zenon, <1>1, <2>1
  <2> QED
    BY Zenon, <1>3, <2>1, <2>3, <2>4, <2>5
<1>4. CASE r.op # "cancel" /\ ~(r.op = "reschedule" /\ dirty /\ lock # NoAppt)
  <2>1. locks = slot_locks
    BY Zenon, <1>4 DEF MovedLocks
  <2>2. r.op = "reschedule" /\ lock # NoAppt /\ r.lock = lock => lock.start = new.start /\ lock.len = new.len
    BY Zenon, <1>4
  <2> QED
    BY Zenon, <1>1, <1>4, <2>1, <2>2
<1> QED
  BY Zenon, <1>2, <1>3, <1>4

(* The rows after a commit.                                                 *)
LEMMA CommittedRows ==
  ASSUME appt \in [ApptIds -> ApptRow], NEW r, NEW a \in ApptIds, Dirty(r) = {a},
         r.writes[a].old \in ApptRow, r.writes[a].new \in ApptRow
  PROVE  LET old == r.writes[a].old
             new == r.writes[a].new
             rows == Commit(appt, r)
         IN  /\ rows \in [ApptIds -> ApptRow]
             /\ \A b \in ApptIds \ {a} : rows[b] = appt[b]
             /\ new.exists = old.exists => rows[a].exists = appt[a].exists
             /\ rows[a].status = IF new.status # old.status THEN new.status ELSE appt[a].status
             /\ appt[a] = old => rows[a] = new
<1> DEFINE old == r.writes[a].old
           new == r.writes[a].new
<1> DEFINE rows == Commit(appt, r)
<1>1. rows = [b \in ApptIds |-> IF b \in Dirty(r)
                                  THEN Flush(appt[b], r.writes[b].old, r.writes[b].new) ELSE appt[b]]
  BY Zenon DEF Commit
<1> HIDE DEF rows
<1>2. /\ rows[a] = Flush(appt[a], old, new)
      /\ appt[a] \in ApptRow /\ old \in ApptRow /\ new \in ApptRow
  BY Zenon, <1>1
<1> HIDE DEF old, new
<1>3. /\ rows[a] \in ApptRow
      /\ new.exists = old.exists => rows[a].exists = appt[a].exists
      /\ rows[a].status = IF new.status # old.status THEN new.status ELSE appt[a].status
      /\ appt[a] = old => rows[a] = new
  BY <1>2, ApptFlush
<1>4. \A b \in ApptIds \ {a} : rows[b] = appt[b]
  BY Zenon, <1>1
<1>5. \A b \in ApptIds : rows[b] \in ApptRow
  BY Zenon, <1>3, <1>4
<1>6. rows \in [ApptIds -> ApptRow]
  BY Zenon, <1>1, <1>5
<1> QED
  BY Zenon, <1>3, <1>4, <1>6 DEF rows, old, new

(* A commit that is not refused, seen from its appointment.                 *)
LEMMA CommittedAppt ==
  ASSUME ApptInv, NEW r, ApptRequestOK(appt, slot_locks, r), r.op # "find lock"
  PROVE  LET a == r.appt
             rows == Commit(appt, r)
             lock == MovedLocks(r)[a]
         IN  /\ rows \in [ApptIds -> ApptRow]
             /\ \A b \in ApptIds \ {a} : rows[b] = appt[b]
             /\ rows[a].exists
             /\ Held(rows[a], lock)
             /\ a \notin r.stale => InSlot(rows[a], lock)
<1> DEFINE a == r.appt
           old == r.writes[a].old
           new == r.writes[a].new
           lock == MovedLocks(r)[a]
           rows == Commit(appt, r)
           out == rows[a]
<1>1. /\ a \in ApptIds /\ Dirty(r) = {a} /\ appt[a].exists /\ old \in ApptRow /\ new \in ApptRow
      /\ old.exists /\ new.exists /\ appt \in [ApptIds -> ApptRow]
      /\ a \notin r.stale => appt[a] = old /\ (r.op = "reschedule" => r.lock = slot_locks[a])
  BY Zenon DEF ApptRequestOK, ApptWriteOK, ApptFresh, ApptInv, ApptRowsInv
<1>2. Held(appt[a], slot_locks[a])
  BY Zenon, <1>1 DEF ApptInv, ApptRowsInv
<1>3. /\ rows \in [ApptIds -> ApptRow]
      /\ \A b \in ApptIds \ {a} : rows[b] = appt[b]
      /\ new.exists = old.exists => out.exists = appt[a].exists
      /\ out.status = IF new.status # old.status THEN new.status ELSE appt[a].status
      /\ appt[a] = old => out = new
  BY Zenon, <1>1, CommittedRows
<1>6. out.exists
  <2>1. new.exists = old.exists
    BY Zenon, <1>1 DEF ApptRow
  <2> QED
    BY Zenon, <1>1, <1>3, <2>1
<1>7. /\ r.op = "cancel" => lock = NoAppt
      /\ r.op = "outcome" => lock = slot_locks[a]
      /\ r.op = "reschedule" =>
           /\ slot_locks[a] = NoAppt => lock = NoAppt
           /\ slot_locks[a] # NoAppt =>
                /\ lock \in SlotLock
                /\ r.lock = slot_locks[a] => lock.start = new.start /\ lock.len = new.len
  BY Zenon, MovedLock
<1> HIDE DEF out, lock, old, new, a, rows
<1>8. CASE r.op = "cancel"
  <2>1. out.status = "cancelled"
    BY Zenon, <1>3, <1>8 DEF ApptRequestOK, ApptWriteOK, old, new, a
  <2>2. out.status # "scheduled"
    BY Zenon, <2>1
  <2>3. Held(out, lock) /\ InSlot(out, lock)
    BY Zenon, <1>6, <1>7, <1>8, <2>1, <2>2 DEF Held, InSlot
  <2> QED
    BY Zenon, <1>3, <1>6, <2>3 DEF out, lock, a, rows
<1>9. CASE r.op = "outcome"
  <2>1. new.status \in {"completed", "no_show"}
    <3>1. r.op # "cancel" /\ r.op \notin {"find lock", "reschedule"}
      BY Zenon, <1>9
    <3> QED
      BY Zenon, <3>1 DEF ApptRequestOK, ApptWriteOK, new, a
  <2>2. new.status # "scheduled" /\ new.status # "cancelled"
    BY Zenon, <2>1
  <2>3. Held(out, lock)
    BY Zenon, <1>1, <1>2, <1>3, <1>6, <1>7, <1>9, <2>2 DEF Held
  <2>4. a \notin r.stale => InSlot(out, lock)
    BY Zenon, <1>1, <1>3, <2>2 DEF InSlot
  <2> QED
    BY Zenon, <1>3, <1>6, <2>3, <2>4 DEF out, lock, a, rows
<1>10. CASE r.op = "reschedule"
  <2>1. old.status = "scheduled" /\ new.status = "scheduled"
    <3>1. r.op # "cancel" /\ r.op # "outcome"
      BY Zenon, <1>10
    <3> QED
      BY Zenon, <3>1 DEF ApptRequestOK, ApptWriteOK, new, old, a
  <2>2. out.status = appt[a].status
    BY Zenon, <1>3, <2>1
  <2>3. lock # NoAppt => slot_locks[a] # NoAppt /\ lock \in SlotLock
    BY Zenon, <1>7, <1>10
  <2>4. slot_locks[a] # NoAppt => lock # NoAppt
    BY Zenon, <1>7, <1>10, ApptAssumption
  <2>5. Held(out, lock)
    BY Zenon, <1>1, <1>2, <1>6, <2>2, <2>3, <2>4 DEF Held
  <2>6. a \notin r.stale => InSlot(out, lock)
    BY Zenon, <1>1, <1>2, <1>3, <1>7, <1>10, <2>1 DEF InSlot, Held
  <2> QED
    BY Zenon, <1>3, <1>6, <2>5, <2>6 DEF out, lock, a, rows
<1>11. r.op \in {"cancel", "outcome", "reschedule"}
  BY Zenon DEF ApptRequestOK, ApptWriteOK
<1> QED
  BY Zenon, <1>8, <1>9, <1>10, <1>11

(* A commit writes the row, and the lock with it.                           *)
LEMMA CommitApptStep ==
  ASSUME ApptInv, NEW q \in ApptRequests, CommitAppt(q)
  PROVE  ApptInv'
<1> DEFINE r == apptReq[q]
           a == r.appt
<1>1. r.op # "find lock" /\ ApptRequestOK(appt, slot_locks, r)
  BY Zenon DEF CommitAppt, ApptInv, ApptRequestInv
<1>2. ASSUME apptReq' = [apptReq EXCEPT ![q] = NoAppt], appt' = appt, slot_locks' = slot_locks,
             apptTaint' = apptTaint
      PROVE  ApptInv'
  BY Zenon, <1>2, ApptRequestStep
<1>3. ASSUME resource_slot(MovedLocks(r)), appt' = Commit(appt, r), slot_locks' = MovedLocks(r),
             apptTaint' = apptTaint \cup r.stale,
             apptReq' = [p \in ApptRequests |->
               IF p = q \/ apptReq[p] = NoAppt THEN NoAppt ELSE Outdate(apptReq[p], {a})]
      PROVE  ApptInv'
  <2>1. /\ a \in ApptIds /\ r.stale \subseteq {a}
        /\ appt' \in [ApptIds -> ApptRow] /\ DOMAIN slot_locks' = ApptIds
        /\ \A b \in ApptIds \ {a} : appt'[b] = appt[b] /\ slot_locks'[b] = slot_locks[b]
        /\ appt'[a].exists
        /\ Held(appt'[a], slot_locks'[a])
        /\ a \notin r.stale => InSlot(appt'[a], slot_locks'[a])
    <3>1. /\ appt' \in [ApptIds -> ApptRow]
          /\ \A b \in ApptIds \ {a} : appt'[b] = appt[b]
          /\ appt'[a].exists
          /\ Held(appt'[a], slot_locks'[a])
          /\ a \notin r.stale => InSlot(appt'[a], slot_locks'[a])
      <4> DEFINE rows == Commit(appt, r)
                 lock == MovedLocks(r)[a]
      <4>1. /\ rows \in [ApptIds -> ApptRow]
            /\ \A b \in ApptIds \ {a} : rows[b] = appt[b]
            /\ rows[a].exists /\ Held(rows[a], lock)
            /\ a \notin r.stale => InSlot(rows[a], lock)
        BY Zenon, <1>1, CommittedAppt
      <4> QED
        BY Zenon, <1>3, <4>1
    <3>2. DOMAIN slot_locks' = ApptIds /\ \A b \in ApptIds \ {a} : slot_locks'[b] = slot_locks[b]
      BY Zenon, <1>1, <1>3, MovedLock
    <3>3. a \in ApptIds /\ r.stale \subseteq {a}
      BY Zenon, <1>1 DEF ApptRequestOK
    <3> QED
      BY Zenon, <3>1, <3>2, <3>3
  <2>2. \A b \in ApptIds : Held(appt'[b], slot_locks'[b])
    BY Zenon, <2>1 DEF ApptInv, ApptRowsInv
  <2>3. \A b \in ApptIds \ apptTaint' : InSlot(appt'[b], slot_locks'[b])
    BY Zenon, <1>3, <2>1 DEF ApptInv, ApptRowsInv
  <2>4. apptTaint' \subseteq ApptIds /\ resource_slot(slot_locks')
    BY Zenon, <1>3, <2>1 DEF ApptInv, ApptRowsInv
  <2>5. ApptRowsInv'
    BY Zenon, <2>1, <2>2, <2>3, <2>4
       DEF ApptRowsInv, Held, InSlot, resource_slot, ApptRow, ApptStatus, SlotLock
  <2>6. ASSUME NEW p \in ApptRequests, apptReq'[p] # NoAppt
        PROVE  ApptRequestOK(appt', slot_locks', apptReq'[p])
    <3> DEFINE o == Outdate(apptReq[p], {a})
    <3>1. apptReq[p] # NoAppt /\ apptReq'[p] = o
      BY Zenon, <1>3, <2>6
    <3>2. ApptRequestOK(appt, slot_locks, apptReq[p])
      BY Zenon, <3>1 DEF ApptInv, ApptRequestInv
    <3>3. Shaped(apptReq[p]) /\ DOMAIN apptReq[p] = {"op", "appt", "lock", "stale", "writes"}
      BY Zenon, <3>2 DEF ApptRequestOK
    <3>4. /\ Dirty(o) = Dirty(apptReq[p]) /\ o.writes = apptReq[p].writes /\ Shaped(o)
          /\ o.stale = apptReq[p].stale \cup ({a} \cap Dirty(apptReq[p]))
          /\ o.op = apptReq[p].op /\ o.appt = apptReq[p].appt /\ o.lock = apptReq[p].lock
          /\ DOMAIN o = {"op", "appt", "lock", "stale", "writes"}
      BY <3>3, OutdateHolds
    <3> HIDE DEF o
    <3>5. ApptWriteOK(o)
      BY Zenon, <3>2, <3>4 DEF ApptRequestOK, ApptWriteOK
    <3>6. /\ o.appt \in ApptIds /\ Dirty(o) = {o.appt} /\ o.stale \subseteq {o.appt}
          /\ appt[o.appt].exists
          /\ o.appt \notin o.stale => o.appt # a /\ ApptFresh(appt, slot_locks, o)
      BY Zenon, <3>2, <3>4 DEF ApptRequestOK, ApptFresh
    <3>7. appt'[o.appt].exists
      BY Zenon, <2>1, <3>6
    <3>8. o.appt \notin o.stale => ApptFresh(appt', slot_locks', o)
      BY Zenon, <2>1, <3>6 DEF ApptFresh
    <3> QED
      BY Zenon, <3>1, <3>4, <3>5, <3>6, <3>7, <3>8 DEF ApptRequestOK
  <2>7. DOMAIN apptReq' = ApptRequests
    BY Zenon, <1>3
  <2> QED
    BY Zenon, <2>5, <2>6, <2>7, ApptInvNext
<1> QED
  BY Zenon, <1>2, <1>3 DEF CommitAppt

-----------------------------------------------------------------------------

(* ApptInv is inductive.                                                    *)
LEMMA ApptInit_Inv == ApptInit => ApptInv
<1> SUFFICES ASSUME ApptInit PROVE ApptInv
  OBVIOUS
<1> DEFINE row == [exists |-> FALSE, start |-> CHOOSE s \in Starts : TRUE,
                   len |-> CHOOSE l \in Lengths : TRUE, status |-> "scheduled"]
<1>1. /\ appt = [a \in ApptIds |-> row] /\ slot_locks = [a \in ApptIds |-> NoAppt]
      /\ apptReq = [q \in ApptRequests |-> NoAppt] /\ apptTaint = {}
  BY Zenon DEF ApptInit
<1>2. (CHOOSE s \in Starts : TRUE) \in Starts /\ (CHOOSE l \in Lengths : TRUE) \in Lengths
  BY Zenon, ApptAssumption
<1>3. row \in ApptRow
  BY Zenon, <1>2 DEF ApptRow, ApptStatus
<1>4. row.exists = FALSE /\ row.status # "cancelled"
  BY Zenon
<1> HIDE DEF row
<1>5. appt \in [ApptIds -> ApptRow] /\ \A a \in ApptIds : appt[a] = row /\ slot_locks[a] = NoAppt
  BY Zenon, <1>1, <1>3
<1>6. ApptRowsInv
  BY Zenon, <1>1, <1>4, <1>5 DEF ApptRowsInv, Held, InSlot, resource_slot
<1> QED
  BY Zenon, <1>1, <1>6 DEF ApptInv, ApptRequestInv

(* Every step preserves ApptInv.                                            *)
LEMMA ApptNext_Inv == ApptInv /\ [ApptNext]_apptVars => ApptInv'
<1> SUFFICES ASSUME ApptInv, [ApptNext]_apptVars PROVE ApptInv'
  OBVIOUS
<1>1. ASSUME NEW q \in ApptRequests, AppointmentRoutes(q) PROVE ApptInv'
  <2>1. PICK a \in ApptIds :
          \/ \E s \in Starts, l \in Lengths : book(a, s, l) \/ reschedule(q, a, s, l)
          \/ cancel(q, a)
          \/ \E to \in {"completed", "no_show"} : record_outcome(q, a, to)
    BY Zenon, <1>1 DEF AppointmentRoutes
  <2>2. ASSUME NEW s \in Starts, NEW l \in Lengths, book(a, s, l) PROVE ApptInv'
    BY Zenon, <2>2, InsertStep, ApptAssumption DEF book
  <2> QED
    BY Zenon, <2>1, <2>2, ApptLoads
<1>2. ASSUME public_booking PROVE ApptInv'
  BY Zenon, <1>2, InsertStep DEF public_booking, claim_public_slot
<1>3. ASSUME ApptTick \/ UNCHANGED apptVars PROVE ApptInv'
  <2>1. /\ appt' = appt /\ slot_locks' = slot_locks /\ apptReq' = apptReq /\ apptTaint' = apptTaint
    BY Zenon, <1>3 DEF ApptTick, apptVars
  <2> QED
    BY Zenon, <2>1, ApptRowsSame, ApptInvNext DEF ApptInv, ApptRequestInv
<1> QED
  BY Zenon, <1>1, <1>2, <1>3, FindLockStep, CommitApptStep DEF ApptNext

(* ApptInv holds throughout.                                                *)
THEOREM AppointmentsInvariant == ApptSpec => []ApptInv
<1> QED
  BY ApptInit_Inv, ApptNext_Inv, PTL DEF ApptSpec

(* For any appointments, times and requests in flight: an open appointment  *)
(* holds a lock, on its own time unless a request wrote it from an outdated *)
(* load, a cancelled one holds none, and no two locks of a resource         *)
(* overlap.                                                                 *)
THEOREM SlotsAreHeld == ApptSpec => []HeldWhileOpen
<1>1. ApptInv => HeldWhileOpen
  <2> SUFFICES ASSUME ApptInv PROVE HeldWhileOpen
    OBVIOUS
  <2>1. \A a \in ApptIds : IsOpen(a) => appt[a].exists /\ appt[a].status = "scheduled"
    BY Zenon DEF IsOpen, OPEN_STATUSES
  <2>2. \A a \in ApptIds : /\ IsOpen(a) => slot_locks[a] # NoAppt
                           /\ appt[a].status = "cancelled" => slot_locks[a] = NoAppt
    BY Zenon, <2>1 DEF ApptInv, ApptRowsInv, Held
  <2>3. \A a, b \in ApptIds : /\ a # b /\ slot_locks[a] # NoAppt /\ slot_locks[b] # NoAppt
                              => \/ slot_locks[a].start # slot_locks[b].start
                                 \/ slot_locks[a].slot_index # slot_locks[b].slot_index
    BY Zenon DEF ApptInv, ApptRowsInv, resource_slot
  <2>4. \A a \in ApptIds \ apptTaint :
          IsOpen(a) => slot_locks[a].start = appt[a].start /\ slot_locks[a].len = appt[a].len
    BY Zenon, <2>1 DEF ApptInv, ApptRowsInv, InSlot
  <2> QED
    BY Zenon, <2>2, <2>3, <2>4 DEF HeldWhileOpen
<1> QED
  BY <1>1, AppointmentsInvariant, PTL

-----------------------------------------------------------------------------
(* WebhookDelivery: WebhookInv is inductive, and the action properties      *)
(* follow from it step by step.                                             *)

(* The initial tables satisfy the inductive invariant.                     *)
LEMMA InitEstablishes == Init => WebhookInv
<1> SUFFICES ASSUME Init PROVE WebhookInv
  OBVIOUS
<1>1. TypeOK
  BY Zenon DEF Init, TypeOK, Statuses
<1>2. HolderInv
  BY Zenon DEF Init, HolderInv, OneHolderPerAttempt, Busy
<1>3. DeliveredWasReceived /\ UnsettledIsScheduled
  BY Zenon DEF Init, DeliveredWasReceived, UnsettledIsScheduled
<1>4. DisabledAtThreshold
  BY WebhookAssumption DEF Init, DisabledAtThreshold
<1> QED
  BY Zenon, <1>1, <1>2, <1>3, <1>4 DEF WebhookInv

(* Inserting a row (handle_outbound_webhook) preserves the invariant.      *)
LEMMA InsertPreserves ==
  ASSUME WebhookInv, NEW d \in Deliveries, HandleOutboundWebhook(d)
  PROVE  WebhookInv'
<1> USE WebhookAssumption DEF WebhookInv, HandleOutboundWebhook, configVars, workerVars
<1>1. TypeOK'
  BY Zenon DEF TypeOK, Statuses
<1>2. HolderInv'
  BY Zenon DEF HolderInv, OneHolderPerAttempt, Busy
<1>3. DeliveredWasReceived' /\ UnsettledIsScheduled'
  BY Zenon DEF DeliveredWasReceived, UnsettledIsScheduled, TypeOK
<1>4. DisabledAtThreshold'
  BY Zenon DEF DisabledAtThreshold
<1> QED
  BY Zenon, <1>1, <1>2, <1>3, <1>4

(* The sweep only adds messages.                                           *)
LEMMA SweepPreserves ==
  ASSUME WebhookInv, SweepPendingDeliveries
  PROVE  WebhookInv'
<1> USE DEF WebhookInv, SweepPendingDeliveries, rowVars, configVars, workerVars
<1>1. TypeOK'
  BY DEF TypeOK
<1>2. HolderInv'
  BY Zenon DEF HolderInv, OneHolderPerAttempt, Busy
<1>3. DeliveredWasReceived' /\ UnsettledIsScheduled' /\ DisabledAtThreshold'
  BY Zenon DEF DeliveredWasReceived, UnsettledIsScheduled, DisabledAtThreshold
<1> QED
  BY Zenon, <1>1, <1>2, <1>3

(* A next_attempt_at that passes keeps its row scheduled.                  *)
LEMMA ClockPreserves ==
  ASSUME WebhookInv, NEW d \in Deliveries, ClockReaches(d)
  PROVE  WebhookInv'
<1> USE DEF WebhookInv, ClockReaches, configVars, workerVars
<1>1. TypeOK'
  BY Zenon DEF TypeOK
<1>2. HolderInv'
  BY Zenon DEF HolderInv, OneHolderPerAttempt, Busy
<1>3. DeliveredWasReceived' /\ UnsettledIsScheduled' /\ DisabledAtThreshold'
  BY Zenon DEF DeliveredWasReceived, UnsettledIsScheduled, DisabledAtThreshold, TypeOK
<1> QED
  BY Zenon, <1>1, <1>2, <1>3

(* The claim hands out an attempt number no worker holds: it is one above  *)
(* the row's counter, and every holder is at or below that counter.        *)
LEMMA DeliverPreserves ==
  ASSUME WebhookInv, NEW w \in Workers, NEW d \in Deliveries, Deliver(w, d)
  PROVE  WebhookInv'
<1>1. CASE ClaimRefused(w, d)
  <2> USE <1>1 DEF WebhookInv, ClaimRefused, Take, rowVars, configVars, workerVars
  <2>1. TypeOK'
    BY DEF TypeOK
  <2>2. HolderInv'
    BY Zenon DEF HolderInv, OneHolderPerAttempt, Busy
  <2>3. DeliveredWasReceived' /\ UnsettledIsScheduled' /\ DisabledAtThreshold'
    BY Zenon DEF DeliveredWasReceived, UnsettledIsScheduled, DisabledAtThreshold
  <2> QED
    BY Zenon, <2>1, <2>2, <2>3
<1>2. CASE ClaimInactive(w, d)
  <2> USE <1>2 DEF WebhookInv, ClaimInactive, Take, configVars, workerVars
  <2>1. TypeOK'
    BY DEF TypeOK, Statuses
  <2>2. HolderInv'
    BY Zenon DEF HolderInv, OneHolderPerAttempt, Busy
  <2>3. DeliveredWasReceived' /\ UnsettledIsScheduled' /\ DisabledAtThreshold'
    BY Zenon DEF DeliveredWasReceived, UnsettledIsScheduled, DisabledAtThreshold, TypeOK
  <2> QED
    BY Zenon, <2>1, <2>2, <2>3
<1>3. CASE Claim(w, d)
  <2> USE <1>3 DEF WebhookInv, Claim, Take, NextAttempt, configVars
  <2>1. TypeOK'
    BY DEF TypeOK, Statuses
  <2>2. OneHolderPerAttempt'
    <3> SUFFICES ASSUME NEW u \in Workers, NEW v \in Workers,
                        Busy(u)', Busy(v)', job'[u] = job'[v]
                 PROVE  /\ token'[v] <= attempts'[job'[v]]
                        /\ token'[u] = token'[v] => u = v
      BY Zenon DEF OneHolderPerAttempt
    <3>1. \A x \in Workers : x # w =>
            pc'[x] = pc[x] /\ job'[x] = job[x] /\ token'[x] = token[x]
      BY Zenon DEF TypeOK
    <3>2. /\ job'[w] = d /\ token'[w] = attempts[d] + 1
          /\ attempts'[d] = attempts[d] + 1 /\ attempts[d] \in Nat
          /\ \A e \in Deliveries : e # d => attempts'[e] = attempts[e]
      BY Zenon DEF TypeOK
    <3>3. \A x \in Workers : x # w /\ Busy(x)' =>
            job[x] \in Deliveries /\ token[x] \in Nat /\ token[x] <= attempts[job[x]]
      BY Zenon, <3>1 DEF HolderInv, OneHolderPerAttempt, Busy, TypeOK
    <3>4. CASE u = w \/ v = w
      BY <3>1, <3>2, <3>3, <3>4
    <3>5. CASE u # w /\ v # w
      BY <3>1, <3>2, <3>3, <3>5 DEF HolderInv, OneHolderPerAttempt, Busy, TypeOK
    <3> QED
      BY Zenon, <3>4, <3>5
  <2>3. HolderInv'
    BY Zenon, <2>2 DEF HolderInv, Busy, TypeOK
  <2>4. DeliveredWasReceived' /\ UnsettledIsScheduled' /\ DisabledAtThreshold'
    BY Zenon DEF DeliveredWasReceived, UnsettledIsScheduled, DisabledAtThreshold, TypeOK
  <2> QED
    BY Zenon, <2>1, <2>3, <2>4
<1> QED
  BY Zenon, <1>1, <1>2, <1>3 DEF Deliver

(* A post records its outcome; "delivered" only when the destination       *)
(* accepted.                                                               *)
LEMMA SendPreserves ==
  ASSUME WebhookInv, NEW w \in Workers, Send(w)
  PROVE  WebhookInv'
<1> USE DEF WebhookInv, rowVars, configVars
<1>1. PICK o \in Outcomes, a \in BOOLEAN :
        /\ o = "delivered" => a
        /\ outcome' = [outcome EXCEPT ![w] = o]
        /\ received' = [received EXCEPT ![job[w]] = @ \/ a]
  BY Zenon DEF Send
<1>2. /\ pc[w] = "sending" /\ pc' = [pc EXCEPT ![w] = "settling"]
      /\ UNCHANGED <<status, attempts, next, isActive, failureCount, queued, job, token, lost>>
  BY Zenon DEF Send
<1>3. job[w] \in Deliveries
  BY Zenon, <1>2 DEF HolderInv, Busy
<1>4. \A d \in Deliveries : received[d] => received'[d]
  BY <1>1, <1>3, Zenon DEF TypeOK
<1>5. received' \in [Deliveries -> BOOLEAN]
  BY Zenon, <1>1, <1>3 DEF TypeOK
<1>6. TypeOK'
  BY Zenon, <1>1, <1>2, <1>5 DEF TypeOK
<1>7. OneHolderPerAttempt'
  BY Zenon, <1>2 DEF HolderInv, OneHolderPerAttempt, Busy, TypeOK
<1>8. \A x \in Workers : Busy(x)' => Busy(x)
  BY Zenon, <1>2 DEF Busy, TypeOK
<1>9. \A x \in Workers :
        pc'[x] = "settling" /\ outcome'[x] = "delivered" => received'[job'[x]]
  <2> SUFFICES ASSUME NEW x \in Workers, pc'[x] = "settling", outcome'[x] = "delivered"
               PROVE  received'[job'[x]]
    OBVIOUS
  <2>1. CASE x = w
    <3>1. a
      BY Zenon, <1>1, <2>1 DEF TypeOK
    <3> QED
      BY Zenon, <1>1, <1>2, <1>3, <2>1, <3>1 DEF TypeOK
  <2>2. CASE x # w
    BY Zenon, <1>1, <1>2, <1>4, <1>8, <2>2 DEF HolderInv, Busy, TypeOK
  <2> QED
    BY Zenon, <2>1, <2>2
<1>10. HolderInv'
  BY Zenon, <1>2, <1>7, <1>8, <1>9 DEF HolderInv
<1>11. DeliveredWasReceived'
  BY Zenon, <1>2, <1>4 DEF DeliveredWasReceived
<1>12. UnsettledIsScheduled' /\ DisabledAtThreshold'
  BY Zenon, <1>2 DEF UnsettledIsScheduled, DisabledAtThreshold
<1> QED
  BY Zenon, <1>6, <1>10, <1>11, <1>12

(* A settlement frees its worker; the row keeps its invariants whether the *)
(* settlement is stale, successful or failed.                              *)
LEMMA SettlePreserves ==
  ASSUME WebhookInv, NEW w \in Workers, Settle(w)
  PROVE  WebhookInv'
<1> USE DEF WebhookInv, Free, rowVars
<1>1. pc[w] = "settling" /\ job[w] \in Deliveries /\ ConfigOf[job[w]] \in Configs
  BY Zenon, WebhookAssumption DEF Settle, SettleStale, SettleDelivered, SettleFailed, HolderInv, Busy
<1>2. /\ Free(w)
      /\ UNCHANGED <<attempts, received, queued, lost>>
  BY Zenon DEF Settle, SettleStale, SettleDelivered, SettleFailed
<1>3. HolderInv'
  BY Zenon, <1>2 DEF HolderInv, OneHolderPerAttempt, Busy, TypeOK
<1>4. CASE SettleStale(w)
  <2> USE <1>4 DEF SettleStale, configVars
  <2>1. TypeOK'
    BY <1>2 DEF TypeOK
  <2>2. DeliveredWasReceived' /\ UnsettledIsScheduled' /\ DisabledAtThreshold'
    BY Zenon DEF DeliveredWasReceived, UnsettledIsScheduled, DisabledAtThreshold
  <2> QED
    BY Zenon, <1>3, <2>1, <2>2
<1>5. CASE SettleDelivered(w)
  <2> USE <1>1, <1>5 DEF SettleDelivered
  <2>1. TypeOK'
    BY <1>2 DEF TypeOK, Statuses
  <2>2. DeliveredWasReceived'
    BY Zenon DEF DeliveredWasReceived, PostSucceeded, HolderInv, TypeOK
  <2>3. UnsettledIsScheduled'
    BY Zenon DEF UnsettledIsScheduled, TypeOK
  <2>4. DisabledAtThreshold'
    BY WebhookAssumption DEF DisabledAtThreshold, TypeOK
  <2> QED
    BY Zenon, <1>3, <2>1, <2>2, <2>3, <2>4
<1>6. CASE SettleFailed(w)
  <2> USE <1>1, <1>6 DEF SettleFailed, RetryAt
  <2>0. isActive' \in [Configs -> BOOLEAN]
    BY Zenon DEF TypeOK
  <2>1. TypeOK'
    BY <1>2, <2>0 DEF TypeOK, Statuses
  <2>2. DeliveredWasReceived'
    BY Zenon DEF DeliveredWasReceived, TypeOK
  <2>3. UnsettledIsScheduled'
    BY Zenon DEF UnsettledIsScheduled, TypeOK
  <2>4. DisabledAtThreshold'
    BY Zenon, WebhookAssumption DEF DisabledAtThreshold, Disables, TypeOK
  <2> QED
    BY Zenon, <1>3, <2>1, <2>2, <2>3, <2>4
<1> QED
  BY Zenon, <1>4, <1>5, <1>6 DEF Settle

(* A lost worker frees its slot and puts its message back.                 *)
LEMMA LossPreserves ==
  ASSUME WebhookInv, NEW w \in Workers, WorkerLost(w)
  PROVE  WebhookInv'
<1> USE DEF WebhookInv, WorkerLost, Free, rowVars, configVars
<1>1. job[w] \in Deliveries
  BY Zenon DEF HolderInv, Busy
<1>2. TypeOK'
  BY <1>1 DEF TypeOK
<1>3. HolderInv'
  BY Zenon DEF HolderInv, OneHolderPerAttempt, Busy, TypeOK
<1>4. DeliveredWasReceived' /\ UnsettledIsScheduled' /\ DisabledAtThreshold'
  BY Zenon DEF DeliveredWasReceived, UnsettledIsScheduled, DisabledAtThreshold
<1> QED
  BY Zenon, <1>2, <1>3, <1>4

(* WebhookInv is inductive.                                                *)
LEMMA StepPreserves == WebhookInv /\ [Next]_vars => WebhookInv'
<1> SUFFICES ASSUME WebhookInv, [Next]_vars PROVE WebhookInv'
  OBVIOUS
<1>1. CASE \E d \in Deliveries : HandleOutboundWebhook(d) \/ ClockReaches(d)
  BY Zenon, <1>1, InsertPreserves, ClockPreserves
<1>2. CASE SweepPendingDeliveries
  BY Zenon, <1>2, SweepPreserves
<1>3. CASE \E w \in Workers, d \in Deliveries : Deliver(w, d)
  BY Zenon, <1>3, DeliverPreserves
<1>4. CASE \E w \in Workers : Send(w) \/ Settle(w) \/ WorkerLost(w)
  BY Zenon, <1>4, SendPreserves, SettlePreserves, LossPreserves
<1>5. CASE UNCHANGED vars
  BY Zenon, <1>5 DEF vars, rowVars, configVars, workerVars, WebhookInv, TypeOK, HolderInv,
     OneHolderPerAttempt, Busy, DeliveredWasReceived, UnsettledIsScheduled,
     DisabledAtThreshold
<1> QED
  BY Zenon, <1>1, <1>2, <1>3, <1>4, <1>5 DEF Next

(* Every reachable state of the delivery tables and workers satisfies      *)
(* WebhookInv.                                                             *)
THEOREM Invariance == Spec => []WebhookInv
BY InitEstablishes, StepPreserves, PTL DEF Spec

(* deliver_webhook keeps its tables well typed for any limits.             *)
THEOREM TypeCorrect == Spec => []TypeOK
<1>1. WebhookInv => TypeOK
  BY Zenon DEF WebhookInv
<1> QED
  BY <1>1, Invariance, PTL

(* Two attempts of deliver_webhook on one row never share a fencing token. *)
THEOREM TokensUnique == Spec => []OneHolderPerAttempt
<1>1. WebhookInv => OneHolderPerAttempt
  BY Zenon DEF WebhookInv, HolderInv
<1> QED
  BY <1>1, Invariance, PTL

(* A row marked delivered was accepted by its destination.                 *)
THEOREM DeliveredSound == Spec => []DeliveredWasReceived
<1>1. WebhookInv => DeliveredWasReceived
  BY Zenon DEF WebhookInv
<1> QED
  BY <1>1, Invariance, PTL

(* A row has a next_attempt_at exactly while it is unsettled.              *)
THEOREM ScheduleSound == Spec => []UnsettledIsScheduled
<1>1. WebhookInv => UnsettledIsScheduled
  BY Zenon DEF WebhookInv
<1> QED
  BY <1>1, Invariance, PTL

(* A configuration at the failure threshold is disabled.                   *)
THEOREM ThresholdSound == Spec => []DisabledAtThreshold
<1>1. WebhookInv => DisabledAtThreshold
  BY Zenon DEF WebhookInv
<1> QED
  BY <1>1, Invariance, PTL

(* Who may write a row's status or its attempt counter: the insert of an   *)
(* absent row, a claim the checks let through, or a settlement that is not *)
(* superseded.                                                             *)
LEMMA WhoWrites ==
  ASSUME WebhookInv, [Next]_vars, NEW d \in Deliveries,
         status'[d] # status[d] \/ attempts'[d] # attempts[d]
  PROVE  \/ status[d] = "absent"
         \/ ~AlreadyDelivered(d) /\ ~LeaseHeld(d)
         \/ \E w \in Workers : /\ pc[w] = "settling" /\ job[w] = d
                               /\ ~Superseded(w)
                               /\ pc'[w] = "idle"
<1> USE DEF WebhookInv
<1>1. CASE \E e \in Deliveries : HandleOutboundWebhook(e) \/ ClockReaches(e)
  BY Zenon, <1>1 DEF HandleOutboundWebhook, ClockReaches, TypeOK
<1>2. CASE SweepPendingDeliveries
  BY Zenon, <1>2 DEF SweepPendingDeliveries, rowVars
<1>3. CASE \E w \in Workers, e \in Deliveries : Deliver(w, e)
  BY <1>3 DEF Deliver, ClaimRefused, ClaimInactive, Claim, Take, rowVars, TypeOK
<1>4. CASE \E w \in Workers : Send(w) \/ WorkerLost(w)
  BY Zenon, <1>4 DEF Send, WorkerLost, rowVars
<1>5. CASE \E w \in Workers : Settle(w)
  <2>1. PICK w \in Workers : Settle(w)
    BY Zenon, <1>5
  <2>2. SettleDelivered(w) \/ SettleFailed(w)
    BY Zenon, <2>1 DEF Settle, SettleStale, rowVars
  <2>3. pc[w] = "settling" /\ ~Superseded(w) /\ pc'[w] = "idle"
    BY Zenon, <2>2 DEF SettleDelivered, SettleFailed, Free, TypeOK
  <2>4. job[w] = d
    BY Zenon, <2>2 DEF SettleDelivered, SettleFailed, TypeOK
  <2> QED
    BY Zenon, <2>3, <2>4
<1>6. CASE UNCHANGED vars
  BY Zenon, <1>6 DEF vars, rowVars
<1> QED
  BY Zenon, <1>1, <1>2, <1>3, <1>4, <1>5, <1>6 DEF Next

(* No duplicate message, late settlement or disabled configuration reopens *)
(* a delivered row (webhook.py:107 and 166).                               *)
THEOREM DeliveredFinal == Spec => DeliveredIsFinal
<1>1. ASSUME WebhookInv, [Next]_vars, NEW d \in Deliveries, status[d] = "delivered"
      PROVE  status'[d] = "delivered" /\ attempts'[d] = attempts[d]
  BY Zenon, <1>1, WhoWrites DEF AlreadyDelivered, Superseded
<1>2. WebhookInv /\ [Next]_vars =>
        [\A d \in Deliveries :
           status[d] = "delivered" =>
             status'[d] = "delivered" /\ attempts'[d] = attempts[d]]_vars
  BY Zenon, <1>1
<1> QED
  BY <1>2, Invariance, PTL DEF Spec, DeliveredIsFinal

(* While a lease runs only the holder of the row's current attempt ends    *)
(* it: the fence of webhook.py:166-169 does its work.                      *)
THEOREM HolderSettles == Spec => LeaseHolderSettles
<1>1. ASSUME WebhookInv, [Next]_vars, NEW d \in Deliveries,
             LeaseHeld(d), status'[d] # "processing"
      PROVE  \E w \in Workers : /\ pc[w] = "settling" /\ job[w] = d
                                /\ token[w] = attempts[d]
                                /\ pc'[w] = "idle"
  BY <1>1, WhoWrites DEF LeaseHeld, Superseded
<1>2. WebhookInv /\ [Next]_vars =>
        [\A d \in Deliveries :
           LeaseHeld(d) /\ status'[d] # "processing" =>
             \E w \in Workers : /\ pc[w] = "settling" /\ job[w] = d
                                /\ token[w] = attempts[d]
                                /\ pc'[w] = "idle"]_vars
  BY Zenon, <1>1
<1> QED
  BY <1>2, Invariance, PTL DEF Spec, LeaseHolderSettles

-----------------------------------------------------------------------------
(* CrmTables.  A contact's account exists, a note is edited by its author   *)
(* alone, and a task's completion time follows its status.                  *)
Linked(rows, a) == a = NoRow \/ (a \in Accounts /\ rows[a].exists)

NoteOK(row) ==
  /\ row.updated_by \in {NoRow, row.created_by}
  /\ ~row.exists => row.updated_by = NoRow

TaskOK(row) ==
  /\ row.status = "completed" => row.completed_at
  /\ row.status \in {"open", "in_progress"} => ~row.completed_at

RowsInv ==
  /\ DOMAIN crm = Records
  /\ \A a \in Accounts : crm[a] \in AccountRow
  /\ \A c \in Contacts : crm[c] \in ContactRow /\ Linked(crm, crm[c].account_id)
  /\ \A t \in Tasks : crm[t] \in TaskRow /\ (t \notin crmTaint => TaskOK(crm[t]))
  /\ \A n \in Notes : crm[n] \in NoteRow /\ NoteOK(crm[n])

(* What a request will write, table by table.  An author never changes: a   *)
(* note whose author a request sets is not there yet.                       *)
ContactWrite(rows, w) ==
  w.old \in ContactRow /\ w.new \in ContactRow /\ Linked(rows, w.new.account_id)

TaskWrite(row, fresh, w) ==
  w.old \in TaskRow /\ w.new \in TaskRow /\ (fresh => w.old = row /\ TaskOK(w.new))

NoteWrite(row, w) ==
  /\ w.old \in NoteRow /\ w.new \in NoteRow
  /\ w.old.created_by = row.created_by /\ (w.old.exists => row.exists)
  /\ row.exists => w.new.created_by = w.old.created_by
  /\ w.new.updated_by \in {w.old.updated_by, w.new.created_by}

CrmReqOK(rows, taint, r, id) ==
  /\ DOMAIN r.writes = {id} /\ r.stale \subseteq {id}
  /\ r.writes[id].new.exists
  /\ id \in Accounts => r.writes[id].old \in AccountRow /\ r.writes[id].new \in AccountRow
  /\ id \in Contacts => ContactWrite(rows, r.writes[id])
  /\ id \in Tasks => TaskWrite(rows[id], r.stale = {} /\ id \notin taint, r.writes[id])
  /\ id \in Notes => NoteWrite(rows[id], r.writes[id])

CrmReqInv ==
  /\ DOMAIN crmReq = CrmRequests
  /\ \A q \in CrmRequests : crmReq[q] # NoRow =>
       /\ crmReq[q] = [writes |-> crmReq[q].writes, stale |-> crmReq[q].stale]
       /\ \E id \in Records : CrmReqOK(crm, crmTaint, crmReq[q], id)

(* A row that is not there is in the hands of one request at most.          *)
OneCreator ==
  \A p, q \in CrmRequests, id \in Records :
    crmReq[p] # NoRow /\ id \in Dirty(crmReq[p]) /\ crmReq[q] # NoRow /\ id \in Dirty(crmReq[q])
      /\ ~crm[id].exists => p = q

CrmInv == ~NameTaken(crm) /\ RowsInv /\ CrmReqInv /\ OneCreator

-----------------------------------------------------------------------------
(* The flush of a row, table by table.                                      *)
LEMMA AccountFlush ==
  ASSUME NEW row \in AccountRow, NEW old \in AccountRow, NEW new \in AccountRow
  PROVE  Flush(row, old, new) \in AccountRow
<1>1. DOMAIN row = {"exists", "name"}
  BY DEF AccountRow
<1>2. PICK x : x = Flush(row, old, new)
  BY Zenon
<1>3. /\ x.exists \in {new.exists, row.exists} /\ x.name \in {new.name, row.name}
      /\ x = [exists |-> x.exists, name |-> x.name]
  BY <1>1, <1>2 DEF Flush
<1> QED
  BY <1>2, <1>3 DEF AccountRow

(* A contact's account is the one just set or the one it had.               *)
LEMMA ContactFlush ==
  ASSUME NEW row \in ContactRow, NEW old \in ContactRow, NEW new \in ContactRow
  PROVE  /\ Flush(row, old, new) \in ContactRow
         /\ Flush(row, old, new).account_id \in {new.account_id, row.account_id}
<1>1. DOMAIN row = {"exists", "account_id"}
  BY DEF ContactRow
<1>2. PICK x : x = Flush(row, old, new)
  BY Zenon
<1>3. /\ x.exists \in {new.exists, row.exists}
      /\ x.account_id \in {new.account_id, row.account_id}
      /\ x = [exists |-> x.exists, account_id |-> x.account_id]
  BY <1>1, <1>2 DEF Flush
<1> QED
  BY <1>2, <1>3 DEF ContactRow

(* A flush over an unchanged task is what the request set.                  *)
LEMMA TaskFlush ==
  ASSUME NEW row \in TaskRow, NEW old \in TaskRow, NEW new \in TaskRow
  PROVE  Flush(row, old, new) \in TaskRow /\ (old = row => Flush(row, old, new) = new)
<1>1. DOMAIN row = {"exists", "completed_at", "status"} /\ DOMAIN new = DOMAIN row
  BY DEF TaskRow
<1>2. PICK x : x = Flush(row, old, new)
  BY Zenon
<1>3. /\ x.exists \in {new.exists, row.exists} /\ x.status \in {new.status, row.status}
      /\ x.completed_at \in {new.completed_at, row.completed_at}
      /\ x = [exists |-> x.exists, completed_at |-> x.completed_at, status |-> x.status]
  BY <1>1, <1>2 DEF Flush
<1>4. x \in TaskRow
  BY <1>3 DEF TaskRow
<1>5. ASSUME old = row
      PROVE  x = new
  <2>1. x = [f \in DOMAIN new |-> new[f]]
    BY Zenon, <1>1, <1>2, <1>5 DEF Flush
  <2> QED
    BY <2>1 DEF TaskRow
<1> QED
  BY Zenon, <1>2, <1>4, <1>5

(* A flush of a note keeps its author.                                      *)
LEMMA NoteFlush ==
  ASSUME NEW row \in NoteRow, NoteOK(row), NEW w, NoteWrite(row, w), w.new.exists
  PROVE  /\ Flush(row, w.old, w.new) \in NoteRow /\ NoteOK(Flush(row, w.old, w.new))
         /\ row.exists => Flush(row, w.old, w.new).created_by = row.created_by
<1>1. /\ w.old \in NoteRow /\ w.new \in NoteRow
      /\ DOMAIN row = {"exists", "created_by", "is_pinned", "updated_by"}
  BY DEF NoteRow, NoteWrite
<1>2. PICK x, old, new : x = Flush(row, old, new) /\ old = w.old /\ new = w.new
  BY Zenon
<1>3. /\ x = [exists |-> x.exists, created_by |-> x.created_by,
              is_pinned |-> x.is_pinned, updated_by |-> x.updated_by]
      /\ x.exists = (IF new.exists # old.exists THEN new.exists ELSE row.exists)
      /\ x.created_by = (IF new.created_by # old.created_by THEN new.created_by ELSE row.created_by)
      /\ x.is_pinned = (IF new.is_pinned # old.is_pinned THEN new.is_pinned ELSE row.is_pinned)
      /\ x.updated_by = (IF new.updated_by # old.updated_by THEN new.updated_by ELSE row.updated_by)
  BY <1>1, <1>2 DEF Flush
<1>4. x \in NoteRow
  BY <1>1, <1>2, <1>3 DEF NoteRow
<1>5. row.exists => x.created_by = row.created_by
  BY Zenon, <1>2, <1>3 DEF NoteWrite
<1>6. x.exists
  BY Zenon, <1>2, <1>3 DEF NoteWrite
<1>7. x.updated_by \in {NoRow, x.created_by}
  <2>1. CASE new.created_by = old.created_by
    BY Zenon, <2>1, <1>2, <1>3 DEF NoteOK, NoteWrite
  <2>2. CASE new.created_by # old.created_by
    BY Zenon, <2>2, <1>2, <1>3 DEF NoteOK, NoteWrite
  <2> QED
    BY Zenon, <2>1, <2>2
<1> QED
  BY Zenon, <1>2, <1>4, <1>5, <1>6, <1>7 DEF NoteOK

(* No commit deletes a row.                                                 *)
LEMMA FlushExists ==
  ASSUME NEW row, NEW old, NEW new, "exists" \in DOMAIN row, row.exists, new.exists
  PROVE  Flush(row, old, new).exists
BY Zenon DEF Flush

(* Facts about the rows and a request in flight.                            *)
LEMMA CrmFacts ==
  ASSUME CrmInv
  PROVE  /\ \A id \in Records : "exists" \in DOMAIN crm[id]
         /\ \A q \in CrmRequests : crmReq[q] # NoRow =>
              \E id \in Records : CrmReqOK(crm, crmTaint, crmReq[q], id)
<1>1. \A id \in Records : "exists" \in DOMAIN crm[id]
  <2> SUFFICES ASSUME NEW id \in Records
               PROVE  "exists" \in DOMAIN crm[id]
    BY Zenon
  <2>1. CASE id \in Accounts
    BY <2>1 DEF CrmInv, RowsInv, AccountRow
  <2>2. CASE id \in Contacts
    BY <2>2 DEF CrmInv, RowsInv, ContactRow
  <2>3. CASE id \in Tasks
    BY <2>3 DEF CrmInv, RowsInv, TaskRow
  <2>4. CASE id \in Notes
    BY <2>4 DEF CrmInv, RowsInv, NoteRow
  <2> QED
    BY Zenon, <2>1, <2>2, <2>3, <2>4 DEF Records
<1> QED
  BY Zenon, <1>1 DEF CrmInv, CrmReqInv

(* A request loads a row that is there, or takes an id of its own.          *)
LEMMA LoadRowStep ==
  ASSUME CrmInv, NEW q \in CrmRequests, NEW id \in Records, NEW expected, NEW new,
         LoadRow(q, id, expected, new), Exists(id) \/ FreshId(id),
         CrmReqOK(crm, crmTaint, Load(id, crm[id], new), id)
  PROVE  CrmInv'
<1>1. /\ crm' = crm /\ crmTaint' = crmTaint
      /\ DOMAIN crmReq' = CrmRequests
      /\ crmReq'[q] = Load(id, crm[id], new)
      /\ \A p \in CrmRequests : p # q => crmReq'[p] = crmReq[p]
  BY Zenon DEF LoadRow, CrmInv, CrmReqInv
<1>2. crmReq'[q] = [writes |-> crmReq'[q].writes, stale |-> crmReq'[q].stale]
  BY <1>1 DEF Load
<1>3. CrmReqInv'
  BY Zenon, <1>1, <1>2 DEF CrmInv, CrmReqInv
<1>4. Dirty(crmReq'[q]) = {id}
  BY Zenon, <1>1 DEF CrmReqOK, Dirty
<1>5. OneCreator'
  <2> SUFFICES ASSUME NEW p \in CrmRequests, NEW o \in CrmRequests, NEW i \in Records,
                      crmReq'[p] # NoRow, i \in Dirty(crmReq'[p]),
                      crmReq'[o] # NoRow, i \in Dirty(crmReq'[o]), ~crm[i].exists, p # o
               PROVE  FALSE
    BY Zenon, <1>1 DEF OneCreator
  <2>1. p = q \/ o = q
    BY Zenon, <1>1 DEF CrmInv, OneCreator
  <2>2. i = id
    BY <2>1, <1>4
  <2> QED
    BY Zenon, <2>1, <2>2, <1>1 DEF Exists, FreshId
<1> QED
  BY Zenon, <1>1, <1>3, <1>5 DEF CrmInv, RowsInv, NameTaken, Linked

(* What a load has to set, table by table.                                  *)
LEMMA LoadOK ==
  ASSUME NEW id \in Records, NEW new, new.exists,
         LET w == [old |-> crm[id], new |-> new]
         IN  /\ id \in Accounts => crm[id] \in AccountRow /\ new \in AccountRow
             /\ id \in Contacts => ContactWrite(crm, w)
             /\ id \in Tasks => TaskWrite(crm[id], id \notin crmTaint, w)
             /\ id \in Notes => NoteWrite(crm[id], w)
  PROVE  CrmReqOK(crm, crmTaint, Load(id, crm[id], new), id)
<1> DEFINE w == [old |-> crm[id], new |-> new]
           r == Load(id, crm[id], new)
<1>1. r.writes[id] = w /\ DOMAIN r.writes = {id} /\ r.stale = {}
  BY DEF Load, Write
<1>2. w.old = crm[id] /\ w.new = new
  BY Zenon
<1>3. (r.stale = {} /\ id \notin crmTaint) = (id \notin crmTaint)
  BY Zenon, <1>1
<1> HIDE DEF w, r
<1>4. TaskWrite(crm[id], id \notin crmTaint, w) =>
        TaskWrite(crm[id], r.stale = {} /\ id \notin crmTaint, w)
  BY Zenon, <1>3 DEF TaskWrite
<1>5. CrmReqOK(crm, crmTaint, r, id)
  BY Zenon, <1>1, <1>2, <1>4 DEF CrmReqOK, w
<1> QED
  BY Zenon, <1>5 DEF r

(* The routes on accounts and contacts.                                     *)
LEMMA DirectoryStep ==
  ASSUME CrmInv, NEW q \in CrmRequests, DirectoryRoutes(q)
  PROVE  CrmInv'
<1>1. /\ \A a \in Accounts : /\ a \in Records /\ crm[a] \in AccountRow
                             /\ a \notin Contacts /\ a \notin Tasks /\ a \notin Notes
      /\ \A c \in Contacts : /\ c \in Records /\ crm[c] \in ContactRow
                             /\ c \notin Accounts /\ c \notin Tasks /\ c \notin Notes
  BY Zenon, CrmAssumption DEF CrmInv, RowsInv, Records
<1>2. ASSUME NEW a \in Accounts, NEW name \in Names, CreateAccount(q, a, name)
      PROVE  CrmInv'
  <2> DEFINE new == [crm[a] EXCEPT !.exists = TRUE, !.name = name]
  <2>1. new \in AccountRow /\ new.exists
    BY Zenon, <1>1 DEF AccountRow
  <2>2. CrmReqOK(crm, crmTaint, Load(a, crm[a], new), a)
    BY Zenon, <2>1, <1>1, LoadOK
  <2> QED
    BY Zenon, <1>1, <1>2, <2>2, LoadRowStep DEF CreateAccount
<1>3. ASSUME NEW a \in Accounts, NEW name \in Names, UpdateAccount(q, a, name, "current")
      PROVE  CrmInv'
  <2> DEFINE new == [crm[a] EXCEPT !.name = name]
  <2>1. new \in AccountRow /\ new.exists
    BY <1>1, <1>3 DEF AccountRow, UpdateAccount, Exists
  <2>2. CrmReqOK(crm, crmTaint, Load(a, crm[a], new), a)
    BY Zenon, <2>1, <1>1, LoadOK
  <2> QED
    BY Zenon, <1>1, <1>3, <2>2, LoadRowStep DEF UpdateAccount
<1>4. ASSUME NEW c \in Contacts, NEW a \in Accounts \cup {NoRow},
             CreateContact(q, c, a) \/ UpdateContact(q, c, a, "current")
      PROVE  CrmInv'
  <2>1. Linked(crm, a)
    BY Zenon, <1>4 DEF CreateContact, UpdateContact, assert_account_exists, Exists, Linked
  <2>2. CASE CreateContact(q, c, a)
    <3> DEFINE new == [crm[c] EXCEPT !.exists = TRUE, !.account_id = a]
    <3>1. new \in ContactRow /\ new.exists /\ new.account_id = a
      BY Zenon, <1>1 DEF ContactRow
    <3>2. ContactWrite(crm, [old |-> crm[c], new |-> new])
      BY Zenon, <3>1, <2>1, <1>1 DEF ContactWrite
    <3>3. CrmReqOK(crm, crmTaint, Load(c, crm[c], new), c)
      BY Zenon, <3>1, <3>2, <1>1, LoadOK
    <3> QED
      BY Zenon, <1>1, <2>2, <3>3, LoadRowStep DEF CreateContact
  <2>3. CASE UpdateContact(q, c, a, "current")
    <3> DEFINE new == [crm[c] EXCEPT !.account_id = a]
    <3>1. new \in ContactRow /\ new.exists /\ new.account_id = a
      BY <1>1, <2>3 DEF ContactRow, UpdateContact, Exists
    <3>2. ContactWrite(crm, [old |-> crm[c], new |-> new])
      BY Zenon, <3>1, <2>1, <1>1 DEF ContactWrite
    <3>3. CrmReqOK(crm, crmTaint, Load(c, crm[c], new), c)
      BY Zenon, <3>1, <3>2, <1>1, LoadOK
    <3> QED
      BY Zenon, <1>1, <2>3, <3>3, LoadRowStep DEF UpdateContact
  <2> QED
    BY Zenon, <1>4, <2>2, <2>3
<1> QED
  BY Zenon, <1>2, <1>3, <1>4 DEF DirectoryRoutes

(* The routes on tasks and notes.                                           *)
LEMMA WorkStep ==
  ASSUME CrmInv, NEW q \in CrmRequests, WorkRoutes(q)
  PROVE  CrmInv'
<1>1. /\ \A t \in Tasks : /\ t \in Records /\ crm[t] \in TaskRow
                          /\ t \notin crmTaint => TaskOK(crm[t])
                          /\ t \notin Accounts /\ t \notin Contacts /\ t \notin Notes
      /\ \A n \in Notes : /\ n \in Records /\ crm[n] \in NoteRow /\ NoteOK(crm[n])
                          /\ n \notin Accounts /\ n \notin Contacts /\ n \notin Tasks
  BY Zenon, CrmAssumption DEF CrmInv, RowsInv, Records
<1>2. ASSUME NEW t \in Tasks, NEW c \in Contacts, CreateTask(q, t, c)
      PROVE  CrmInv'
  <2> DEFINE new == [crm[t] EXCEPT !.exists = TRUE]
  <2>1. new \in TaskRow /\ new.exists /\ (TaskOK(crm[t]) => TaskOK(new))
    BY Zenon, <1>1 DEF TaskRow, TaskOK
  <2>2. TaskWrite(crm[t], t \notin crmTaint, [old |-> crm[t], new |-> new])
    BY Zenon, <2>1, <1>1 DEF TaskWrite
  <2>3. CrmReqOK(crm, crmTaint, Load(t, crm[t], new), t)
    BY Zenon, <2>1, <2>2, <1>1, LoadOK
  <2> QED
    BY Zenon, <1>1, <1>2, <2>3, LoadRowStep DEF CreateTask
<1>3. ASSUME NEW t \in Tasks, NEW s \in {"open", "completed", "cancelled"},
             UpdateTask(q, t, s, "current")
      PROVE  CrmInv'
  <2> DEFINE new == [crm[t] EXCEPT !.status = s, !.completed_at = CompletionTime(s, @)]
  <2>1. new \in TaskRow /\ new.exists /\ TaskOK(new)
    BY Zenon, <1>1, <1>3 DEF TaskRow, TaskOK, CompletionTime, UpdateTask, Exists
  <2>2. TaskWrite(crm[t], t \notin crmTaint, [old |-> crm[t], new |-> new])
    BY Zenon, <2>1, <1>1 DEF TaskWrite
  <2>3. CrmReqOK(crm, crmTaint, Load(t, crm[t], new), t)
    BY Zenon, <2>1, <2>2, <1>1, LoadOK
  <2> QED
    BY Zenon, <1>1, <1>3, <2>3, LoadRowStep DEF UpdateTask
<1>4. ASSUME NEW n \in Notes, NEW who \in Users, NEW c \in Contacts, AddNote(q, n, who, c)
      PROVE  CrmInv'
  <2> DEFINE new == [crm[n] EXCEPT !.exists = TRUE, !.created_by = who]
  <2>1. /\ new \in NoteRow /\ new.exists /\ new.updated_by = crm[n].updated_by
        /\ ~crm[n].exists
    BY Zenon, <1>1, <1>4 DEF NoteRow, AddNote, FreshId
  <2>2. NoteWrite(crm[n], [old |-> crm[n], new |-> new])
    BY Zenon, <2>1, <1>1 DEF NoteWrite
  <2>3. CrmReqOK(crm, crmTaint, Load(n, crm[n], new), n)
    BY Zenon, <2>1, <2>2, <1>1, LoadOK
  <2> QED
    BY Zenon, <1>1, <1>4, <2>3, LoadRowStep DEF AddNote
<1>5. ASSUME NEW n \in Notes, NEW who \in Users, NEW pinned \in BOOLEAN,
             update_note(q, n, who, pinned, "none")
      PROVE  CrmInv'
  <2> DEFINE new == [crm[n] EXCEPT !.is_pinned = pinned, !.updated_by = who]
  <2>1. /\ new \in NoteRow /\ new.exists /\ crm[n].exists
        /\ new.updated_by = who /\ new.created_by = who /\ crm[n].created_by = who
    BY Zenon, <1>1, <1>5 DEF NoteRow, update_note, Exists
  <2>2. NoteWrite(crm[n], [old |-> crm[n], new |-> new])
    BY Zenon, <2>1, <1>1 DEF NoteWrite
  <2>3. CrmReqOK(crm, crmTaint, Load(n, crm[n], new), n)
    BY Zenon, <2>1, <2>2, <1>1, LoadOK
  <2> QED
    BY Zenon, <1>1, <1>5, <2>3, LoadRowStep DEF update_note
<1> QED
  BY Zenon, <1>2, <1>3, <1>4, <1>5 DEF WorkRoutes

-----------------------------------------------------------------------------
(* A commit that goes through writes one row, and outdates the others that  *)
(* loaded it.                                                               *)
Written(q, r, id, x) ==
  /\ crm' = [i \in Records |-> IF i = id THEN x ELSE crm[i]]
  /\ crmTaint' = crmTaint \cup r.stale
  /\ crmReq' = [p \in CrmRequests |->
       IF p = q \/ crmReq[p] = NoRow THEN NoRow ELSE Outdate(crmReq[p], {id})]

(* A commit that takes no name in use writes the one row it loaded.         *)
LEMMA CommitWrites ==
  ASSUME CrmInv, NEW q \in CrmRequests, CommitRow(q), ~NameTaken(Commit(crm, crmReq[q])),
         NEW id \in Records, CrmReqOK(crm, crmTaint, crmReq[q], id)
  PROVE  Written(q, crmReq[q], id,
                 Flush(crm[id], crmReq[q].writes[id].old, crmReq[q].writes[id].new))
         /\ ~NameTaken(crm')
<1>1. PICK r : r = crmReq[q]
  BY Zenon
<1>2. Dirty(r) = {id} /\ DOMAIN crm = Records
  BY Zenon, <1>1 DEF Dirty, CrmReqOK, CrmInv, RowsInv
<1>3. /\ crm' = Commit(crm, r) /\ crmTaint' = crmTaint \cup r.stale
      /\ crmReq' = [p \in CrmRequests |->
           IF p = q \/ crmReq[p] = NoRow THEN NoRow ELSE Outdate(crmReq[p], Dirty(r))]
  BY Zenon, <1>1 DEF CommitRow
<1>4. Commit(crm, r) =
        [i \in Records |-> IF i = id THEN Flush(crm[id], r.writes[id].old, r.writes[id].new)
                          ELSE crm[i]]
  BY <1>2 DEF Commit
<1> QED
  BY Zenon, <1>1, <1>2, <1>3, <1>4 DEF Written

(* The rows after it.                                                       *)
LEMMA CommitRows ==
  ASSUME CrmInv, NEW q \in CrmRequests, NEW id \in Records, NEW r, NEW x,
         CrmReqOK(crm, crmTaint, r, id), Written(q, r, id, x),
         x = Flush(crm[id], r.writes[id].old, r.writes[id].new)
  PROVE  /\ RowsInv'
         /\ \A i \in Records : crm[i].exists => crm'[i].exists
         /\ \A n \in Notes : crm[n].exists => crm'[n].created_by = crm[n].created_by
<1> DEFINE w == r.writes[id]
<1>1. /\ DOMAIN crm' = Records /\ crm'[id] = x
      /\ \A i \in Records : i # id => crm'[i] = crm[i]
  BY Zenon DEF Written
<1>2. \A i \in Records : crm[i].exists => crm'[i].exists
  <2>1. crm[id].exists => x.exists
    BY Zenon, CrmFacts, FlushExists DEF CrmReqOK
  <2> QED
    BY Zenon, <1>1, <2>1
<1>3. \A a : Linked(crm, a) => Linked(crm', a)
  BY Zenon, <1>2 DEF Linked, Records
<1>4. ASSUME NEW a \in Accounts
      PROVE  crm'[a] \in AccountRow
  <2>1. a \in Records /\ crm[a] \in AccountRow
    BY Zenon DEF CrmInv, RowsInv, Records
  <2>2. CASE a = id
    BY ZenonT(40), <2>1, <2>2, <1>1, AccountFlush DEF CrmReqOK
  <2>3. CASE a # id
    BY Zenon, <2>1, <2>3, <1>1
  <2> QED
    BY Zenon, <2>2, <2>3
<1>5. ASSUME NEW c \in Contacts
      PROVE  crm'[c] \in ContactRow /\ Linked(crm', crm'[c].account_id)
  <2>1. c \in Records /\ crm[c] \in ContactRow /\ Linked(crm, crm[c].account_id)
    BY Zenon DEF CrmInv, RowsInv, Records
  <2>2. CASE c = id
    <3>1. w.old \in ContactRow /\ w.new \in ContactRow /\ Linked(crm, w.new.account_id)
      BY Zenon, <2>2 DEF CrmReqOK, ContactWrite
    <3>2. x \in ContactRow /\ x.account_id \in {w.new.account_id, crm[c].account_id}
      BY Zenon, <2>1, <2>2, <3>1, ContactFlush
    <3> QED
      BY Zenon, <1>1, <1>3, <2>1, <2>2, <3>1, <3>2
  <2>3. CASE c # id
    BY Zenon, <2>1, <2>3, <1>1, <1>3
  <2> QED
    BY Zenon, <2>2, <2>3
<1>6. ASSUME NEW t \in Tasks
      PROVE  crm'[t] \in TaskRow /\ (t \notin crmTaint' => TaskOK(crm'[t]))
  <2>1. /\ t \in Records /\ crm[t] \in TaskRow /\ (t \notin crmTaint => TaskOK(crm[t]))
        /\ crmTaint' = crmTaint \cup r.stale
    BY Zenon DEF CrmInv, RowsInv, Records, Written
  <2>2. CASE t = id
    <3>1. TaskWrite(crm[t], r.stale = {} /\ t \notin crmTaint, w) /\ r.stale \subseteq {t}
      BY Zenon, <2>2 DEF CrmReqOK
    <3>2. x \in TaskRow /\ (w.old = crm[t] => x = w.new)
      BY ZenonT(40), <3>1, <2>1, <2>2, TaskFlush DEF TaskWrite
    <3>3. t \notin crmTaint' => r.stale = {} /\ t \notin crmTaint
      BY Zenon, <3>1, <2>1
    <3> QED
      BY Zenon, <1>1, <2>2, <3>1, <3>2, <3>3 DEF TaskWrite
  <2>3. CASE t # id
    BY Zenon, <2>1, <2>3, <1>1
  <2> QED
    BY Zenon, <2>2, <2>3
<1>7. ASSUME NEW n \in Notes
      PROVE  /\ crm'[n] \in NoteRow /\ NoteOK(crm'[n])
             /\ crm[n].exists => crm'[n].created_by = crm[n].created_by
  <2>1. n \in Records /\ crm[n] \in NoteRow /\ NoteOK(crm[n])
    BY Zenon DEF CrmInv, RowsInv, Records
  <2>2. CASE n = id
    <3>1. NoteWrite(crm[n], w) /\ w.new.exists
      BY Zenon, <2>2 DEF CrmReqOK
    <3> HIDE DEF w
    <3>2. /\ Flush(crm[n], w.old, w.new) \in NoteRow /\ NoteOK(Flush(crm[n], w.old, w.new))
          /\ crm[n].exists => Flush(crm[n], w.old, w.new).created_by = crm[n].created_by
      BY Zenon, <2>1, <3>1, NoteFlush
    <3> QED
      BY Zenon, <2>2, <1>1, <3>2 DEF w
  <2>3. CASE n # id
    BY Zenon, <2>1, <2>3, <1>1
  <2> QED
    BY Zenon, <2>2, <2>3
<1> QED
  BY Zenon, <1>1, <1>2, <1>4, <1>5, <1>6, <1>7 DEF RowsInv

(* A commit outdates the rows that others have loaded, nothing else.        *)
LEMMA OutdateRecord ==
  ASSUME NEW s, NEW ids, s = [writes |-> s.writes, stale |-> s.stale]
  PROVE  Outdate(s, ids) = [writes |-> s.writes, stale |-> s.stale \cup (ids \cap DOMAIN s.writes)]
BY DEF Outdate, Dirty

(* The other requests after it.                                             *)
LEMMA CommitRequests ==
  ASSUME CrmInv, NEW q \in CrmRequests, crmReq[q] # NoRow, NEW id \in Records, NEW x,
         CrmReqOK(crm, crmTaint, crmReq[q], id), Written(q, crmReq[q], id, x),
         \A i \in Records : crm[i].exists => crm'[i].exists,
         \A n \in Notes : crm[n].exists => crm'[n].created_by = crm[n].created_by
  PROVE  CrmReqInv' /\ OneCreator'
<1>1. /\ DOMAIN crmReq' = CrmRequests
      /\ crmTaint' = crmTaint \cup crmReq[q].stale
      /\ \A i \in Records : i # id => crm'[i] = crm[i]
      /\ \A p \in CrmRequests : crmReq'[p] # NoRow =>
           p # q /\ crmReq[p] # NoRow /\ crmReq'[p] = Outdate(crmReq[p], {id})
  BY Zenon DEF Written
<1>2. \A a : Linked(crm, a) => Linked(crm', a)
  BY Zenon DEF Linked, Records
<1>3. Dirty(crmReq[q]) = {id}
  BY Zenon DEF Dirty, CrmReqOK
<1>4. ASSUME NEW p \in CrmRequests, crmReq'[p] # NoRow
      PROVE  /\ crmReq'[p] = [writes |-> crmReq'[p].writes, stale |-> crmReq'[p].stale]
             /\ crmReq'[p].writes = crmReq[p].writes
             /\ \E g \in Records : CrmReqOK(crm', crmTaint', crmReq'[p], g)
  <2>1. p # q /\ crmReq[p] # NoRow /\ crmReq'[p] = Outdate(crmReq[p], {id})
    BY Zenon, <1>1, <1>4
  <2>2. PICK s : s = crmReq[p]
    BY Zenon
  <2>3. PICK g \in Records : CrmReqOK(crm, crmTaint, s, g)
    BY Zenon, <2>1, <2>2 DEF CrmInv, CrmReqInv
  <2>4. s = [writes |-> s.writes, stale |-> s.stale]
    BY Zenon, <2>1, <2>2 DEF CrmInv, CrmReqInv
  <2>5. Outdate(s, {id}) = [writes |-> s.writes, stale |-> s.stale \cup ({id} \cap DOMAIN s.writes)]
    BY Zenon, <2>4, OutdateRecord
  <2>6. PICK t : t = Outdate(s, {id})
    BY Zenon
  <2>7. /\ t.writes = s.writes /\ t.stale = s.stale \cup ({id} \cap {g})
        /\ t = [writes |-> t.writes, stale |-> t.stale]
    BY SMTT(40), <2>3, <2>5, <2>6 DEF CrmReqOK
  <2>8. PICK w : w = s.writes[g]
    BY Zenon
  <2>9. t.stale \subseteq {g}
    BY Zenon, <2>3, <2>7 DEF CrmReqOK
  <2>10. g \in Contacts => ContactWrite(crm', w)
    BY Zenon, <2>3, <2>8, <1>2 DEF CrmReqOK, ContactWrite
  <2>11. ASSUME g \in Tasks
         PROVE  TaskWrite(crm'[g], t.stale = {} /\ g \notin crmTaint', w)
    <3>1. TaskWrite(crm[g], s.stale = {} /\ g \notin crmTaint, w)
      BY Zenon, <2>3, <2>8, <2>11 DEF CrmReqOK
    <3>2. t.stale = {} /\ g \notin crmTaint' =>
            s.stale = {} /\ g \notin crmTaint /\ crm'[g] = crm[g]
      BY Zenon, <2>7, <1>1
    <3> QED
      BY Zenon, <3>1, <3>2 DEF TaskWrite
  <2>12. ASSUME g \in Notes
         PROVE  NoteWrite(crm'[g], w)
    <3>1. NoteWrite(crm[g], w)
      BY Zenon, <2>3, <2>8, <2>12 DEF CrmReqOK
    <3>2. CASE g # id
      BY Zenon, <3>1, <3>2, <1>1
    <3>3. CASE g = id
      <4>1. g \in Dirty(s)
        BY Zenon, <2>3 DEF CrmReqOK, Dirty
      <4>2. crm[g].exists
        BY Zenon, <4>1, <3>3, <2>1, <2>2, <1>3 DEF CrmInv, OneCreator
      <4>3. crm'[g].exists /\ crm'[g].created_by = crm[g].created_by
        BY Zenon, <4>2, <2>12
      <4> QED
        BY Zenon, <3>1, <4>2, <4>3 DEF NoteWrite
    <3> QED
      BY Zenon, <3>2, <3>3
  <2>13. CrmReqOK(crm', crmTaint', t, g)
    BY Zenon, <2>3, <2>7, <2>8, <2>9, <2>10, <2>11, <2>12 DEF CrmReqOK
  <2> QED
    BY Zenon, <2>1, <2>2, <2>6, <2>7, <2>13
<1>5. \A p \in CrmRequests : crmReq'[p] # NoRow => Dirty(crmReq'[p]) = Dirty(crmReq[p])
  BY Zenon, <1>4 DEF Dirty
<1>6. OneCreator'
  BY Zenon, <1>1, <1>5 DEF OneCreator, CrmInv
<1> QED
  BY Zenon, <1>1, <1>4, <1>6 DEF CrmReqInv

(* A refused commit leaves the rows, and its request is gone.               *)
LEMMA RefusedStep ==
  ASSUME CrmInv, NEW q \in CrmRequests, crm' = crm, crmTaint' = crmTaint,
         crmReq' = [crmReq EXCEPT ![q] = NoRow]
  PROVE  CrmInv'
<1>1. /\ DOMAIN crmReq' = CrmRequests
      /\ \A p \in CrmRequests : crmReq'[p] # NoRow => crmReq'[p] = crmReq[p]
  BY Zenon DEF CrmInv, CrmReqInv
<1>2. RowsInv' /\ ~NameTaken(crm')
  BY Zenon DEF CrmInv, RowsInv
<1>3. CrmReqInv'
  BY Zenon, <1>1 DEF CrmInv, CrmReqInv
<1>4. OneCreator'
  BY <1>1 DEF CrmInv, OneCreator
<1> QED
  BY Zenon, <1>2, <1>3, <1>4 DEF CrmInv

(* The commit of a request on one of the CRM's tables.                      *)
LEMMA CommitRowStep ==
  ASSUME CrmInv, NEW q \in CrmRequests, CommitRow(q)
  PROVE  CrmInv'
<1>1. CASE NameTaken(Commit(crm, crmReq[q]))
  BY Zenon, <1>1, RefusedStep DEF CommitRow
<1>2. CASE ~NameTaken(Commit(crm, crmReq[q]))
  <2>1. PICK id \in Records : CrmReqOK(crm, crmTaint, crmReq[q], id)
    BY Zenon, CrmFacts DEF CommitRow
  <2>2. PICK x : x = Flush(crm[id], crmReq[q].writes[id].old, crmReq[q].writes[id].new)
    BY Zenon
  <2>3. Written(q, crmReq[q], id, x) /\ ~NameTaken(crm')
    BY Zenon, <1>2, <2>1, <2>2, CommitWrites
  <2>4. /\ RowsInv'
        /\ \A i \in Records : crm[i].exists => crm'[i].exists
        /\ \A n \in Notes : crm[n].exists => crm'[n].created_by = crm[n].created_by
    BY Zenon, <2>1, <2>2, <2>3, CommitRows
  <2>5. CrmReqInv' /\ OneCreator'
    BY Zenon, <2>1, <2>3, <2>4, CommitRequests DEF CommitRow
  <2> QED
    BY Zenon, <2>3, <2>4, <2>5 DEF CrmInv
<1> QED
  BY Zenon, <1>1, <1>2

(* CrmTables: the inductive invariant.                                      *)
THEOREM CrmInvariant == CrmSpec => []CrmInv
<1>1. CrmInit => CrmInv
  <2> SUFFICES ASSUME CrmInit
               PROVE  CrmInv
    OBVIOUS
  <2>1. \A a \in Accounts : crm[a] = [exists |-> FALSE, name |-> NoRow]
    BY CrmAssumption DEF CrmInit, Absent, Records
  <2>2. \A c \in Contacts : crm[c] = [exists |-> FALSE, account_id |-> NoRow]
    BY CrmAssumption DEF CrmInit, Absent, Records
  <2>3. \A t \in Tasks : crm[t] = [exists |-> FALSE, status |-> "open", completed_at |-> FALSE]
    BY CrmAssumption DEF CrmInit, Absent, Records
  <2>4. \A n \in Notes : crm[n] = [exists |-> FALSE, created_by |-> NoRow, updated_by |-> NoRow,
                                   is_pinned |-> FALSE]
    BY CrmAssumption DEF CrmInit, Absent, Records
  <2>5. DOMAIN crm = Records
    BY Zenon DEF CrmInit
  <2>6. RowsInv
    <3>1. \A a \in Accounts : crm[a] \in AccountRow
      <4>1. [exists |-> FALSE, name |-> NoRow] \in AccountRow
        BY DEF AccountRow
      <4> QED
        BY Zenon, <2>1, <4>1
    <3>2. \A c \in Contacts : crm[c] \in ContactRow /\ Linked(crm, crm[c].account_id)
      <4>1. [exists |-> FALSE, account_id |-> NoRow] \in ContactRow
        BY DEF ContactRow
      <4>2. [exists |-> FALSE, account_id |-> NoRow].account_id = NoRow
        BY Zenon
      <4> QED
        BY Zenon, <2>2, <4>1, <4>2 DEF Linked
    <3>3. \A t \in Tasks : crm[t] \in TaskRow /\ TaskOK(crm[t])
      <4>1. [exists |-> FALSE, status |-> "open", completed_at |-> FALSE] \in TaskRow
        BY DEF TaskRow
      <4>2. TaskOK([exists |-> FALSE, status |-> "open", completed_at |-> FALSE])
        BY DEF TaskOK
      <4> QED
        BY Zenon, <2>3, <4>1, <4>2
    <3>4. \A n \in Notes : crm[n] \in NoteRow /\ NoteOK(crm[n])
      <4>1. [exists |-> FALSE, created_by |-> NoRow, updated_by |-> NoRow, is_pinned |-> FALSE]
              \in NoteRow
        BY DEF NoteRow
      <4>2. NoteOK([exists |-> FALSE, created_by |-> NoRow, updated_by |-> NoRow,
                    is_pinned |-> FALSE])
        BY DEF NoteOK
      <4> QED
        BY Zenon, <2>4, <4>1, <4>2
    <3> QED
      BY Zenon, <2>5, <3>1, <3>2, <3>3, <3>4 DEF RowsInv
  <2>7. ~NameTaken(crm)
    BY <2>1 DEF NameTaken
  <2> QED
    BY Zenon, <2>6, <2>7 DEF CrmInit, CrmInv, CrmReqInv, OneCreator
<1>2. CrmInv /\ [CrmNext]_crmVars => CrmInv'
  <2> SUFFICES ASSUME CrmInv, [CrmNext]_crmVars
               PROVE  CrmInv'
    OBVIOUS
  <2>1. CASE CrmNext
    BY Zenon, <2>1, DirectoryStep, WorkStep, CommitRowStep DEF CrmNext
  <2>2. CASE UNCHANGED crmVars
    BY Zenon, <2>2 DEF crmVars, CrmInv, RowsInv, CrmReqInv, OneCreator
  <2> QED
    BY Zenon, <2>1, <2>2
<1> QED
  BY <1>1, <1>2, PTL DEF CrmSpec

(* CrmTables: for any tables and any number of requests in flight, account  *)
(* names are unique (uq_accounts_tenant_name_active), a contact's account   *)
(* exists, only its author has edited a note, and the completion time of a  *)
(* task not written from an outdated load follows its status.               *)
THEOREM TablesConsistent == CrmSpec => []TablesAreConsistent
<1>1. CrmInv => TablesAreConsistent
  BY Zenon DEF CrmInv, RowsInv, NameTaken, Linked, NoteOK, TaskOK, TablesAreConsistent, Exists
<1> QED
  BY <1>1, CrmInvariant, PTL
=============================================================================
