------------------------------- MODULE Files -------------------------------
(***************************************************************************)
(* Uploaded files and documents (crm/documents.py), object storage         *)
(* (integrations/storage.py) and the scanning task (celery/tasks/files.py):*)
(* an upload is requested against a daily allowance, put by the client,    *)
(* completed, inspected and scanned by tasks that may run twice, and       *)
(* downloadable once clean.                                                *)
(***************************************************************************)
EXTENDS Naturals, FiniteSets, RowFlush

CONSTANTS
  FileIds, DocIds,
  FileRequests,      \* requests in flight at a time
  ScanTasks,         \* runs of scan_file in flight at a time
  DAILY_USER_LIMIT,  \* in files: one file is one unit of the allowance
  DocTargets,        \* statuses a document is set to
  NoFile             \* null

SCAN_STATUSES == {"pending", "scanning", "clean", "quarantined", "rejected"}
Verdicts == {"clean", "quarantined", "rejected"}

(* What the bytes of an object are: not of the size, type or encryption     *)
(* asked for, not of the declared type or active, infected, or fine.        *)
Contents == {"unlike intent", "unlike type", "infected", "fine"}

DOCUMENT_STATUSES == {"draft", "generated", "sent", "viewed", "signed", "expired", "void"}

(* The statuses that are stamped; each has its column.                      *)
Stamps == {"sent", "viewed", "signed", "void"}

ASSUME FileAssumption ==
  /\ IsFiniteSet(FileIds) /\ IsFiniteSet(FileRequests) /\ FileRequests # {}
  /\ DAILY_USER_LIMIT \in Nat
  /\ NoFile \notin Contents \cup Verdicts

VARIABLES
  files,    \* the rows
  object,   \* bytes in the bucket, or NoFile
  docs,     \* the rows
  fileReq,  \* requests in flight
  scan      \* runs of scan_file in flight

fileVars == <<files, object, docs, fileReq, scan>>

FileObject == [exists : BOOLEAN, deleted : BOOLEAN, scan_status : SCAN_STATUSES, sha256 : BOOLEAN]
Document == [exists : BOOLEAN, deleted : BOOLEAN, status : DOCUMENT_STATUSES,
             file_id : FileIds \cup {NoFile},
             sent : BOOLEAN, viewed : BOOLEAN, signed : BOOLEAN, void : BOOLEAN]

FileTypeOK ==
  /\ files \in [FileIds -> FileObject]
  /\ object \in [FileIds -> Contents \cup {NoFile}]
  /\ docs \in [DocIds -> Document]

FileInit ==
  /\ files = [f \in FileIds |-> [exists |-> FALSE, deleted |-> FALSE,
                                 scan_status |-> "pending", sha256 |-> FALSE]]
  /\ object = [f \in FileIds |-> NoFile]
  /\ docs = [d \in DocIds |-> [exists |-> FALSE, deleted |-> FALSE, status |-> "draft",
                               file_id |-> NoFile, sent |-> FALSE, viewed |-> FALSE,
                               signed |-> FALSE, void |-> FALSE]]
  /\ fileReq = [q \in FileRequests |-> NoFile]
  /\ scan = [t \in ScanTasks |-> NoFile]

-----------------------------------------------------------------------------
(* get_scoped: a deleted row is not found.                                  *)
GetFile(f) == files[f].exists /\ ~files[f].deleted
GetDocument(d) == docs[d].exists /\ ~docs[d].deleted

Begin(q, r) ==
  /\ fileReq[q] = NoFile
  /\ fileReq' = [fileReq EXCEPT ![q] = r]
  /\ UNCHANGED <<files, object, docs, scan>>

LoadAs(op, id, old, new) == [op |-> op, id |-> id, writes |-> Write(id, old, new)]

(* _daily_bytes counts deleted files out.                                   *)
daily_bytes == Cardinality({f \in FileIds : GetFile(f)})

validate_upload_request_Unchecked(already) == TRUE

validate_upload_request(already) == already + 1 <= DAILY_USER_LIMIT

(* The allowance is read in one transaction, the row inserted in another.   *)
request_upload(q, f) ==
  /\ ~files[f].exists
  /\ ~\E p \in FileRequests : fileReq[p] # NoFile /\ fileReq[p].op = "upload" /\ fileReq[p].id = f
  /\ validate_upload_request(daily_bytes)
  /\ Begin(q, [op |-> "upload", id |-> f])

InsertFile(q) ==
  /\ fileReq[q] # NoFile /\ fileReq[q].op = "upload"
  /\ files' = [files EXCEPT ![fileReq[q].id].exists = TRUE]
  /\ fileReq' = [fileReq EXCEPT ![q] = NoFile]
  /\ UNCHANGED <<object, docs, scan>>

(* The client posts to the presigned URL, once.                             *)
PutObject(f, c) ==
  /\ files[f].exists /\ object[f] = NoFile
  /\ object' = [object EXCEPT ![f] = c]
  /\ UNCHANGED <<files, docs, fileReq, scan>>

(* The object's head is read before the transaction; no object is an error. *)
complete_upload(q, f) ==
  /\ GetFile(f) /\ object[f] # NoFile
  /\ Begin(q, [op |-> "complete", id |-> f, head |-> object[f]])

(* A completion sent again finds the file past "pending".                   *)
Completable_Again(f, head) == GetFile(f) /\ head # "unlike intent"

Completable(f, head) ==
  GetFile(f) /\ files[f].scan_status = "pending" /\ head # "unlike intent"

(* Under the row lock: scope, duplicates and the object's head are checked. *)
FinishCompletion(q) ==
  /\ fileReq[q] # NoFile /\ fileReq[q].op = "complete"
  /\ LET r == fileReq[q] IN
       files' = IF Completable(r.id, r.head)
                  THEN [files EXCEPT ![r.id].scan_status = "scanning"]
                  ELSE files
  /\ fileReq' = [fileReq EXCEPT ![q] = NoFile]
  /\ UNCHANGED <<object, docs, scan>>

delete_file(q, f) ==
  /\ GetFile(f)
  /\ Begin(q, LoadAs("file", f, files[f], [files[f] EXCEPT !.deleted = TRUE]))

(* scan_file is queued by the completion's event, at least once.            *)
scan_file(t, f) ==
  /\ scan[t] = NoFile
  /\ files[f].exists /\ files[f].scan_status = "scanning"
  /\ scan' = [scan EXCEPT ![t] = [id |-> f, state |-> NoFile]]
  /\ UNCHANGED <<files, object, docs, fileReq>>

(* The inspection, then the scanner's verdict.                              *)
inspect_for_scan(f) == object[f]

content_is_safe_Any(c) == TRUE

content_is_safe(c) == c # "unlike type"

scanner_ok(c) == c # "infected"

verdict(c) ==
  IF ~content_is_safe(c) THEN "rejected"
  ELSE IF scanner_ok(c) THEN "clean" ELSE "quarantined"

Inspect(t) ==
  /\ scan[t] # NoFile /\ scan[t].state = NoFile
  /\ scan' = [scan EXCEPT ![t].state = verdict(inspect_for_scan(scan[t].id))]
  /\ UNCHANGED <<files, object, docs, fileReq>>

(* Storage or scanner unavailable: the file stays as it is and the run      *)
(* fails, to be retried.                                                    *)
record_retry(t) ==
  /\ scan[t] # NoFile /\ scan[t].state = NoFile
  /\ scan' = [scan EXCEPT ![t] = NoFile]
  /\ UNCHANGED <<files, object, docs, fileReq>>

finalize(t) ==
  /\ scan[t] # NoFile /\ scan[t].state # NoFile
  /\ files' = IF files[scan[t].id].scan_status \in Verdicts
                THEN files
                ELSE [files EXCEPT ![scan[t].id].scan_status = scan[t].state,
                                   ![scan[t].id].sha256 = TRUE]
  /\ scan' = [scan EXCEPT ![t] = NoFile]
  /\ UNCHANGED <<object, docs, fileReq>>

-----------------------------------------------------------------------------
(* assert_download_allowed: files for which a download URL is issued.       *)
download_url == {f \in FileIds : GetFile(f) /\ files[f].scan_status = "clean"}

create_document(q, d, f) ==
  /\ ~docs[d].exists
  /\ ~\E p \in FileRequests : fileReq[p] # NoFile /\ fileReq[p].op = "document" /\ fileReq[p].id = d
  /\ f = NoFile \/ f \in {g \in FileIds : GetFile(g)}
  /\ Begin(q, LoadAs("document", d, docs[d], [docs[d] EXCEPT !.exists = TRUE, !.file_id = f]))

(* A status that changes is stamped, the first time.                        *)
Stamped_Never(row, status) == [row EXCEPT !.status = status]

Stamped(row, status) ==
  IF status # row.status /\ status \in Stamps
    THEN [row EXCEPT !.status = status, ![status] = TRUE]
    ELSE [row EXCEPT !.status = status]

update_document(q, d, status, expected) ==
  /\ GetDocument(d)
  /\ BumpVersion(expected)
  /\ Begin(q, LoadAs("document", d, docs[d], Stamped(docs[d], status)))

delete_document(q, d) ==
  /\ GetDocument(d)
  /\ Begin(q, LoadAs("document", d, docs[d], [docs[d] EXCEPT !.deleted = TRUE]))

CommitFile(q) ==
  /\ fileReq[q] # NoFile /\ fileReq[q].op \in {"file", "document"}
  /\ IF fileReq[q].op = "file"
       THEN files' = Commit(files, fileReq[q]) /\ UNCHANGED docs
       ELSE docs' = Commit(docs, fileReq[q]) /\ UNCHANGED files
  /\ fileReq' = [fileReq EXCEPT ![q] = NoFile]
  /\ UNCHANGED <<object, scan>>

(* The write routes of /files and of /documents.                            *)
FileRoutes(q) == \E f \in FileIds : request_upload(q, f) \/ complete_upload(q, f) \/ delete_file(q, f)

DocumentRoutes(q) ==
  \E d \in DocIds :
    \/ \E f \in FileIds \cup {NoFile} : create_document(q, d, f)
    \/ \E s \in DocTargets : update_document(q, d, s, "current")
    \/ delete_document(q, d)

FileNext ==
  \/ \E q \in FileRequests : FileRoutes(q) \/ DocumentRoutes(q) \/ InsertFile(q)
                             \/ FinishCompletion(q) \/ CommitFile(q)
  \/ \E f \in FileIds, c \in Contents : PutObject(f, c)
  \/ \E t \in ScanTasks : (\E f \in FileIds : scan_file(t, f)) \/ Inspect(t) \/ record_retry(t) \/ finalize(t)

FileSpec == FileInit /\ [][FileNext]_fileVars

-----------------------------------------------------------------------------
(* The first verdict stands: a scan delivered again, or finishing after     *)
(* another, changes nothing, and neither does a request that loaded the row *)
(* before the verdict.                                                      *)
VerdictIsFinal ==
  [][\A f \in FileIds : files[f].scan_status \in Verdicts
       => files'[f].scan_status = files[f].scan_status]_fileVars

(* Only a file whose bytes were inspected and found clean is downloadable,  *)
(* however often the scan ran and whatever else wrote the row.              *)
DownloadableIsClean ==
  \A f \in download_url : object[f] = "fine" /\ files[f].sha256

(* Uploads requested at once read the same total, but overrun the daily     *)
(* allowance by no more than one file for each further request in flight.   *)
AllowanceOverrunIsBounded ==
  daily_bytes <= DAILY_USER_LIMIT + Cardinality(FileRequests) - 1

(* What is let in is bounded and what is let out is clean: the two promises *)
(* of validate_upload_request and of the download route.                    *)
UploadsAreContained == DownloadableIsClean /\ AllowanceOverrunIsBounded

(* A document in a stamped status carries that status's time, whatever      *)
(* other updates it was loaded before or after.                             *)
StatusIsStamped == \A d \in DocIds : docs[d].status \in Stamps => docs[d][docs[d].status]
=============================================================================
