------------------------------- MODULE Forms -------------------------------
(***************************************************************************)
(* Lead capture forms: create, update, publish, unpublish and archive      *)
(* (leads/form_builder.py) while visitors submit them (leads/forms.py).    *)
(* A form edits a draft; publishing copies the draft to what the public    *)
(* endpoint serves.                                                        *)
(***************************************************************************)
EXTENDS Naturals, FiniteSets, RowFlush

CONSTANTS
  FormIds,       \* ids of forms
  FormRequests,  \* requests in flight at a time
  Schemas,       \* drafts
  NoForm,        \* null: no request, nothing published yet
  MAX_FORMS_PER_TENANT

ASSUME FormAssumption == NoForm \notin Schemas

VARIABLES
  form,       \* the rows
  formReq,    \* the builder's requests in flight
  formTaint,  \* forms once written from an outdated load
  visitor,    \* a submission between its lookup of the form and its insert
  received    \* forms with a submission on record

formVars == <<form, formReq, formTaint, visitor, received>>

FormRow == [exists : BOOLEAN, draft : Schemas \cup {NoForm}, live : Schemas \cup {NoForm},
            is_published : BOOLEAN, archived : BOOLEAN]

FormTypeOK ==
  /\ form \in [FormIds -> FormRow]
  /\ formTaint \subseteq FormIds /\ received \subseteq FormIds
  /\ visitor \in FormIds \cup {NoForm}
  /\ \A q \in FormRequests : formReq[q] # NoForm => formReq[q].stale \subseteq Dirty(formReq[q])

FormInit ==
  /\ form = [f \in FormIds |-> [exists |-> FALSE, draft |-> NoForm, live |-> NoForm,
                                is_published |-> FALSE, archived |-> FALSE]]
  /\ formReq = [q \in FormRequests |-> NoForm]
  /\ formTaint = {} /\ visitor = NoForm /\ received = {}

-----------------------------------------------------------------------------
(* _load                                                                    *)
FormFound(f) == form[f].exists /\ ~form[f].archived

LoadForm(q, f, new) ==
  /\ formReq[q] = NoForm
  /\ formReq' = [formReq EXCEPT ![q] = Load(f, form[f], new)]
  /\ UNCHANGED <<form, formTaint, visitor, received>>

(* The id is new: no other request can name it before the commit.           *)
create_form(q, f, schema) ==
  /\ ~form[f].exists
  /\ ~\E p \in FormRequests : formReq[p] # NoForm /\ f \in Dirty(formReq[p])
  /\ Cardinality({g \in FormIds : FormFound(g)}) < MAX_FORMS_PER_TENANT
  /\ LoadForm(q, f, [form[f] EXCEPT !.exists = TRUE, !.draft = schema])

update_form(q, f, schema, expected) ==
  /\ FormFound(f)
  /\ BumpVersion(expected)
  /\ LoadForm(q, f, [form[f] EXCEPT !.draft = schema])

publish_form(q, f) ==
  /\ FormFound(f)
  /\ LoadForm(q, f, [form[f] EXCEPT !.live = form[f].draft, !.is_published = TRUE])

unpublish_form(q, f) ==
  /\ FormFound(f)
  /\ form[f].is_published
  /\ LoadForm(q, f, [form[f] EXCEPT !.is_published = FALSE])

Offline_DeletedOnly(row) == [row EXCEPT !.archived = TRUE]

Offline(row) == [row EXCEPT !.is_published = FALSE, !.archived = TRUE]

archive_form(q, f) ==
  /\ FormFound(f)
  /\ LoadForm(q, f, Offline(form[f]))

CommitForm(q) ==
  /\ formReq[q] # NoForm
  /\ LET r == formReq[q] IN
       /\ form' = Commit(form, r)
       /\ formTaint' = formTaint \cup r.stale
       /\ formReq' = [p \in FormRequests |->
                        IF p = q \/ formReq[p] = NoForm THEN NoForm
                        ELSE Outdate(formReq[p], Dirty(r))]
  /\ UNCHANGED <<visitor, received>>

(* get_published_form looks at is_published alone.                          *)
get_published_form(f) == form[f].is_published

OpenForm(f) ==
  /\ visitor = NoForm
  /\ get_published_form(f)
  /\ visitor' = f
  /\ UNCHANGED <<form, formReq, formTaint, received>>

(* The insert of the source event; its key is the event's own id.           *)
submit_public_form ==
  /\ visitor # NoForm
  /\ received' = received \cup {visitor}
  /\ visitor' = NoForm
  /\ UNCHANGED <<form, formReq, formTaint>>

(* The write routes of /forms, and the public one.                          *)
FormRoutes(q) ==
  \E f \in FormIds :
    \/ \E s \in Schemas : create_form(q, f, s) \/ update_form(q, f, s, "none")
    \/ publish_form(q, f) \/ unpublish_form(q, f) \/ archive_form(q, f)

FormNext ==
  \/ \E q \in FormRequests : FormRoutes(q) \/ CommitForm(q)
  \/ \E f \in FormIds : OpenForm(f)
  \/ submit_public_form

FormSpec == FormInit /\ [][FormNext]_formVars

-----------------------------------------------------------------------------
(* archive_form takes the form offline in the same transaction: unless it   *)
(* was written from an outdated load, an archived form is not served, and   *)
(* a form is served only with a schema that publish_form copied.            *)
ArchivedIsOffline ==
  \A f \in FormIds \ formTaint :
    /\ form[f].archived => ~form[f].is_published
    /\ form[f].is_published => form[f].live # NoForm
=============================================================================
