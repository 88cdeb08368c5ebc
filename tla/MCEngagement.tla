--------------------------- MODULE MCEngagement ---------------------------
(***************************************************************************)
(* Organisations, and the services that talk to customers, side by side:   *)
(* WhatsApp messaging, consents, web chat and the handlers of CRM events.  *)
(* As in MCRecords a behaviour runs one of them, named by `part`.          *)
(***************************************************************************)
EXTENDS Messaging, Identity, Consents, WebChat, CrmEvents, TLC

CONSTANTS m1, m2, p1, p2, q1, q2, c1, c2, c3, e1, e2, o1, o2

MCInbound == {m1, m2}
MCPhones == {p1, p2}
MCFrom == [m \in MCInbound |-> p1]
TwoRequests == {q1, q2}
RequestSymmetry == Permutations(TwoRequests)
ThreeRequests == {c1, c2, c3}
OneChat == {p1}
TwoMessages == {q1, q2}
TwoEmails == {e1, e2}
OneEmail == {e1}
TwoInvitations == {c1, c2}
OneLink == {p1}
TwoOrgs == {o1, o2}

VARIABLE part

Parts == {"messaging", "orgs", "consents", "chat", "events"}

engagementVars == <<part, vars, orgVars, consentVars, chatVars, eventVars>>

EngagementInit ==
  part \in Parts /\ Init /\ OrgInit /\ ConsentInit /\ ChatInit /\ EventsInit

Rest(p) ==
  /\ p # "messaging" => UNCHANGED vars
  /\ p # "orgs" => UNCHANGED orgVars
  /\ p # "consents" => UNCHANGED consentVars
  /\ p # "chat" => UNCHANGED chatVars
  /\ p # "events" => UNCHANGED eventVars

EngagementNext ==
  /\ \/ part = "messaging" /\ Next
     \/ part = "orgs" /\ OrgNext
     \/ part = "consents" /\ ConsentNext
     \/ part = "chat" /\ ChatNext
     \/ part = "events" /\ EventsNext
  /\ UNCHANGED part
  /\ Rest(part)

EngagementSpec == EngagementInit /\ [][EngagementNext]_engagementVars

-----------------------------------------------------------------------------
(* Bounds, by part.  Web chat: the widget is edited before the first        *)
(* session, which is served under the first key.                            *)
ChatBound ==
  /\ chatTaint = {}
  /\ (\E c \in Chats : chatRow[c].session # "none") =>
       /\ \A w \in widgets : w.key = 1
       /\ ~\E q \in ChatRequests : chatReq[q] # NoChat /\ chatReq[q].op = "widget"

(* Organisations: invitations are made in the order of their names, as any  *)
(* other order is a renaming of this one.                                   *)
OrgBound == c2 \in DOMAIN invitation => c1 \in DOMAIN invitation

EngagementBound ==
  CASE part = "orgs" -> OrgBound
    [] part = "chat" -> ChatBound
    [] part = "events" -> ~collided
    [] OTHER -> TRUE

-----------------------------------------------------------------------------
(* The variables of the component at work keep their types.                 *)
EngagementTypeOK ==
  CASE part = "messaging" -> TypeOK
    [] part = "orgs" -> OrgTypeOK
    [] part = "consents" -> ConsentTypeOK
    [] part = "chat" -> ChatTypeOK
    [] part = "events" -> EventsTypeOK
=============================================================================
