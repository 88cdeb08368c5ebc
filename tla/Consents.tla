------------------------------ MODULE Consents ------------------------------
(***************************************************************************)
(* The consent ledger of one contact, type and channel, and the messages   *)
(* queued under it (communications/consents.py, InboxService.send).  A     *)
(* record is ordered by the moment its request began, which is before the  *)
(* request waits for its lock.  Grants exclude one another, withdrawals of *)
(* one grant too; a send takes no lock.                                    *)
(***************************************************************************)
EXTENDS Naturals, FiniteSets

CONSTANTS
  ConsentRequests,  \* requests in flight at a time
  MaxMoments,       \* bound on grants and withdrawals begun
  QueuedMessages,   \* messages that may be queued
  NoConsent         \* null

ASSUME ConsentAssumption == MaxMoments \in Nat /\ NoConsent \notin Nat

VARIABLES
  ledger,      \* consent_records, by the moment in created_at
  moments,     \* the last moment taken
  queue,       \* the status of each outbound message
  consentReq,  \* requests in flight
  slipped      \* messages whose send overlapped a withdrawal

consentVars == <<ledger, moments, queue, consentReq, slipped>>

Moments == 1..MaxMoments

ConsentRecord == [status : {"granted", "withdrawn"}, withdraws : Moments \cup {NoConsent},
                  expired : BOOLEAN]

ConsentTypeOK ==
  /\ DOMAIN ledger \subseteq 1..moments /\ moments \in 0..MaxMoments
  /\ \A m \in DOMAIN ledger : ledger[m] \in ConsentRecord
  /\ queue \in [QueuedMessages -> {"none", "queued", "failed"}]
  /\ slipped \subseteq QueuedMessages

ConsentInit ==
  /\ ledger = << >> /\ moments = 0
  /\ queue = [s \in QueuedMessages |-> "none"]
  /\ consentReq = [q \in ConsentRequests |-> NoConsent]
  /\ slipped = {}

-----------------------------------------------------------------------------
Asks(q, op) == consentReq[q] # NoConsent /\ consentReq[q].op = op

Answer(q, r) == consentReq' = [consentReq EXCEPT ![q] = r]

(* The latest record decides, and must not have expired.                    *)
contact_has_consent ==
  \E m \in DOMAIN ledger :
    /\ \A n \in DOMAIN ledger : n <= m
    /\ ledger[m].status = "granted" /\ ~ledger[m].expired

Recorded(m, record) == [n \in DOMAIN ledger \cup {m} |-> IF n = m THEN record ELSE ledger[n]]

(* moment = utcnow(), of a grant or of the withdrawal of grant g.           *)
TakeMoment(q, op, g) ==
  /\ consentReq[q] = NoConsent
  /\ moments < MaxMoments
  /\ moments' = moments + 1
  /\ Answer(q, [op |-> op, moment |-> moments + 1, of |-> g])
  /\ UNCHANGED <<ledger, queue, slipped>>

(* grant, under its advisory lock: one in force already is the answer.      *)
grant(q) ==
  /\ Asks(q, "grant")
  /\ ledger' = IF contact_has_consent THEN ledger
               ELSE Recorded(consentReq[q].moment,
                             [status |-> "granted", withdraws |-> NoConsent, expired |-> FALSE])
  /\ Answer(q, NoConsent)
  /\ UNCHANGED <<moments, queue, slipped>>

(* withdraw locks the grant, and refuses a second time.                     *)
Unwithdrawn_Any(g) == TRUE

Unwithdrawn(g) == ~\E m \in DOMAIN ledger : ledger[m].withdraws = g

Lockable(q) == ~\E p \in ConsentRequests \ {q} : Asks(p, "commit") /\ consentReq[p].of = consentReq[q].of

Waiting == {s \in QueuedMessages : queue[s] = "queued"}

(* What becomes of the messages its UPDATE sees as pending or queued.       *)
Cancelled_Kept(seen) == queue

Cancelled(seen) == [s \in QueuedMessages |-> IF s \in seen THEN "failed" ELSE queue[s]]

CancelQueued(q) ==
  /\ Asks(q, "withdraw")
  /\ Lockable(q)
  /\ IF Unwithdrawn(consentReq[q].of)
       THEN Answer(q, [op |-> "commit", moment |-> consentReq[q].moment,
                       of |-> consentReq[q].of, seen |-> Waiting])
       ELSE Answer(q, NoConsent)
  /\ UNCHANGED <<ledger, moments, queue, slipped>>

(* The commit.  A message queued since the UPDATE, or whose send has looked *)
(* at the ledger and not committed, slips through.                          *)
withdraw(q) ==
  /\ Asks(q, "commit")
  /\ LET r == consentReq[q] IN
       /\ ledger' = Recorded(r.moment, [status |-> "withdrawn", withdraws |-> r.of, expired |-> FALSE])
       /\ queue' = Cancelled(r.seen)
       /\ slipped' = slipped \cup (Waiting \ r.seen) \cup
            {s \in QueuedMessages : \E p \in ConsentRequests : Asks(p, "send") /\ consentReq[p].message = s}
  /\ Answer(q, NoConsent)
  /\ UNCHANGED moments

(* send: the consent is looked up in the transaction that queues.           *)
CheckConsent(q, s) ==
  /\ consentReq[q] = NoConsent
  /\ queue[s] = "none"
  /\ ~\E p \in ConsentRequests : Asks(p, "send") /\ consentReq[p].message = s
  /\ contact_has_consent
  /\ Answer(q, [op |-> "send", message |-> s])
  /\ UNCHANGED <<ledger, moments, queue, slipped>>

QueueMessage(q) ==
  /\ Asks(q, "send")
  /\ queue' = [queue EXCEPT ![consentReq[q].message] = "queued"]
  /\ Answer(q, NoConsent)
  /\ UNCHANGED <<ledger, moments, slipped>>

(* expires_at passes.                                                       *)
GrantExpires(m) ==
  /\ ledger[m].status = "granted" /\ ~ledger[m].expired
  /\ ledger' = [ledger EXCEPT ![m].expired = TRUE]
  /\ UNCHANGED <<moments, queue, consentReq, slipped>>

(* The routes of /consents.                                                 *)
ConsentRoutes(q) ==
  \/ TakeMoment(q, "grant", NoConsent) \/ grant(q)
  \/ \E g \in DOMAIN ledger : ledger[g].status = "granted" /\ TakeMoment(q, "withdraw", g)
  \/ CancelQueued(q) \/ withdraw(q)

ConsentNext ==
  \/ \E q \in ConsentRequests : ConsentRoutes(q) \/ QueueMessage(q) \/
                                \E s \in QueuedMessages : CheckConsent(q, s)
  \/ \E m \in DOMAIN ledger : GrantExpires(m)

ConsentSpec == ConsentInit /\ [][ConsentNext]_consentVars

-----------------------------------------------------------------------------
(* A withdrawal cancels what waits to be sent: while the latest decision is *)
(* a withdrawal the only queued messages are those whose send overlapped    *)
(* it.  A grant is withdrawn once, however often the request is repeated.   *)
WithdrawalIsHonoured ==
  /\ \A s \in QueuedMessages \ slipped : queue[s] = "queued" =>
       \E m \in DOMAIN ledger : ledger[m].status = "granted" /\ \A n \in DOMAIN ledger : n <= m
  /\ \A m, n \in DOMAIN ledger :
       ledger[m].status = "withdrawn" /\ ledger[m].withdraws = ledger[n].withdraws => m = n
=============================================================================
