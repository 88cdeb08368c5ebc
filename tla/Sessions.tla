------------------------------ MODULE Sessions ------------------------------
(***************************************************************************)
(* The sessions of one active account (application/auth/service.py,        *)
(* sessions.py, mfa.py, oauth.py, infrastructure/auth/tokens.py and        *)
(* passwords.py): password and Google sign-in, the second factor, rotation *)
(* of refresh tokens, the session cap, the lockout and every way a session *)
(* ends.  A handler that reads in one transaction and writes in a later    *)
(* one is two steps; a transaction whose writes do not depend on when it   *)
(* read is one.  Passwords and codes are abstracted to right or wrong.     *)
(***************************************************************************)
EXTENDS Naturals, Sequences, FiniteSets

CONSTANTS
  AuthRequests,           \* requests in flight at a time
  Codes,                  \* recovery codes of a batch
  MAX_FAILED_ATTEMPTS,
  MAX_SESSIONS_PER_USER,
  MaxTokens,              \* bound on refresh tokens ever issued
  MaxTickets,             \* bound on challenges and OAuth states
  MaxBatches,             \* bound on batches of recovery codes
  NoAuth

ASSUME AuthAssumption ==
  /\ IsFiniteSet(AuthRequests) /\ AuthRequests # {}
  /\ {MAX_FAILED_ATTEMPTS, MAX_SESSIONS_PER_USER} \subseteq Nat \ {0}
  /\ {MaxTokens, MaxTickets, MaxBatches} \subseteq Nat

Tokens == 1..MaxTokens

Tickets == 1..MaxTickets

RecoveryCodes == (1..MaxBatches) \X Codes

VARIABLES
  account,     \* the user row
  token,       \* refresh_tokens, by order of creation; a family is its first token
  ticket,      \* one-time keys in Redis
  batches,     \* batches of recovery codes made so far
  authReq,     \* requests in flight
  ended,       \* families that were revoked as a whole
  overlapped,  \* families rotated from a token revoked since it was read
  bought,      \* sessions opened for each ticket
  spent,       \* recovery codes accepted once, accepted again
  codeTaint    \* an outdated list of recovery codes was written

authVars == <<account, token, ticket, batches, authReq, ended, overlapped, bought, spent, codeTaint>>

User == [failed_login_count : 0..MAX_FAILED_ATTEMPTS, locked_until : BOOLEAN,
         mfa_enabled : BOOLEAN, mfa_recovery_codes : SUBSET RecoveryCodes]

RefreshToken == [family : Tokens, revoked_at : BOOLEAN, expired : BOOLEAN]

Issued == DOMAIN token

AuthTypeOK ==
  /\ account \in User
  /\ \E n \in 0..MaxTokens : Issued = 1..n
  /\ \A t \in Issued : token[t] \in RefreshToken /\ token[t].family <= t
  /\ ticket \in [Tickets -> {"unused", "challenge", "state", "gone"}]
  /\ batches \in 0..MaxBatches
  /\ ended \cup overlapped \subseteq Issued
  /\ bought \in [Tickets -> 0..MaxTokens]
  /\ spent \in [RecoveryCodes -> 0..2]

AuthInit ==
  /\ account = [failed_login_count |-> 0, locked_until |-> FALSE,
                mfa_enabled |-> FALSE, mfa_recovery_codes |-> {}]
  /\ token = << >>
  /\ ticket = [c \in Tickets |-> "unused"]
  /\ batches = 0
  /\ authReq = [q \in AuthRequests |-> NoAuth]
  /\ ended = {} /\ overlapped = {}
  /\ bought = [c \in Tickets |-> 0]
  /\ spent = [r \in RecoveryCodes |-> 0]
  /\ codeTaint = FALSE

-----------------------------------------------------------------------------
Become(q, r) == authReq' = [authReq EXCEPT ![q] = r]

Awaits(q, step) == authReq[q] # NoAuth /\ authReq[q].step = step

(* A session to be opened, and the ticket it is opened for (0: none).       *)
Opening(step, c) == [step |-> step, ticket |-> c]

(* A code to be proved, and the step that follows.                          *)
Proving(c, then) == [step |-> "code", ticket |-> c, then |-> then]

(* lockout_state: the count alone locks once the time has run out.          *)
lockout_state == account.locked_until \/ account.failed_login_count >= MAX_FAILED_ATTEMPTS

(* login, phase 1: a locked account is refused.                             *)
ResolvePrincipal(q, password_ok) ==
  /\ authReq[q] = NoAuth
  /\ ~lockout_state
  /\ Become(q, [step |-> "login", ok |-> password_ok, failed_count |-> account.failed_login_count])
  /\ UNCHANGED <<batches, account, token, ticket, ended, overlapped, bought, spent, codeTaint>>

(* next_lockout and the count, from what phase 1 read.                      *)
LoginFails(q) ==
  /\ Awaits(q, "login") /\ ~authReq[q].ok
  /\ LET count == authReq[q].failed_count + 1 IN
       account' = [account EXCEPT !.failed_login_count = count,
                                  !.locked_until = count >= MAX_FAILED_ATTEMPTS]
  /\ Become(q, NoAuth)
  /\ UNCHANGED <<batches, token, ticket, ended, overlapped, bought, spent, codeTaint>>

(* The right password resets both; with a second factor enrolled it parks   *)
(* the sign-in in Redis (create_mfa_challenge).                             *)
Park(what) ==
  \E c \in Tickets : ticket[c] = "unused" /\ ticket' = [ticket EXCEPT ![c] = what]

LoginSucceeds(q) ==
  /\ Awaits(q, "login") /\ authReq[q].ok
  /\ account' = [account EXCEPT !.failed_login_count = 0, !.locked_until = FALSE]
  /\ \/ /\ ~account.mfa_enabled
        /\ Become(q, Opening("cap", 0))
        /\ UNCHANGED ticket
     \/ /\ account.mfa_enabled
        /\ Park("challenge")
        /\ Become(q, NoAuth)
  /\ UNCHANGED <<batches, token, ended, overlapped, bought, spent, codeTaint>>

(* oauth.begin parks its state in the same way.                             *)
BeginOAuth ==
  /\ Park("state")
  /\ UNCHANGED <<batches, account, token, authReq, ended, overlapped, bought, spent, codeTaint>>

(* consume_mfa_challenge, consume_state: GETDEL.                            *)
consume_Get(c) == UNCHANGED ticket

consume(c) == ticket' = [ticket EXCEPT ![c] = "gone"]

(* The callback signs in once Google has answered; a challenge goes on to   *)
(* the code.                                                                *)
RedeemTicket(q, c) ==
  /\ authReq[q] = NoAuth
  /\ \/ ticket[c] = "challenge" /\ Become(q, Proving(c, "cap"))
     \/ ticket[c] = "state" /\ Become(q, Opening("cap", c))
  /\ consume(c)
  /\ UNCHANGED <<batches, account, token, ended, overlapped, bought, spent, codeTaint>>

(* The Redis key expires.                                                   *)
TicketExpires(c) ==
  /\ ticket[c] \in {"challenge", "state"}
  /\ ticket' = [ticket EXCEPT ![c] = "gone"]
  /\ UNCHANGED <<batches, account, token, authReq, ended, overlapped, bought, spent, codeTaint>>

(* check_code: a wrong code ends the attempt, the ticket being spent.       *)
check_code(q) ==
  /\ Awaits(q, "code")
  /\ \/ account.mfa_enabled /\ Become(q, Opening(authReq[q].then, authReq[q].ticket))
     \/ Become(q, NoAuth)
  /\ UNCHANGED <<batches, account, token, ticket, ended, overlapped, bought, spent, codeTaint>>

(* consume_recovery_code: the remaining codes are computed from the row as  *)
(* loaded and written without a lock.                                       *)
FindRecoveryCode(q, r) ==
  /\ Awaits(q, "code")
  /\ account.mfa_enabled
  /\ Become(q, [step |-> "spend", ticket |-> authReq[q].ticket, then |-> authReq[q].then,
                code |-> r, loaded |-> account.mfa_recovery_codes])
  /\ UNCHANGED <<batches, account, token, ticket, ended, overlapped, bought, spent, codeTaint>>

Remaining_All(loaded, r) == loaded

Remaining(loaded, r) == loaded \ {r}

consume_recovery_code(q) ==
  /\ Awaits(q, "spend")
  /\ LET loaded == authReq[q].loaded
         r == authReq[q].code IN
       /\ account' = [account EXCEPT !.mfa_recovery_codes = Remaining(loaded, r)]
       /\ spent' = [spent EXCEPT ![r] = IF @ = 0 THEN 1 ELSE 2]
       /\ codeTaint' = (codeTaint \/ account.mfa_recovery_codes # loaded)
  /\ Become(q, Opening(authReq[q].then, authReq[q].ticket))
  /\ UNCHANGED <<batches, token, ticket, ended, overlapped, bought>>

(* mfa_verify without a challenge: a further session, verified.             *)
StepUp(q) ==
  /\ authReq[q] = NoAuth
  /\ account.mfa_enabled
  /\ Become(q, Opening("cap", 0))
  /\ UNCHANGED <<batches, account, token, ticket, ended, overlapped, bought, spent, codeTaint>>

-----------------------------------------------------------------------------
Unrevoked(f) == {t \in Issued : token[t].family = f /\ ~token[t].revoked_at}

Live == {t \in Issued : ~token[t].revoked_at /\ ~token[t].expired}

LiveFamilies == {token[t].family : t \in Live}

(* A session's place is that of its oldest live token: a rotation moves it  *)
(* to the end.                                                              *)
OldestLive == {t \in Live : \A u \in Live : token[u].family = token[t].family => t <= u}

(* sessions_to_evict: the oldest, so that one more fits.                    *)
sessions_to_evict_Late(sessions) ==
  {s \in sessions : Cardinality({g \in sessions : g >= s}) > MAX_SESSIONS_PER_USER}

sessions_to_evict(sessions) ==
  {s \in sessions : Cardinality({g \in sessions : g >= s}) >= MAX_SESSIONS_PER_USER}

Revoke(ts) == [t \in Issued |-> IF t \in ts THEN [token[t] EXCEPT !.revoked_at = TRUE] ELSE token[t]]

(* enforce_session_cap, a transaction before the one that opens the session.*)
enforce_session_cap(q) ==
  /\ Awaits(q, "cap")
  /\ LET doomed == {token[t].family : t \in sessions_to_evict(OldestLive)} IN
       /\ token' = Revoke({t \in Live : token[t].family \in doomed})
       /\ ended' = ended \cup doomed
  /\ Become(q, Opening("open", authReq[q].ticket))
  /\ UNCHANGED <<batches, account, ticket, overlapped, bought, spent, codeTaint>>

NextToken == Len(token) + 1

With(tokens, f) == Append(tokens, [family |-> f, revoked_at |-> FALSE, expired |-> FALSE])

issue_session(q) ==
  /\ Awaits(q, "open")
  /\ NextToken \in Tokens
  /\ token' = With(token, NextToken)
  /\ bought' = IF authReq[q].ticket = 0 THEN bought ELSE [bought EXCEPT ![authReq[q].ticket] = @ + 1]
  /\ Become(q, NoAuth)
  /\ UNCHANGED <<batches, account, ticket, ended, overlapped, spent, codeTaint>>

(* evaluate_rotation.                                                       *)
Accepted_Replay(t) == ~token[t].expired

Accepted(t) == ~token[t].revoked_at /\ ~token[t].expired

EvaluateRotation(q, t) ==
  /\ authReq[q] = NoAuth
  /\ Accepted(t)
  /\ Become(q, [step |-> "rotate", token |-> t, revoked_at |-> token[t].revoked_at])
  /\ UNCHANGED <<batches, account, token, ticket, ended, overlapped, bought, spent, codeTaint>>

EndFamily(f) ==
  /\ token' = Revoke(Unrevoked(f))
  /\ ended' = ended \cup {f}
  /\ UNCHANGED <<batches, account, ticket, authReq, overlapped, bought, spent, codeTaint>>

(* A token that was revoked is presented again: the family is dropped.      *)
DetectReuse(t) == token[t].revoked_at /\ EndFamily(token[t].family)

(* The rotation does not look at the token again.                           *)
refresh(q) ==
  /\ Awaits(q, "rotate")
  /\ NextToken \in Tokens
  /\ LET t == authReq[q].token
         f == token[t].family IN
       /\ token' = With(Revoke({t}), f)
       /\ overlapped' = IF token[t].revoked_at # authReq[q].revoked_at
                          THEN overlapped \cup {f} ELSE overlapped
  /\ Become(q, NoAuth)
  /\ UNCHANGED <<batches, account, ticket, ended, bought, spent, codeTaint>>

logout(t) == EndFamily(token[t].family)

revoke_session(f) == Unrevoked(f) # {} /\ EndFamily(f)

EndAll ==
  /\ token' = Revoke(Issued)
  /\ ended' = ended \cup {f \in Issued : Unrevoked(f) # {}}

revoke_all ==
  /\ EndAll
  /\ UNCHANGED <<batches, account, ticket, authReq, overlapped, bought, spent, codeTaint>>

(* reset_password also unlocks the account.                                 *)
reset_password ==
  /\ account' = [account EXCEPT !.failed_login_count = 0, !.locked_until = FALSE]
  /\ EndAll
  /\ UNCHANGED <<batches, ticket, authReq, overlapped, bought, spent, codeTaint>>

(* complete_enrolment; two that overlap both find it off and both succeed.  *)
LoadEnrolment(q) ==
  /\ authReq[q] = NoAuth
  /\ ~account.mfa_enabled
  /\ Become(q, [step |-> "enrol"])
  /\ UNCHANGED <<batches, account, token, ticket, ended, overlapped, bought, spent, codeTaint>>

NewBatch == {batches + 1} \X Codes

complete_enrolment(q) ==
  /\ Awaits(q, "enrol")
  /\ batches < MaxBatches
  /\ batches' = batches + 1
  /\ account' = [account EXCEPT !.mfa_enabled = TRUE, !.mfa_recovery_codes = NewBatch]
  /\ Become(q, NoAuth)
  /\ UNCHANGED <<token, ticket, ended, overlapped, bought, spent, codeTaint>>

(* regenerate_recovery_codes: a code is checked, the row is not again.      *)
CheckRegeneration(q) ==
  /\ authReq[q] = NoAuth
  /\ account.mfa_enabled
  /\ Become(q, [step |-> "regenerate"])
  /\ UNCHANGED <<batches, account, token, ticket, ended, overlapped, bought, spent, codeTaint>>

regenerate_recovery_codes(q) ==
  /\ Awaits(q, "regenerate")
  /\ batches < MaxBatches
  /\ batches' = batches + 1
  /\ account' = [account EXCEPT !.mfa_recovery_codes = NewBatch]
  /\ Become(q, NoAuth)
  /\ UNCHANGED <<token, ticket, ended, overlapped, bought, spent, codeTaint>>

(* disable: the password, then a code, then the change, unconditionally.    *)
AskToDisable(q) ==
  /\ authReq[q] = NoAuth
  /\ account.mfa_enabled
  /\ Become(q, Proving(0, "disable"))
  /\ UNCHANGED <<batches, account, token, ticket, ended, overlapped, bought, spent, codeTaint>>

disable(q) ==
  /\ Awaits(q, "disable")
  /\ account' = [account EXCEPT !.mfa_enabled = FALSE, !.mfa_recovery_codes = {}]
  /\ EndAll
  /\ Become(q, NoAuth)
  /\ UNCHANGED <<batches, ticket, overlapped, bought, spent, codeTaint>>

(* Time passes the lock or a token's expiry.                                *)
LockRunsOut ==
  /\ account.locked_until
  /\ account' = [account EXCEPT !.locked_until = FALSE]
  /\ UNCHANGED <<batches, token, ticket, authReq, ended, overlapped, bought, spent, codeTaint>>

(* What becomes of a revoked token makes no difference.                     *)
TokenExpires(t) ==
  /\ ~token[t].expired /\ ~token[t].revoked_at
  /\ token' = [token EXCEPT ![t].expired = TRUE]
  /\ UNCHANGED <<batches, account, ticket, authReq, ended, overlapped, bought, spent, codeTaint>>

SignInRoutes(q) ==
  \/ \E ok \in BOOLEAN : ResolvePrincipal(q, ok)
  \/ LoginFails(q) \/ LoginSucceeds(q)
  \/ enforce_session_cap(q) \/ issue_session(q)
  \/ refresh(q)

SecondFactorRoutes(q) ==
  \/ \E c \in Tickets : RedeemTicket(q, c)
  \/ check_code(q) \/ StepUp(q) \/ consume_recovery_code(q)
  \/ \E r \in account.mfa_recovery_codes : FindRecoveryCode(q, r)
  \/ LoadEnrolment(q) \/ complete_enrolment(q)
  \/ CheckRegeneration(q) \/ regenerate_recovery_codes(q)
  \/ AskToDisable(q) \/ disable(q)

SessionRoutes ==
  \/ \E t \in Issued :
       \/ DetectReuse(t) \/ logout(t) \/ revoke_session(t) \/ TokenExpires(t)
       \/ \E q \in AuthRequests : EvaluateRotation(q, t)
  \/ revoke_all \/ reset_password \/ BeginOAuth \/ LockRunsOut
  \/ \E c \in Tickets : TicketExpires(c)

AuthNext == SessionRoutes \/ \E q \in AuthRequests : SignInRoutes(q) \/ SecondFactorRoutes(q)

AuthSpec == AuthInit /\ [][AuthNext]_authVars

-----------------------------------------------------------------------------
(* A family no rotation overlapped has one usable token at most, and none   *)
(* once it was revoked by logging out, by an eviction, a reset, a disabled  *)
(* second factor or the replay of a rotated token (refresh's docstring).    *)
FamilyEndsWhole ==
  \A f \in Issued \ overlapped :
    /\ Cardinality(Unrevoked(f)) <= 1
    /\ f \in ended => Unrevoked(f) = {}

(* The cap is enforced a transaction before the session is opened; sign-ins *)
(* and rotations in flight exceed it by no more than their number less one. *)
CapOverrunIsBounded ==
  Cardinality(LiveFamilies) <= MAX_SESSIONS_PER_USER + Cardinality(AuthRequests) - 1

(* A challenge and an OAuth state open one session at most, whatever races  *)
(* (consume_mfa_challenge), and a recovery code is good for one sign-in     *)
(* unless two requests read the list of codes before either wrote it.       *)
OneSessionEach ==
  /\ \A c \in Tickets : bought[c] <= 1
  /\ ~codeTaint => \A r \in RecoveryCodes : spent[r] <= 1

(* A user does not hold more sessions than signed in, nor more than the cap *)
(* and the requests in flight allow.                                        *)
SessionsAreBounded == CapOverrunIsBounded /\ OneSessionEach
=============================================================================
