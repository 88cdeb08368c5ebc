--------------------------- MODULE SessionProofs ----------------------------
(***************************************************************************)
(* Sessions for any number of requests, tokens, tickets and batches of     *)
(* recovery codes: AuthInv is inductive, and every step is quiet, opens    *)
(* one session or enforces the cap.  Counting from there, the families of  *)
(* an account end whole, and the number of its sessions is bounded, for    *)
(* any cap and any number of requests in flight.                           *)
(***************************************************************************)
EXTENDS Sessions, FiniteSetTheorems, WellFoundedInduction, TLAPS

(* Sessions.                                                                *)

(* The tokens that are not revoked, and the families that are live.         *)
Unrev(tok, f) == {t \in DOMAIN tok : tok[t].family = f /\ ~tok[t].revoked_at}
LiveFam(tok) == {tok[t].family : t \in {u \in DOMAIN tok : ~tok[u].revoked_at /\ ~tok[u].expired}}

TokenRows(tok) ==
  /\ tok \in Seq(RefreshToken) /\ Len(tok) \in 0..MaxTokens
  /\ \A t \in DOMAIN tok : tok[t] \in RefreshToken /\ tok[t].family \in DOMAIN tok

FamilyOK(tok, done, f) ==
  /\ \A t, u \in Unrev(tok, f) : t = u
  /\ f \in done => Unrev(tok, f) = {}

TokensOK(tok, done, over) ==
  /\ TokenRows(tok) /\ done \subseteq DOMAIN tok
  /\ \A f \in DOMAIN tok \ over : FamilyOK(tok, done, f)

(* The next token is a new one.                                             *)
LEMMA NextTokenHolds ==
  ASSUME TokenRows(token)
  PROVE  /\ Issued = 1..Len(token) /\ Len(token) \in Nat /\ Issued \subseteq Nat
         /\ NextToken \notin Issued /\ Issued \subseteq Tokens
         /\ NextToken \in Tokens => NextToken \in 0..MaxTokens
<1>1. token \in Seq(RefreshToken) /\ Len(token) \in 0..MaxTokens
  BY Zenon DEF TokenRows
<1>2. Issued = 1..Len(token) /\ Len(token) \in Nat
  BY <1>1 DEF Issued
<1> QED
  BY <1>1, <1>2, AuthAssumption DEF NextToken, Tokens

(* Rows changed in place are as many.                                       *)
LEMMA SameLength ==
  ASSUME TokenRows(token), NEW out, out = [t \in Issued |-> out[t]],
         \A t \in Issued : out[t] \in RefreshToken /\ out[t].family \in Issued
  PROVE  TokenRows(out) /\ DOMAIN out = Issued /\ Len(out) = Len(token)
<1>1. token \in Seq(RefreshToken) /\ Len(token) \in 0..MaxTokens
  BY Zenon DEF TokenRows
<1>2. DOMAIN out = Issued
  BY Zenon
<1>3. out \in Seq(RefreshToken) /\ Len(out) = Len(token)
  <2>1. DOMAIN token = 1..Len(token) /\ Len(token) \in Nat
    BY <1>1
  <2>2. out \in [1..Len(token) -> RefreshToken]
    BY Zenon, <2>1 DEF Issued
  <2> QED
    BY <2>1, <2>2
<1> QED
  BY Zenon, <1>1, <1>2, <1>3 DEF TokenRows

(* What revoking does to the rows.                                          *)
LEMMA RevokeHolds ==
  ASSUME TokenRows(token), NEW ts, NEW out, out = Revoke(ts)
  PROVE  /\ DOMAIN out = Issued /\ TokenRows(out) /\ Len(out) = Len(token)
         /\ \A t \in Issued : /\ out[t].family = token[t].family /\ out[t].expired = token[t].expired
                              /\ out[t].revoked_at <=> t \in ts \/ token[t].revoked_at
<1>1. /\ DOMAIN out = Issued
      /\ \A t \in Issued : out[t] = IF t \in ts THEN [token[t] EXCEPT !.revoked_at = TRUE] ELSE token[t]
  BY Zenon DEF Revoke
<1>2. ASSUME NEW t \in Issued
      PROVE  /\ out[t].family = token[t].family /\ out[t].expired = token[t].expired
             /\ out[t].revoked_at <=> t \in ts \/ token[t].revoked_at
             /\ out[t] \in RefreshToken
  <2> DEFINE new == [token[t] EXCEPT !.revoked_at = TRUE]
  <2>1. token[t] \in RefreshToken
    BY Zenon DEF TokenRows, Issued
  <2>2. new \in RefreshToken /\ new.family = token[t].family /\ new.expired = token[t].expired
        /\ new.revoked_at = TRUE
    BY Zenon, <2>1 DEF RefreshToken
  <2> HIDE DEF new
  <2>3. CASE t \in ts
    <3>1. out[t] = new
      BY Zenon, <1>1, <2>3 DEF new
    <3> QED
      BY Zenon, <2>2, <2>3, <3>1
  <2>4. CASE t \notin ts
    <3>1. out[t] = token[t]
      BY Zenon, <1>1, <2>4
    <3> QED
      BY Zenon, <2>1, <2>4, <3>1
  <2> QED
    BY Zenon, <2>3, <2>4
<1>3. TokenRows(out) /\ Len(out) = Len(token)
  <2>1. out = [t \in Issued |-> out[t]]
    BY Zenon DEF Revoke
  <2>2. \A t \in Issued : out[t] \in RefreshToken /\ out[t].family \in Issued
    BY Zenon, <1>2 DEF TokenRows, Issued
  <2> QED
    BY Zenon, <2>1, <2>2, SameLength
<1> QED
  BY Zenon, <1>1, <1>2, <1>3

(* Families that lose all their tokens end whole.                           *)
LEMMA RevokeKeeps ==
  ASSUME TokensOK(token, ended, overlapped), NEW ts, NEW E \in SUBSET Issued, NEW out, out = Revoke(ts),
         \A f \in E \ overlapped : Unrev(token, f) \subseteq ts
  PROVE  TokensOK(out, ended \cup E, overlapped)
<1>1. /\ DOMAIN out = Issued /\ TokenRows(out)
      /\ \A t \in Issued : /\ out[t].family = token[t].family
                           /\ out[t].revoked_at <=> t \in ts \/ token[t].revoked_at
  BY Zenon, RevokeHolds DEF TokensOK
<1>2. \A f : Unrev(out, f) = Unrev(token, f) \ ts
  BY Zenon, <1>1 DEF Unrev, Issued
<1>3. ended \cup E \subseteq DOMAIN out
  BY Zenon, <1>1 DEF TokensOK, Issued
<1>4. ASSUME NEW f \in DOMAIN out \ overlapped PROVE FamilyOK(out, ended \cup E, f)
  <2>1. FamilyOK(token, ended, f)
    BY Zenon, <1>1, <1>4 DEF TokensOK, Issued
  <2>2. \A t, u \in Unrev(out, f) : t = u
    BY Zenon, <1>2, <2>1 DEF FamilyOK
  <2>3. f \in ended \cup E => Unrev(out, f) = {}
    BY Zenon, <1>2, <1>4, <2>1 DEF FamilyOK
  <2> QED
    BY Zenon, <2>2, <2>3 DEF FamilyOK
<1> QED
  BY Zenon, <1>1, <1>3, <1>4 DEF TokensOK

(* What adding a token does to the rows.                                    *)
LEMMA WithHolds ==
  ASSUME TokenRows(token), NEW tok, TokenRows(tok), DOMAIN tok = Issued, Len(tok) = Len(token),
         NextToken \in Tokens, NEW f \in Issued \cup {NextToken}
  PROVE  LET out == With(tok, f) IN
         /\ TokenRows(out) /\ DOMAIN out = Issued \cup {NextToken}
         /\ out[NextToken].family = f /\ ~out[NextToken].revoked_at
         /\ \A t \in Issued : out[t] = tok[t]
<1> DEFINE out == With(tok, f)
           n == NextToken
           new == [family |-> f, revoked_at |-> FALSE, expired |-> FALSE]
<1>1. /\ Issued = 1..Len(token) /\ Len(token) \in Nat /\ n \notin Issued /\ n \in 0..MaxTokens
      /\ f \in Tokens
  BY Zenon, NextTokenHolds
<1>2. new \in RefreshToken /\ new.family = f /\ new.revoked_at = FALSE
  BY Zenon, <1>1 DEF RefreshToken
<1>3. out = Append(tok, new) /\ tok \in Seq(RefreshToken) /\ n = Len(tok) + 1
  BY Zenon DEF With, TokenRows, NextToken
<1> HIDE DEF out, new, n
<1>4. /\ out \in Seq(RefreshToken) /\ Len(out) = n /\ out[n] = new
      /\ DOMAIN out = DOMAIN tok \cup {n} /\ \A t \in DOMAIN tok : out[t] = tok[t]
  BY <1>2, <1>3
<1>5. \A t \in DOMAIN out : out[t] \in RefreshToken /\ out[t].family \in DOMAIN out
  BY Zenon, <1>2, <1>4 DEF TokenRows, n
<1>6. TokenRows(out)
  BY Zenon, <1>1, <1>4, <1>5 DEF TokenRows
<1> QED
  BY Zenon, <1>2, <1>4, <1>6 DEF out, n

(* A session is a family of its own.                                        *)
LEMMA IssueKeeps ==
  ASSUME TokensOK(token, ended, overlapped), NextToken \in Tokens,
         NEW out, out = With(token, NextToken)
  PROVE  /\ TokensOK(out, ended, overlapped) /\ DOMAIN out = Issued \cup {NextToken}
         /\ \A t \in Issued : out[t] = token[t]
         /\ out[NextToken].family = NextToken
<1> DEFINE n == NextToken
<1>1. TokenRows(token) /\ DOMAIN token = Issued /\ ended \subseteq Issued
  BY Zenon DEF TokensOK, Issued
<1>2. n \notin Issued
  BY Zenon, <1>1, NextTokenHolds
<1>3. /\ TokenRows(out) /\ DOMAIN out = Issued \cup {n} /\ out[n].family = n
      /\ \A t \in Issued : out[t] = token[t]
  <2>1. n \in Issued \cup {n} /\ Len(token) = Len(token)
    BY Zenon
  <2> DEFINE new == With(token, n)
  <2>2. /\ TokenRows(new) /\ DOMAIN new = Issued \cup {n} /\ new[n].family = n
        /\ \A t \in Issued : new[t] = token[t]
    BY Zenon, <1>1, <2>1, WithHolds
  <2>3. out = new
    BY Zenon
  <2> HIDE DEF new
  <2> QED
    BY Zenon, <2>2, <2>3
<1> HIDE DEF n
<1>4. \A t \in Issued : token[t].family # n
  BY Zenon, <1>1, <1>2 DEF TokenRows
<1>5. ASSUME NEW f \in DOMAIN out \ overlapped PROVE FamilyOK(out, ended, f)
  <2>1. CASE f = n
    <3>1. \A t \in Unrev(out, n) : t = n
      BY Zenon, <1>3, <1>4 DEF Unrev
    <3> QED
      BY Zenon, <1>1, <1>2, <2>1, <3>1 DEF FamilyOK
  <2>2. CASE f # n
    <3>1. Unrev(out, f) = Unrev(token, f)
      BY Zenon, <1>1, <1>3, <2>2 DEF Unrev
    <3>2. FamilyOK(token, ended, f)
      BY Zenon, <1>1, <1>3, <1>5, <2>2 DEF TokensOK
    <3> QED
      BY Zenon, <3>1, <3>2 DEF FamilyOK
  <2> QED
    BY Zenon, <2>1, <2>2
<1>6. TokensOK(out, ended, overlapped)
  BY Zenon, <1>1, <1>3, <1>5 DEF TokensOK
<1> QED
  BY Zenon, <1>3, <1>6 DEF n

(* What a rotation does to the rows.                                        *)
LEMMA RotateHolds ==
  ASSUME TokenRows(token), NextToken \in Tokens, NEW t \in Issued, NEW g \in Issued
  PROVE  LET out == With(Revoke({t}), g) IN
         /\ TokenRows(out) /\ DOMAIN out = Issued \cup {NextToken} /\ out[NextToken].family = g
         /\ \A u \in Issued : /\ out[u].family = token[u].family /\ out[u].expired = token[u].expired
                              /\ out[u].revoked_at <=> u = t \/ token[u].revoked_at
<1> DEFINE mid == Revoke({t})
           out == With(mid, g)
<1>1. /\ DOMAIN mid = Issued /\ TokenRows(mid) /\ Len(mid) = Len(token)
      /\ \A u \in Issued : /\ mid[u].family = token[u].family /\ mid[u].expired = token[u].expired
                           /\ mid[u].revoked_at <=> u \in {t} \/ token[u].revoked_at
  BY Zenon, RevokeHolds
<1> HIDE DEF mid
<1>2. g \in Issued \cup {NextToken} /\ DOMAIN mid = Issued /\ TokenRows(mid) /\ Len(mid) = Len(token)
  BY Zenon, <1>1
<1>3. /\ TokenRows(out) /\ DOMAIN out = Issued \cup {NextToken} /\ out[NextToken].family = g
      /\ \A u \in Issued : out[u] = mid[u]
  BY Zenon, <1>2, WithHolds
<1> HIDE DEF out
<1>4. \A u \in Issued : /\ out[u].family = token[u].family /\ out[u].expired = token[u].expired
                        /\ out[u].revoked_at <=> u = t \/ token[u].revoked_at
  BY Zenon, <1>1, <1>3
<1> QED
  BY Zenon, <1>3, <1>4 DEF mid, out

(* A rotation from a token that is still good replaces it; one from a token *)
(* that was revoked since is an overlap.                                    *)
LEMMA RefreshKeeps ==
  ASSUME TokensOK(token, ended, overlapped), NextToken \in Tokens, NEW t \in Issued
  PROVE  LET over == IF token[t].revoked_at THEN overlapped \cup {token[t].family} ELSE overlapped
             out  == With(Revoke({t}), token[t].family) IN
         /\ TokensOK(out, ended, over) /\ DOMAIN out = Issued \cup {NextToken}
         /\ out[NextToken].family = token[t].family
         /\ \A u \in Issued : /\ out[u].family = token[u].family /\ out[u].expired = token[u].expired
                              /\ token[u].revoked_at => out[u].revoked_at
<1> DEFINE n == NextToken
           g == token[t].family
           over == IF token[t].revoked_at THEN overlapped \cup {g} ELSE overlapped
           out == With(Revoke({t}), g)
<1>1. TokenRows(token) /\ DOMAIN token = Issued /\ ended \subseteq Issued /\ g \in Issued
  BY Zenon DEF TokensOK, Issued, TokenRows
<1>2. n \notin Issued
  BY Zenon, <1>1, NextTokenHolds
<1>4. TokenRows(out) /\ DOMAIN out = Issued \cup {n} /\ out[n].family = g
  BY ZenonT(40), <1>1, RotateHolds
<1>3. out = With(Revoke({t}), g)
  BY Zenon
<1> HIDE DEF g, out
<1>5. \A u \in Issued : /\ out[u].family = token[u].family /\ out[u].expired = token[u].expired
                        /\ out[u].revoked_at <=> u = t \/ token[u].revoked_at
  BY <1>1, <1>3, RotateHolds
<1> USE DEF g
<1> HIDE DEF n
<1>6. overlapped \subseteq over /\ (g \notin over => ~token[t].revoked_at)
  BY Zenon
<1> HIDE DEF over
<1>7. ASSUME NEW f \in DOMAIN out \ over PROVE FamilyOK(out, ended, f)
  <2>1. CASE f = g
    <3>1. ~token[t].revoked_at
      BY Zenon, <1>6, <1>7, <2>1
    <3>2. f \in Issued \ overlapped
      BY Zenon, <1>1, <1>6, <1>7, <2>1
    <3>3. FamilyOK(token, ended, f)
      BY Zenon, <1>1, <3>2 DEF TokensOK
    <3>4. t \in Unrev(token, f)
      BY Zenon, <1>1, <2>1, <3>1 DEF Unrev
    <3>5. f \notin ended /\ \A u \in Unrev(token, f) : u = t
      BY Zenon, <3>3, <3>4 DEF FamilyOK
    <3>6. \A u \in Unrev(out, f) : u = n
      BY Zenon, <1>1, <1>4, <1>5, <3>5 DEF Unrev
    <3> QED
      BY Zenon, <3>5, <3>6 DEF FamilyOK
  <2>2. CASE f # g
    <3>1. Unrev(out, f) \subseteq Unrev(token, f)
      BY Zenon, <1>1, <1>4, <1>5, <2>2 DEF Unrev
    <3>2. CASE f = n
      <4>1. Unrev(token, n) = {}
        BY Zenon, <1>1, <1>2 DEF Unrev, TokenRows
      <4> QED
        BY Zenon, <3>1, <3>2, <4>1 DEF FamilyOK
    <3>3. CASE f # n
      <4>1. FamilyOK(token, ended, f)
        BY Zenon, <1>1, <1>4, <1>6, <1>7, <3>3 DEF TokensOK
      <4> QED
        BY Zenon, <3>1, <4>1 DEF FamilyOK
    <3> QED
      BY Zenon, <3>2, <3>3
  <2> QED
    BY Zenon, <2>1, <2>2
<1>8. TokensOK(out, ended, over)
  BY Zenon, <1>1, <1>4, <1>7 DEF TokensOK
<1> QED
  BY Zenon, <1>4, <1>5, <1>8 DEF n, out, over

(* A token's expiry revokes nothing.                                        *)
LEMMA ExpireKeeps ==
  ASSUME TokensOK(token, ended, overlapped), NEW t \in Issued
  PROVE  LET out == [token EXCEPT ![t].expired = TRUE] IN
         /\ TokensOK(out, ended, overlapped) /\ DOMAIN out = Issued
         /\ \A u \in Issued : /\ out[u].family = token[u].family /\ out[u].revoked_at = token[u].revoked_at
                              /\ token[u].expired => out[u].expired
<1> DEFINE new == [token[t] EXCEPT !.expired = TRUE]
           out == [token EXCEPT ![t].expired = TRUE]
<1>1. TokenRows(token) /\ DOMAIN token = Issued /\ ended \subseteq Issued
  BY Zenon DEF TokensOK, Issued
<1>2. token[t] \in RefreshToken
  BY Zenon, <1>1 DEF TokenRows
<1>3. /\ new \in RefreshToken /\ new.family = token[t].family /\ new.expired = TRUE
      /\ new.revoked_at = token[t].revoked_at
  BY Zenon, <1>2 DEF RefreshToken
<1>4. out = [token EXCEPT ![t] = new]
  BY Zenon
<1> HIDE DEF new, out
<1>5. DOMAIN out = Issued /\ out[t] = new /\ \A u \in Issued \ {t} : out[u] = token[u]
  BY Zenon, <1>1, <1>4
<1>6. \A u \in Issued : /\ out[u].family = token[u].family /\ out[u].revoked_at = token[u].revoked_at
                        /\ token[u].expired => out[u].expired
                        /\ out[u] \in RefreshToken
  BY Zenon, <1>1, <1>3, <1>5 DEF TokenRows
<1>7. ASSUME NEW f PROVE Unrev(out, f) = Unrev(token, f)
  <2>1. \A u \in Issued : /\ out[u].family = f <=> token[u].family = f
                          /\ out[u].revoked_at <=> token[u].revoked_at
    BY Zenon, <1>6
  <2> QED
    BY Zenon, <1>1, <1>5, <2>1 DEF Unrev
<1>8. TokenRows(out)
  <2>1. out = [u \in Issued |-> out[u]]
    BY Zenon, <1>1 DEF out
  <2>2. \A u \in Issued : out[u] \in RefreshToken /\ out[u].family \in Issued
    BY Zenon, <1>1, <1>6 DEF TokenRows
  <2> QED
    BY Zenon, <1>1, <2>1, <2>2, SameLength
<1>9. \A f \in DOMAIN out \ overlapped : FamilyOK(out, ended, f)
  BY Zenon, <1>1, <1>5, <1>7 DEF TokensOK, FamilyOK
<1> QED
  BY Zenon, <1>1, <1>5, <1>6, <1>8, <1>9 DEF TokensOK, out

-----------------------------------------------------------------------------
(* What a request in flight knows.                                          *)
Shape(issued, made, r) ==
  \/ r.step = "login" /\ r.failed_count \in 0..(MAX_FAILED_ATTEMPTS - 1)
  \/ r.step = "code" /\ r.ticket \in Tickets \cup {0} /\ r.then \in {"cap", "disable"}
  \/ /\ r.step = "spend" /\ r.ticket \in Tickets \cup {0} /\ r.then \in {"cap", "disable"}
     /\ r.loaded \in SUBSET ((1..made) \X Codes) /\ r.code \in r.loaded
  \/ r.step \in {"cap", "open", "disable"} /\ r.ticket \in Tickets \cup {0}
  \/ r.step = "rotate" /\ r.token \in issued /\ r.revoked_at = FALSE
  \/ r.step \in {"enrol", "regenerate"}

(* What a request knows stays true as tokens and batches are added.         *)
LEMMA ShapeGrows ==
  ASSUME NEW issued, NEW more, issued \subseteq more, NEW made \in Nat, NEW later \in Nat, made <= later,
         NEW r, Shape(issued, made, r)
  PROVE  Shape(more, later, r)
<1>1. (1..made) \subseteq 1..later
  BY SMT
<1>2. \A x \in SUBSET ((1..made) \X Codes) : x \in SUBSET ((1..later) \X Codes)
  BY Zenon, <1>1
<1> QED
  BY Zenon, <1>2 DEF Shape

(* A request holds a ticket that it consumed and has not yet used.          *)
Holds(r, c) == r # NoAuth /\ r.step \in {"code", "spend", "cap", "open", "disable"} /\ r.ticket = c

Phases == {"unused", "challenge", "state", "gone"}

TicketsOK(tick, sold, reqs) ==
  /\ tick \in [Tickets -> Phases] /\ sold \in [Tickets -> {0, 1}]
  /\ \A c \in Tickets, q \in AuthRequests : Holds(reqs[q], c) => tick[c] = "gone" /\ sold[c] = 0
  /\ \A c \in Tickets : \A p, q \in AuthRequests : Holds(reqs[p], c) /\ Holds(reqs[q], c) => p = q
  /\ \A c \in Tickets : tick[c] # "gone" => sold[c] = 0

(* A request that goes on with the ticket it holds, or without it.          *)
LEMMA TicketsCarried ==
  ASSUME TicketsOK(ticket, bought, authReq), NEW q \in AuthRequests, NEW reqs,
         \A p \in AuthRequests \ {q} : reqs[p] = authReq[p],
         \A c \in Tickets : Holds(reqs[q], c) => Holds(authReq[q], c),
         NEW tick \in [Tickets -> Phases], \A c \in Tickets : ticket[c] = "gone" => tick[c] = "gone"
  PROVE  TicketsOK(tick, bought, reqs)
<1>1. \A p \in AuthRequests, c \in Tickets : Holds(reqs[p], c) => Holds(authReq[p], c)
  BY Zenon
<1> QED
  BY Zenon, <1>1 DEF TicketsOK

(* Tickets that are parked or expire.                                       *)
LEMMA TicketsMoved ==
  ASSUME TicketsOK(ticket, bought, authReq),
         NEW tick \in [Tickets -> Phases], \A c \in Tickets : ticket[c] = "gone" => tick[c] = "gone"
  PROVE  TicketsOK(tick, bought, authReq)
BY Zenon DEF TicketsOK

(* The request that consumes a ticket is the only one to hold it (GETDEL).  *)
LEMMA TicketRedeemed ==
  ASSUME TicketsOK(ticket, bought, authReq), NEW q \in AuthRequests, NEW reqs, NEW c \in Tickets,
         \A p \in AuthRequests \ {q} : reqs[p] = authReq[p],
         \A d \in Tickets \ {c} : ~Holds(reqs[q], d), ticket[c] # "gone",
         NEW tick, tick = [ticket EXCEPT ![c] = "gone"]
  PROVE  TicketsOK(tick, bought, reqs)
<1>1. tick \in [Tickets -> Phases] /\ tick[c] = "gone" /\ \A d \in Tickets \ {c} : tick[d] = ticket[d]
  BY Zenon DEF TicketsOK, Phases
<1>2. bought[c] = 0 /\ \A p \in AuthRequests : ~Holds(authReq[p], c)
  BY Zenon DEF TicketsOK
<1>3. \A d \in Tickets, p \in AuthRequests : Holds(reqs[p], d) => tick[d] = "gone" /\ bought[d] = 0
  <2> SUFFICES ASSUME NEW d \in Tickets, NEW p \in AuthRequests, Holds(reqs[p], d)
               PROVE  tick[d] = "gone" /\ bought[d] = 0
    BY Zenon
  <2>1. CASE d = c
    BY Zenon, <1>1, <1>2, <2>1
  <2>2. CASE d # c
    <3>1. p # q
      BY Zenon, <2>2
    <3>2. Holds(authReq[p], d)
      BY Zenon, <3>1
    <3> QED
      BY Zenon, <1>1, <2>2, <3>2 DEF TicketsOK
  <2> QED
    BY Zenon, <2>1, <2>2
<1>4. \A d \in Tickets : \A p, o \in AuthRequests : Holds(reqs[p], d) /\ Holds(reqs[o], d) => p = o
  <2> SUFFICES ASSUME NEW d \in Tickets, NEW p \in AuthRequests, NEW o \in AuthRequests,
                      Holds(reqs[p], d), Holds(reqs[o], d)
               PROVE  p = o
    BY Zenon
  <2>1. CASE d = c
    <3>1. p = q /\ o = q
      BY Zenon, <1>2, <2>1
    <3> QED
      BY Zenon, <3>1
  <2>2. CASE d # c
    <3>1. p # q /\ o # q
      BY Zenon, <2>2
    <3>2. Holds(authReq[p], d) /\ Holds(authReq[o], d)
      BY Zenon, <3>1
    <3> QED
      BY Zenon, <3>2 DEF TicketsOK
  <2> QED
    BY Zenon, <2>1, <2>2
<1>5. \A d \in Tickets : tick[d] # "gone" => bought[d] = 0
  BY Zenon, <1>1, <1>2 DEF TicketsOK
<1> QED
  BY Zenon, <1>1, <1>3, <1>4, <1>5 DEF TicketsOK

(* A ticket that is held has opened no session, so it opens its first.      *)
LEMMA TicketSold ==
  ASSUME TicketsOK(ticket, bought, authReq), NEW q \in AuthRequests, NEW reqs, NEW c \in Tickets,
         \A p \in AuthRequests \ {q} : reqs[p] = authReq[p],
         \A d \in Tickets : ~Holds(reqs[q], d), Holds(authReq[q], c),
         NEW sold, sold = [bought EXCEPT ![c] = @ + 1]
  PROVE  TicketsOK(ticket, sold, reqs)
<1>1. bought[c] = 0 /\ ticket[c] = "gone" /\ bought \in [Tickets -> {0, 1}]
  BY Zenon DEF TicketsOK
<1>2. sold \in [Tickets -> {0, 1}] /\ sold[c] = 1 /\ \A d \in Tickets \ {c} : sold[d] = bought[d]
  BY <1>1
<1>3. \A d \in Tickets, p \in AuthRequests : Holds(reqs[p], d) => Holds(authReq[p], d) /\ d # c
  <2> SUFFICES ASSUME NEW d \in Tickets, NEW p \in AuthRequests, Holds(reqs[p], d)
               PROVE  Holds(authReq[p], d) /\ d # c
    BY Zenon
  <2>1. p # q
    BY Zenon
  <2>2. Holds(authReq[p], d)
    BY Zenon, <2>1
  <2> QED
    BY Zenon, <2>1, <2>2 DEF TicketsOK
<1>4. \A d \in Tickets : \A p, o \in AuthRequests : Holds(reqs[p], d) /\ Holds(reqs[o], d) => p = o
  BY Zenon, <1>3 DEF TicketsOK
<1>5. \A d \in Tickets, p \in AuthRequests : Holds(reqs[p], d) => ticket[d] = "gone" /\ sold[d] = 0
  BY Zenon, <1>2, <1>3 DEF TicketsOK
<1>6. \A d \in Tickets : ticket[d] # "gone" => sold[d] = 0
  BY Zenon, <1>1, <1>2 DEF TicketsOK
<1> QED
  BY Zenon, <1>2, <1>4, <1>5, <1>6 DEF TicketsOK

-----------------------------------------------------------------------------
(* A code that is on the list has not been accepted, unless an outdated     *)
(* list was written; a code that was accepted is of a batch that was made.  *)
CodesOK(acc, made, sp, taint) ==
  /\ acc \in User /\ made \in 0..MaxBatches /\ sp \in [RecoveryCodes -> 0..2]
  /\ acc.mfa_recovery_codes \subseteq (1..made) \X Codes
  /\ \A r \in RecoveryCodes : sp[r] # 0 => r \in (1..made) \X Codes
  /\ ~taint => \A r \in RecoveryCodes : sp[r] # 2 /\ (r \in acc.mfa_recovery_codes => sp[r] = 0)

(* An account that is left fewer recovery codes, or the same.               *)
LEMMA CodesKept ==
  ASSUME CodesOK(account, batches, spent, codeTaint), NEW acc \in User,
         acc.mfa_recovery_codes \subseteq account.mfa_recovery_codes
  PROVE  CodesOK(acc, batches, spent, codeTaint)
BY Zenon DEF CodesOK

(* A further batch has codes that no earlier one had.                       *)
LEMMA BatchesMade ==
  ASSUME NEW made \in 0..MaxBatches
  PROVE  /\ made \in Nat /\ (1..made) \X Codes \subseteq RecoveryCodes
         /\ made < MaxBatches =>
              /\ made + 1 \in 0..MaxBatches /\ made + 1 \in Nat /\ made <= made + 1
              /\ {made + 1} \X Codes \subseteq (1..(made + 1)) \X Codes
              /\ (1..made) \X Codes \subseteq (1..(made + 1)) \X Codes
              /\ \A r \in {made + 1} \X Codes : r \notin (1..made) \X Codes
<1>1. made \in Nat /\ 1..made \subseteq 1..MaxBatches
  BY AuthAssumption
<1>2. made < MaxBatches => /\ made + 1 \in 0..MaxBatches /\ made + 1 \in Nat /\ made <= made + 1
                           /\ {made + 1} \subseteq 1..(made + 1) /\ 1..made \subseteq 1..(made + 1)
                           /\ made + 1 \notin 1..made
  BY <1>1, AuthAssumption
<1>3. \A S, T : S \subseteq T => S \X Codes \subseteq T \X Codes
  BY Zenon
<1>4. \A n : n \notin 1..made => \A r \in {n} \X Codes : r \notin (1..made) \X Codes
  BY Zenon
<1> QED
  BY Zenon, <1>1, <1>2, <1>3, <1>4 DEF RecoveryCodes

(* A new batch replaces the list (complete_enrolment,                       *)
(* regenerate_recovery_codes).                                              *)
LEMMA CodesRenewed ==
  ASSUME CodesOK(account, batches, spent, codeTaint), batches < MaxBatches, NEW acc \in User,
         acc.mfa_recovery_codes = NewBatch
  PROVE  CodesOK(acc, batches + 1, spent, codeTaint)
<1>1. /\ batches + 1 \in 0..MaxBatches
      /\ NewBatch \subseteq (1..(batches + 1)) \X Codes
      /\ (1..batches) \X Codes \subseteq (1..(batches + 1)) \X Codes
      /\ \A r \in NewBatch : r \notin (1..batches) \X Codes
  BY Zenon, BatchesMade DEF CodesOK, NewBatch
<1>2. \A r \in RecoveryCodes : spent[r] # 0 => r \in (1..batches) \X Codes
  BY Zenon DEF CodesOK
<1>3. \A r \in RecoveryCodes : r \in NewBatch => spent[r] = 0
  BY Zenon, <1>1, <1>2
<1>4. ~codeTaint => \A r \in RecoveryCodes : spent[r] # 2
  BY Zenon DEF CodesOK
<1>5. spent \in [RecoveryCodes -> 0..2]
  BY Zenon DEF CodesOK
<1> HIDE DEF NewBatch
<1> QED
  BY Zenon, <1>1, <1>2, <1>3, <1>4, <1>5 DEF CodesOK

(* A code is struck off the list as loaded (consume_recovery_code).         *)
LEMMA CodeSpent ==
  ASSUME CodesOK(account, batches, spent, codeTaint), NEW loaded \in SUBSET ((1..batches) \X Codes),
         NEW r \in loaded, NEW acc \in User, acc.mfa_recovery_codes = loaded \ {r},
         NEW sp, sp = [spent EXCEPT ![r] = IF @ = 0 THEN 1 ELSE 2],
         NEW taint, ~taint => ~codeTaint /\ account.mfa_recovery_codes = loaded
  PROVE  CodesOK(acc, batches, sp, taint)
<1>1. /\ batches \in 0..MaxBatches /\ spent \in [RecoveryCodes -> 0..2]
      /\ (1..batches) \X Codes \subseteq RecoveryCodes
      /\ \A x \in RecoveryCodes : spent[x] # 0 => x \in (1..batches) \X Codes
  BY Zenon, BatchesMade DEF CodesOK
<1>2. r \in RecoveryCodes /\ r \in (1..batches) \X Codes
  BY Zenon, <1>1
<1>3. /\ sp[r] = (IF spent[r] = 0 THEN 1 ELSE 2)
      /\ \A x \in RecoveryCodes \ {r} : sp[x] = spent[x]
      /\ sp \in [RecoveryCodes -> 0..2]
  <2>1. (IF spent[r] = 0 THEN 1 ELSE 2) \in 0..2
    BY SMT
  <2> QED
    BY Zenon, <1>1, <1>2, <2>1
<1>4. \A x \in RecoveryCodes : sp[x] # 0 => x \in (1..batches) \X Codes
  BY Zenon, <1>1, <1>2, <1>3
<1>5. ASSUME ~taint, NEW x \in RecoveryCodes
      PROVE  sp[x] # 2 /\ (x \in loaded \ {r} => sp[x] = 0)
  <2>1. \A y \in RecoveryCodes : spent[y] # 2 /\ (y \in loaded => spent[y] = 0)
    BY Zenon, <1>5 DEF CodesOK
  <2>2. sp[r] = 1
    BY Zenon, <1>2, <1>3, <2>1
  <2>3. 1 # 2
    OBVIOUS
  <2> QED
    BY Zenon, <1>3, <2>1, <2>2, <2>3
<1> QED
  BY Zenon, <1>1, <1>3, <1>4, <1>5 DEF CodesOK

-----------------------------------------------------------------------------
(* The families that are live or that a rotation in flight may make live    *)
(* again, and the requests that are past the cap and will open a session.   *)
Rotates(r) == r # NoAuth /\ r.step = "rotate"

Turning(tok, reqs) ==
  {f \in DOMAIN tok : \E q \in AuthRequests : Rotates(reqs[q]) /\ f = tok[reqs[q].token].family}

Reach(tok, reqs) == LiveFam(tok) \cup Turning(tok, reqs)

Opens(reqs) == {q \in AuthRequests : reqs[q] # NoAuth /\ reqs[q].step = "open"}

-----------------------------------------------------------------------------
ShapesOK(tok, made, reqs) ==
  /\ DOMAIN reqs = AuthRequests
  /\ \A q \in AuthRequests : reqs[q] # NoAuth => Shape(DOMAIN tok, made, reqs[q])

AuthInv ==
  /\ ShapesOK(token, batches, authReq)
  /\ TokensOK(token, ended, overlapped)
  /\ TicketsOK(ticket, bought, authReq)
  /\ CodesOK(account, batches, spent, codeTaint)

(* The invariant, after a step.                                             *)
LEMMA AuthInvNext ==
  ASSUME ShapesOK(token', batches', authReq'), TokensOK(token', ended', overlapped'),
         TicketsOK(ticket', bought', authReq'), CodesOK(account', batches', spent', codeTaint')
  PROVE  AuthInv'
<1>1. ShapesOK(token, batches, authReq)'
  BY Zenon DEF ShapesOK, Shape
<1>2. TokensOK(token, ended, overlapped)'
  BY Zenon DEF TokensOK, TokenRows, FamilyOK, Unrev, RefreshToken
<1>3. TicketsOK(ticket, bought, authReq)'
  BY Zenon DEF TicketsOK, Holds
<1>4. CodesOK(account, batches, spent, codeTaint)'
  BY Zenon DEF CodesOK, User
<1> QED
  BY Zenon, <1>1, <1>2, <1>3, <1>4 DEF AuthInv

(* What the invariant says, fact by fact.                                   *)
LEMMA AuthFacts ==
  ASSUME AuthInv
  PROVE  /\ DOMAIN authReq = AuthRequests
         /\ \A q \in AuthRequests : authReq[q] # NoAuth => Shape(Issued, batches, authReq[q])
         /\ TokenRows(token) /\ TokensOK(token, ended, overlapped)
         /\ TicketsOK(ticket, bought, authReq)
         /\ CodesOK(account, batches, spent, codeTaint)
         /\ batches \in Nat /\ batches <= batches
<1>1. batches \in 0..MaxBatches
  BY Zenon DEF AuthInv, CodesOK
<1>2. batches \in Nat /\ batches <= batches
  BY <1>1, AuthAssumption
<1> QED
  BY Zenon, <1>2 DEF AuthInv, ShapesOK, TokensOK, Issued

(* A step opens no session and makes no family live again, or it opens one  *)
(* for a request that was past the cap, or it enforces the cap.             *)
Doomed == {token[t].family : t \in sessions_to_evict(OldestLive)}

Quiet == Reach(token', authReq') \subseteq Reach(token, authReq) /\ Opens(authReq') \subseteq Opens(authReq)

Opened ==
  \E q \in Opens(authReq), f \in Tokens :
    /\ Reach(token', authReq') \subseteq Reach(token, authReq) \cup {f}
    /\ Opens(authReq') \subseteq Opens(authReq) \ {q}

Capped == token' = Revoke({t \in Live : token[t].family \in Doomed})

CapStep == Quiet \/ Opened \/ Capped

(* One request goes on, and the tokens are left alone.                      *)
LEMMA RequestStep ==
  ASSUME AuthInv, NEW q \in AuthRequests, NEW r, authReq' = [authReq EXCEPT ![q] = r],
         token' = token, ended' = ended, overlapped' = overlapped,
         batches' \in Nat, batches <= batches',
         r # NoAuth => /\ Shape(Issued, batches', r) /\ r.step # "open"
                       /\ r.step = "rotate" => token[r.token].family \in LiveFam(token),
         TicketsOK(ticket', bought', authReq'), CodesOK(account', batches', spent', codeTaint')
  PROVE  AuthInv' /\ CapStep
<1>1. /\ DOMAIN authReq' = AuthRequests /\ authReq'[q] = r
      /\ \A p \in AuthRequests \ {q} : authReq'[p] = authReq[p]
  BY Zenon, AuthFacts
<1>2. \A p \in AuthRequests : authReq[p] # NoAuth => Shape(Issued, batches', authReq[p])
  <2> SUFFICES ASSUME NEW p \in AuthRequests, authReq[p] # NoAuth
               PROVE  Shape(Issued, batches', authReq[p])
    OBVIOUS
  <2>1. Shape(Issued, batches, authReq[p]) /\ batches \in Nat /\ Issued \subseteq Issued
    BY Zenon, AuthFacts
  <2> QED
    BY Zenon, <2>1, ShapeGrows
<1>3. ShapesOK(token', batches', authReq')
  BY Zenon, <1>1, <1>2 DEF ShapesOK, Issued
<1>4. Opens(authReq') \subseteq Opens(authReq)
  BY Zenon, <1>1 DEF Opens
<1>5. Reach(token, authReq') \subseteq Reach(token, authReq)
  <2> SUFFICES ASSUME NEW f \in DOMAIN token, NEW p \in AuthRequests, Rotates(authReq'[p]),
                      f = token[authReq'[p].token].family
               PROVE  f \in Reach(token, authReq)
    BY Zenon DEF Reach, Turning
  <2>1. CASE p = q
    BY Zenon, <1>1, <2>1 DEF Reach, Rotates
  <2>2. CASE p # q
    BY Zenon, <1>1, <2>2 DEF Reach, Turning
  <2> QED
    BY Zenon, <2>1, <2>2
<1>6. CapStep
  BY Zenon, <1>4, <1>5 DEF CapStep, Quiet
<1>7. TokensOK(token', ended', overlapped')
  BY Zenon, AuthFacts
<1> QED
  BY Zenon, <1>3, <1>6, <1>7, AuthInvNext

(* Tokens are revoked or expire, and requests end.                          *)
LEMMA ShrinkStep ==
  ASSUME AuthInv, DOMAIN authReq' = AuthRequests,
         \A p \in AuthRequests : authReq'[p] = authReq[p] \/ authReq'[p] = NoAuth,
         DOMAIN token' = Issued, TokensOK(token', ended', overlapped'), batches' = batches,
         \A t \in Issued : /\ token'[t].family = token[t].family
                           /\ token[t].revoked_at => token'[t].revoked_at
                           /\ token[t].expired => token'[t].expired,
         TicketsOK(ticket', bought', authReq'), CodesOK(account', batches', spent', codeTaint')
  PROVE  AuthInv' /\ CapStep
<1>1. ShapesOK(token', batches', authReq')
  BY Zenon, AuthFacts DEF ShapesOK
<1>2. Opens(authReq') \subseteq Opens(authReq)
  BY Zenon DEF Opens
<1>3. LiveFam(token') \subseteq LiveFam(token)
  BY Zenon DEF LiveFam, Issued
<1>4. Turning(token', authReq') \subseteq Turning(token, authReq)
  <2> SUFFICES ASSUME NEW f \in Issued, NEW p \in AuthRequests, Rotates(authReq'[p]),
                      f = token'[authReq'[p].token].family
               PROVE  f \in Turning(token, authReq)
    BY Zenon DEF Turning
  <2>1. authReq'[p] = authReq[p] /\ authReq[p] # NoAuth /\ authReq[p].step = "rotate"
    BY Zenon DEF Rotates
  <2>2. authReq[p].token \in Issued
    <3>1. \A s \in {"login", "code", "spend", "cap", "open", "disable", "enrol", "regenerate"} : "rotate" # s
      OBVIOUS
    <3> QED
      BY Zenon, <2>1, <3>1, AuthFacts DEF Shape
  <2> QED
    BY Zenon, <2>1, <2>2 DEF Turning, Issued
<1>5. CapStep
  BY Zenon, <1>2, <1>3, <1>4 DEF Reach, CapStep, Quiet
<1> QED
  BY Zenon, <1>1, <1>5, AuthInvNext

-----------------------------------------------------------------------------

(* What a request at a given step knows.                                    *)
LEMMA ShapeFacts ==
  ASSUME NEW issued, NEW made, NEW r, Shape(issued, made, r)
  PROVE  /\ r.step = "login" => r.failed_count \in 0..(MAX_FAILED_ATTEMPTS - 1)
         /\ r.step = "code" => r.ticket \in Tickets \cup {0} /\ r.then \in {"cap", "disable"}
         /\ r.step = "spend" => /\ r.ticket \in Tickets \cup {0} /\ r.then \in {"cap", "disable"}
                                /\ r.loaded \in SUBSET ((1..made) \X Codes) /\ r.code \in r.loaded
         /\ r.step \in {"cap", "open", "disable"} => r.ticket \in Tickets \cup {0}
         /\ r.step = "rotate" => r.token \in issued /\ r.revoked_at = FALSE
BY DEF Shape

(* A session to be opened holds its ticket and no other.                    *)
LEMMA OpeningHolds ==
  ASSUME NEW s \in {"cap", "open", "disable"}, NEW c \in Tickets \cup {0}
  PROVE  LET r == Opening(s, c) IN
         /\ \A issued, made : Shape(issued, made, r)
         /\ r.step = s /\ r.step # "rotate" /\ r.ticket = c
         /\ s # "open" => r.step # "open"
         /\ \A d : Holds(r, d) => d = c
BY DEF Opening, Shape, Holds

(* A code to be proved holds its ticket and no other.                       *)
LEMMA ProvingHolds ==
  ASSUME NEW c \in Tickets \cup {0}, NEW then \in {"cap", "disable"}
  PROVE  LET r == Proving(c, then) IN
         /\ \A issued, made : Shape(issued, made, r)
         /\ r.step # "open" /\ r.step # "rotate" /\ \A d : Holds(r, d) => d = c
BY DEF Proving, Shape, Holds

(* Zero is no ticket.                                                       *)
LEMMA ZeroIsNoTicket == 0 \notin Tickets
BY AuthAssumption DEF Tickets

(* A step that moves no ticket and takes up none.                           *)
LEMMA TicketsFollow ==
  ASSUME AuthInv, NEW q \in AuthRequests, NEW r, authReq' = [authReq EXCEPT ![q] = r],
         ticket' = ticket, bought' = bought,
         \A c \in Tickets : Holds(r, c) => Holds(authReq[q], c)
  PROVE  TicketsOK(ticket', bought', authReq')
<1>1. authReq'[q] = r /\ \A p \in AuthRequests \ {q} : authReq'[p] = authReq[p]
  BY Zenon, AuthFacts
<1>2. ticket \in [Tickets -> Phases] /\ TicketsOK(ticket, bought, authReq)
  BY Zenon, AuthFacts DEF TicketsOK
<1>3. TicketsOK(ticket, bought, authReq')
  BY Zenon, <1>1, <1>2, TicketsCarried
<1> QED
  BY Zenon, <1>3

(* A request goes on and nothing else changes.                              *)
LEMMA OnlyRequest ==
  ASSUME AuthInv, NEW q \in AuthRequests, NEW r, authReq' = [authReq EXCEPT ![q] = r],
         UNCHANGED <<batches, account, token, ticket, ended, overlapped, bought, spent, codeTaint>>,
         r # NoAuth => /\ Shape(Issued, batches, r) /\ r.step # "open"
                       /\ r.step = "rotate" => token[r.token].family \in LiveFam(token),
         \A c \in Tickets : Holds(r, c) => Holds(authReq[q], c)
  PROVE  AuthInv' /\ CapStep
<1>1. TicketsOK(ticket', bought', authReq')
  BY Zenon, TicketsFollow
<1>2. CodesOK(account', batches', spent', codeTaint') /\ batches' \in Nat /\ batches <= batches'
  BY Zenon, AuthFacts
<1>3. r # NoAuth => /\ Shape(Issued, batches', r) /\ r.step # "open"
                    /\ r.step = "rotate" => token[r.token].family \in LiveFam(token)
  BY Zenon
<1> QED
  BY Zenon, <1>1, <1>2, <1>3, RequestStep

(* login, phase 1, reads a count below the limit.                           *)
LEMMA ResolvePrincipalStep ==
  ASSUME AuthInv, NEW q \in AuthRequests, NEW ok \in BOOLEAN, ResolvePrincipal(q, ok)
  PROVE  AuthInv' /\ CapStep
<1> DEFINE r == [step |-> "login", ok |-> ok, failed_count |-> account.failed_login_count]
<1>1. account.failed_login_count \in 0..MAX_FAILED_ATTEMPTS
  BY Zenon, AuthFacts DEF CodesOK, User
<1>2. account.failed_login_count \in 0..(MAX_FAILED_ATTEMPTS - 1)
  BY <1>1, AuthAssumption DEF ResolvePrincipal, lockout_state
<1>3. Shape(Issued, batches, r) /\ r.step # "open" /\ r.step # "rotate" /\ \A c : ~Holds(r, c)
  BY <1>2 DEF Shape, Holds
<1>4. authReq' = [authReq EXCEPT ![q] = r]
  BY Zenon DEF ResolvePrincipal, Become
<1> HIDE DEF r
<1>5. UNCHANGED <<batches, account, token, ticket, ended, overlapped, bought, spent, codeTaint>>
  BY Zenon DEF ResolvePrincipal
<1> QED
  BY Zenon, <1>3, <1>4, <1>5, OnlyRequest

(* A rotation starts from a token that is good, of a family that is live.   *)
LEMMA EvaluateRotationStep ==
  ASSUME AuthInv, NEW q \in AuthRequests, NEW t \in Issued, EvaluateRotation(q, t)
  PROVE  AuthInv' /\ CapStep
<1> DEFINE r == [step |-> "rotate", token |-> t, revoked_at |-> token[t].revoked_at]
<1>1. token[t].revoked_at = FALSE /\ ~token[t].expired
  <2>1. token[t].revoked_at \in BOOLEAN
    BY Zenon, AuthFacts DEF TokenRows, RefreshToken, Issued
  <2> QED
    BY Zenon, <2>1 DEF EvaluateRotation, Accepted
<1>2. r.step = "rotate" /\ r.token = t /\ r.revoked_at = FALSE
  BY Zenon, <1>1
<1>3. authReq' = [authReq EXCEPT ![q] = r]
  BY Zenon DEF EvaluateRotation, Become
<1> HIDE DEF r
<1>4. Shape(Issued, batches, r) /\ r.step # "open" /\ \A c : ~Holds(r, c)
  BY <1>2 DEF Shape, Holds
<1>5. token[r.token].family \in LiveFam(token)
  BY Zenon, <1>1, <1>2 DEF LiveFam, Issued
<1>6. UNCHANGED <<batches, account, token, ticket, ended, overlapped, bought, spent, codeTaint>>
  BY Zenon DEF EvaluateRotation
<1> QED
  BY Zenon, <1>3, <1>4, <1>5, <1>6, OnlyRequest

(* A request that ends holds nothing.                                       *)
LEMMA NothingHeld == \A c : ~Holds(NoAuth, c)
BY Zenon DEF Holds

(* A right code keeps the ticket and a wrong one drops it.                  *)
LEMMA check_codeStep ==
  ASSUME AuthInv, NEW q \in AuthRequests, check_code(q)
  PROVE  AuthInv' /\ CapStep
<1> DEFINE o == authReq[q]
           r == Opening(o.then, o.ticket)
<1>1. o # NoAuth /\ o.step = "code" /\ Shape(Issued, batches, o)
  BY Zenon, AuthFacts DEF check_code, Awaits
<1>2. o.ticket \in Tickets \cup {0} /\ o.then \in {"cap", "disable"}
  BY Zenon, <1>1, ShapeFacts
<1>3. authReq' = [authReq EXCEPT ![q] = r] \/ authReq' = [authReq EXCEPT ![q] = NoAuth]
  BY Zenon DEF check_code, Become
<1>4. UNCHANGED <<batches, account, token, ticket, ended, overlapped, bought, spent, codeTaint>>
  BY Zenon DEF check_code
<1> HIDE DEF o
<1>5. o.then \in {"cap", "open", "disable"} /\ o.then # "open"
  BY <1>2
<1>6. Shape(Issued, batches, r) /\ r.step # "open" /\ r.step # "rotate" /\ \A d : Holds(r, d) => d = o.ticket
  BY Zenon, <1>2, <1>5, OpeningHolds
<1> HIDE DEF r
<1>7. \A c \in Tickets : Holds(r, c) => Holds(authReq[q], c)
  BY Zenon, <1>1, <1>6 DEF Holds, o
<1>8. CASE authReq' = [authReq EXCEPT ![q] = r]
  BY Zenon, <1>4, <1>6, <1>7, <1>8, OnlyRequest
<1>9. CASE authReq' = [authReq EXCEPT ![q] = NoAuth]
  BY Zenon, <1>4, <1>9, NothingHeld, OnlyRequest
<1> QED
  BY Zenon, <1>3, <1>8, <1>9

(* A recovery code is looked up in the list as loaded.                      *)
LEMMA FindRecoveryCodeStep ==
  ASSUME AuthInv, NEW q \in AuthRequests, NEW k \in account.mfa_recovery_codes, FindRecoveryCode(q, k)
  PROVE  AuthInv' /\ CapStep
<1> DEFINE o == authReq[q]
           r == [step |-> "spend", ticket |-> o.ticket, then |-> o.then,
                 code |-> k, loaded |-> account.mfa_recovery_codes]
<1>1. o # NoAuth /\ o.step = "code" /\ Shape(Issued, batches, o)
  BY Zenon, AuthFacts DEF FindRecoveryCode, Awaits
<1>2. o.ticket \in Tickets \cup {0} /\ o.then \in {"cap", "disable"}
  BY Zenon, <1>1, ShapeFacts
<1>3. authReq' = [authReq EXCEPT ![q] = r]
  BY Zenon DEF FindRecoveryCode, Become
<1> HIDE DEF o
<1>4. account.mfa_recovery_codes \in SUBSET ((1..batches) \X Codes)
  BY Zenon, AuthFacts DEF CodesOK
<1>5. /\ r.step = "spend" /\ r.ticket = o.ticket /\ r.then = o.then /\ r.code = k
      /\ r.loaded = account.mfa_recovery_codes
  BY Zenon
<1> HIDE DEF r
<1>6. Shape(Issued, batches, r)
  BY Zenon, <1>2, <1>4, <1>5 DEF Shape
<1>7. r.step # "open" /\ r.step # "rotate"
  BY <1>5
<1>8. \A c \in Tickets : Holds(r, c) => Holds(authReq[q], c)
  BY Zenon, <1>1, <1>5 DEF Holds, o
<1>9. UNCHANGED <<batches, account, token, ticket, ended, overlapped, bought, spent, codeTaint>>
  BY Zenon DEF FindRecoveryCode
<1> QED
  BY Zenon, <1>3, <1>6, <1>7, <1>8, <1>9, OnlyRequest

(* mfa_verify without a challenge goes on to the cap.                       *)
LEMMA StepUpStep ==
  ASSUME AuthInv, NEW q \in AuthRequests, StepUp(q)
  PROVE  AuthInv' /\ CapStep
<1> DEFINE r == Opening("cap", 0)
<1>1. authReq' = [authReq EXCEPT ![q] = r]
  BY Zenon DEF StepUp, Become
<1>2. "cap" \in {"cap", "open", "disable"} /\ 0 \in Tickets \cup {0} /\ "cap" # "open"
  OBVIOUS
<1>3. Shape(Issued, batches, r) /\ r.step # "open" /\ r.step # "rotate" /\ \A d : Holds(r, d) => d = 0
  BY Zenon, <1>2, OpeningHolds
<1> HIDE DEF r
<1>4. \A c \in Tickets : Holds(r, c) => Holds(authReq[q], c)
  BY Zenon, <1>3, ZeroIsNoTicket
<1>9. UNCHANGED <<batches, account, token, ticket, ended, overlapped, bought, spent, codeTaint>>
  BY Zenon DEF StepUp
<1> QED
  BY Zenon, <1>1, <1>3, <1>4, <1>9, OnlyRequest

(* disable asks for a code.                                                 *)
LEMMA AskToDisableStep ==
  ASSUME AuthInv, NEW q \in AuthRequests, AskToDisable(q)
  PROVE  AuthInv' /\ CapStep
<1> DEFINE r == Proving(0, "disable")
<1>1. authReq' = [authReq EXCEPT ![q] = r]
  BY Zenon DEF AskToDisable, Become
<1>2. "disable" \in {"cap", "disable"} /\ 0 \in Tickets \cup {0}
  OBVIOUS
<1>3. Shape(Issued, batches, r) /\ r.step # "open" /\ r.step # "rotate" /\ \A d : Holds(r, d) => d = 0
  BY Zenon, <1>2, ProvingHolds
<1> HIDE DEF r
<1>4. \A c \in Tickets : Holds(r, c) => Holds(authReq[q], c)
  BY Zenon, <1>3, ZeroIsNoTicket
<1>9. UNCHANGED <<batches, account, token, ticket, ended, overlapped, bought, spent, codeTaint>>
  BY Zenon DEF AskToDisable
<1> QED
  BY Zenon, <1>1, <1>3, <1>4, <1>9, OnlyRequest

(* complete_enrolment reads the account.                                    *)
LEMMA LoadEnrolmentStep ==
  ASSUME AuthInv, NEW q \in AuthRequests, LoadEnrolment(q)
  PROVE  AuthInv' /\ CapStep
<1> DEFINE r == [step |-> "enrol"]
<1>1. authReq' = [authReq EXCEPT ![q] = r]
  BY Zenon DEF LoadEnrolment, Become
<1>2. Shape(Issued, batches, r) /\ r.step # "open" /\ r.step # "rotate" /\ \A c : ~Holds(r, c)
  BY DEF Shape, Holds
<1> HIDE DEF r
<1>9. UNCHANGED <<batches, account, token, ticket, ended, overlapped, bought, spent, codeTaint>>
  BY Zenon DEF LoadEnrolment
<1> QED
  BY Zenon, <1>1, <1>2, <1>9, OnlyRequest

(* regenerate_recovery_codes checks a code.                                 *)
LEMMA CheckRegenerationStep ==
  ASSUME AuthInv, NEW q \in AuthRequests, CheckRegeneration(q)
  PROVE  AuthInv' /\ CapStep
<1> DEFINE r == [step |-> "regenerate"]
<1>1. authReq' = [authReq EXCEPT ![q] = r]
  BY Zenon DEF CheckRegeneration, Become
<1>2. Shape(Issued, batches, r) /\ r.step # "open" /\ r.step # "rotate" /\ \A c : ~Holds(r, c)
  BY DEF Shape, Holds
<1> HIDE DEF r
<1>9. UNCHANGED <<batches, account, token, ticket, ended, overlapped, bought, spent, codeTaint>>
  BY Zenon DEF CheckRegeneration
<1> QED
  BY Zenon, <1>1, <1>2, <1>9, OnlyRequest

(* What the steps write to the account is an account.                       *)
LEMMA AccountWritten ==
  ASSUME AuthInv, NEW n \in 0..MAX_FAILED_ATTEMPTS, NEW b \in BOOLEAN, NEW c \in SUBSET RecoveryCodes
  PROVE  /\ LET a == [account EXCEPT !.failed_login_count = n, !.locked_until = b]
            IN  a \in User /\ a.mfa_recovery_codes = account.mfa_recovery_codes
         /\ LET a == [account EXCEPT !.locked_until = b]
            IN  a \in User /\ a.mfa_recovery_codes = account.mfa_recovery_codes
         /\ LET a == [account EXCEPT !.mfa_enabled = b, !.mfa_recovery_codes = c]
            IN  a \in User /\ a.mfa_recovery_codes = c
         /\ LET a == [account EXCEPT !.mfa_recovery_codes = c]
            IN  a \in User /\ a.mfa_recovery_codes = c
<1>1. account \in User
  BY Zenon, AuthFacts DEF CodesOK
<1> QED
  BY Zenon, <1>1 DEF User

(* Zero failures is a count of failures.                                    *)
LEMMA ZeroFailures == 0 \in 0..MAX_FAILED_ATTEMPTS /\ FALSE \in BOOLEAN /\ TRUE \in BOOLEAN
BY AuthAssumption

(* A wrong password counts on what phase 1 read.                            *)
LEMMA LoginFailsStep ==
  ASSUME AuthInv, NEW q \in AuthRequests, LoginFails(q)
  PROVE  AuthInv' /\ CapStep
<1> DEFINE n == authReq[q].failed_count + 1
           b == n >= MAX_FAILED_ATTEMPTS
<1>1. authReq[q].failed_count \in 0..(MAX_FAILED_ATTEMPTS - 1)
  BY Zenon, AuthFacts, ShapeFacts DEF LoginFails, Awaits
<1>2. n \in 0..MAX_FAILED_ATTEMPTS /\ b \in BOOLEAN
  BY <1>1, AuthAssumption
<1>3. account' = [account EXCEPT !.failed_login_count = n, !.locked_until = b]
  BY Zenon DEF LoginFails
<1> HIDE DEF n, b
<1>4. account' \in User /\ account'.mfa_recovery_codes = account.mfa_recovery_codes
  BY Zenon, <1>2, <1>3, AccountWritten
<1>5. CodesOK(account', batches, spent, codeTaint)
  BY Zenon, <1>4, AuthFacts, CodesKept
<1>6. /\ authReq' = [authReq EXCEPT ![q] = NoAuth]
      /\ UNCHANGED <<batches, token, ticket, ended, overlapped, bought, spent, codeTaint>>
  BY Zenon DEF LoginFails, Become
<1>7. TicketsOK(ticket', bought', authReq')
  BY Zenon, <1>6, NothingHeld, TicketsFollow
<1>8. batches' \in Nat /\ batches <= batches' /\ CodesOK(account', batches', spent', codeTaint')
  BY Zenon, <1>5, <1>6, AuthFacts
<1> QED
  BY Zenon, <1>6, <1>7, <1>8, RequestStep

(* Parking a sign-in takes a ticket that was not used.                      *)
LEMMA ParkHolds ==
  ASSUME AuthInv, NEW what \in {"challenge", "state"}, Park(what)
  PROVE  ticket' \in [Tickets -> Phases] /\ \A c \in Tickets : ticket[c] = "gone" => ticket'[c] = "gone"
<1>1. PICK d \in Tickets : ticket[d] = "unused" /\ ticket' = [ticket EXCEPT ![d] = what]
  BY Zenon DEF Park
<1>2. ticket \in [Tickets -> Phases] /\ what \in Phases
  BY Zenon, AuthFacts DEF TicketsOK, Phases
<1>3. "unused" # "gone"
  OBVIOUS
<1> QED
  BY Zenon, <1>1, <1>2, <1>3

(* A right password goes on to the cap, or parks a challenge.               *)
LEMMA LoginSucceedsStep ==
  ASSUME AuthInv, NEW q \in AuthRequests, LoginSucceeds(q)
  PROVE  AuthInv' /\ CapStep
<1> DEFINE r == Opening("cap", 0)
<1>1. account' = [account EXCEPT !.failed_login_count = 0, !.locked_until = FALSE]
  BY Zenon DEF LoginSucceeds
<1>2. account' \in User /\ account'.mfa_recovery_codes = account.mfa_recovery_codes
  BY Zenon, <1>1, ZeroFailures, AccountWritten
<1>3. CodesOK(account', batches, spent, codeTaint)
  BY Zenon, <1>2, AuthFacts, CodesKept
<1>4. UNCHANGED <<batches, token, ended, overlapped, bought, spent, codeTaint>>
  BY Zenon DEF LoginSucceeds
<1>5. batches' \in Nat /\ batches <= batches' /\ CodesOK(account', batches', spent', codeTaint')
  BY Zenon, <1>3, <1>4, AuthFacts
<1>6. CASE authReq' = [authReq EXCEPT ![q] = r] /\ ticket' = ticket
  <2>1. "cap" \in {"cap", "open", "disable"} /\ 0 \in Tickets \cup {0} /\ "cap" # "open"
    OBVIOUS
  <2>2. /\ Shape(Issued, batches', r) /\ r.step # "open" /\ r.step # "rotate"
        /\ \A d : Holds(r, d) => d = 0
    BY Zenon, <2>1, OpeningHolds
  <2> HIDE DEF r
  <2>3. \A c \in Tickets : Holds(r, c) => Holds(authReq[q], c)
    BY Zenon, <2>2, ZeroIsNoTicket
  <2>4. TicketsOK(ticket', bought', authReq')
    BY Zenon, <1>4, <1>6, <2>3, TicketsFollow
  <2> QED
    BY Zenon, <1>4, <1>5, <1>6, <2>2, <2>4, RequestStep
<1>7. CASE authReq' = [authReq EXCEPT ![q] = NoAuth] /\ Park("challenge")
  <2>1. authReq'[q] = NoAuth /\ \A p \in AuthRequests \ {q} : authReq'[p] = authReq[p]
    BY Zenon, <1>7, AuthFacts
  <2>2. ticket' \in [Tickets -> Phases] /\ \A c \in Tickets : ticket[c] = "gone" => ticket'[c] = "gone"
    BY Zenon, <1>7, ParkHolds
  <2>3. TicketsOK(ticket, bought, authReq) /\ \A c \in Tickets : ~Holds(authReq'[q], c)
    BY Zenon, <2>1, NothingHeld, AuthFacts
  <2>4. TicketsOK(ticket', bought, authReq')
    BY Zenon, <2>1, <2>2, <2>3, TicketsCarried
  <2> QED
    BY Zenon, <1>4, <1>5, <1>7, <2>4, RequestStep
<1> QED
  BY Zenon, <1>6, <1>7 DEF LoginSucceeds, Become

(* complete_enrolment makes a batch of codes.                               *)
LEMMA complete_enrolmentStep ==
  ASSUME AuthInv, NEW q \in AuthRequests, complete_enrolment(q)
  PROVE  AuthInv' /\ CapStep
<1>1. /\ batches < MaxBatches /\ batches' = batches + 1
      /\ account' = [account EXCEPT !.mfa_enabled = TRUE, !.mfa_recovery_codes = NewBatch]
      /\ authReq' = [authReq EXCEPT ![q] = NoAuth]
      /\ UNCHANGED <<token, ticket, ended, overlapped, bought, spent, codeTaint>>
  BY Zenon DEF complete_enrolment, Become
<1>2. batches \in 0..MaxBatches
  BY Zenon, AuthFacts DEF CodesOK
<1>3. batches' \in 0..MaxBatches /\ batches' \in Nat /\ batches <= batches' /\ NewBatch \in SUBSET RecoveryCodes
  <2>1. /\ batches' \in 0..MaxBatches /\ batches' \in Nat /\ batches <= batches'
        /\ NewBatch \subseteq (1..batches') \X Codes
    BY Zenon, <1>1, <1>2, BatchesMade DEF NewBatch
  <2>2. (1..batches') \X Codes \subseteq RecoveryCodes
    BY Zenon, <2>1, BatchesMade
  <2> QED
    BY Zenon, <2>1, <2>2
<1> HIDE DEF NewBatch
<1>4. account' \in User /\ account'.mfa_recovery_codes = NewBatch
  BY Zenon, <1>1, <1>3, ZeroFailures, AccountWritten
<1>5. CodesOK(account', batches + 1, spent, codeTaint)
  BY Zenon, <1>1, <1>4, AuthFacts, CodesRenewed
<1>6. CodesOK(account', batches', spent', codeTaint')
  BY Zenon, <1>1, <1>5
<1>7. TicketsOK(ticket', bought', authReq')
  BY Zenon, <1>1, NothingHeld, TicketsFollow
<1> QED
  BY Zenon, <1>1, <1>3, <1>6, <1>7, RequestStep

(* regenerate_recovery_codes replaces the batch.                            *)
LEMMA regenerate_recovery_codesStep ==
  ASSUME AuthInv, NEW q \in AuthRequests, regenerate_recovery_codes(q)
  PROVE  AuthInv' /\ CapStep
<1>1. /\ batches < MaxBatches /\ batches' = batches + 1
      /\ account' = [account EXCEPT !.mfa_recovery_codes = NewBatch]
      /\ authReq' = [authReq EXCEPT ![q] = NoAuth]
      /\ UNCHANGED <<token, ticket, ended, overlapped, bought, spent, codeTaint>>
  BY Zenon DEF regenerate_recovery_codes, Become
<1>2. batches \in 0..MaxBatches
  BY Zenon, AuthFacts DEF CodesOK
<1>3. batches' \in 0..MaxBatches /\ batches' \in Nat /\ batches <= batches' /\ NewBatch \in SUBSET RecoveryCodes
  <2>1. /\ batches' \in 0..MaxBatches /\ batches' \in Nat /\ batches <= batches'
        /\ NewBatch \subseteq (1..batches') \X Codes
    BY Zenon, <1>1, <1>2, BatchesMade DEF NewBatch
  <2>2. (1..batches') \X Codes \subseteq RecoveryCodes
    BY Zenon, <2>1, BatchesMade
  <2> QED
    BY Zenon, <2>1, <2>2
<1> HIDE DEF NewBatch
<1>4. account' \in User /\ account'.mfa_recovery_codes = NewBatch
  BY Zenon, <1>1, <1>3, ZeroFailures, AccountWritten
<1>5. CodesOK(account', batches + 1, spent, codeTaint)
  BY Zenon, <1>1, <1>4, AuthFacts, CodesRenewed
<1>6. CodesOK(account', batches', spent', codeTaint')
  BY Zenon, <1>1, <1>5
<1>7. TicketsOK(ticket', bought', authReq')
  BY Zenon, <1>1, NothingHeld, TicketsFollow
<1> QED
  BY Zenon, <1>1, <1>3, <1>6, <1>7, RequestStep

(* consume_recovery_code writes the list it loaded, less the code.          *)
LEMMA consume_recovery_codeStep ==
  ASSUME AuthInv, NEW q \in AuthRequests, consume_recovery_code(q)
  PROVE  AuthInv' /\ CapStep
<1> DEFINE o == authReq[q]
           r == Opening(o.then, o.ticket)
           left == o.loaded \ {o.code}
<1>1. o # NoAuth /\ o.step = "spend" /\ Shape(Issued, batches, o)
  BY Zenon, AuthFacts DEF consume_recovery_code, Awaits
<1>2. /\ o.ticket \in Tickets \cup {0} /\ o.then \in {"cap", "disable"}
      /\ o.loaded \in SUBSET ((1..batches) \X Codes) /\ o.code \in o.loaded
  BY Zenon, <1>1, ShapeFacts
<1>3. /\ account' = [account EXCEPT !.mfa_recovery_codes = left]
      /\ spent' = [spent EXCEPT ![o.code] = IF @ = 0 THEN 1 ELSE 2]
      /\ codeTaint' = (codeTaint \/ account.mfa_recovery_codes # o.loaded)
      /\ authReq' = [authReq EXCEPT ![q] = r]
      /\ UNCHANGED <<batches, token, ticket, ended, overlapped, bought>>
  BY Zenon DEF consume_recovery_code, Become, Remaining
<1> HIDE DEF o
<1>4. left \in SUBSET RecoveryCodes
  <2>1. (1..batches) \X Codes \subseteq RecoveryCodes
    BY Zenon, AuthFacts, BatchesMade DEF CodesOK
  <2> QED
    BY Zenon, <1>2, <2>1
<1>5. account' \in User /\ account'.mfa_recovery_codes = left
  BY Zenon, <1>3, <1>4, ZeroFailures, AccountWritten
<1>6. ~codeTaint' => ~codeTaint /\ account.mfa_recovery_codes = o.loaded
  BY Zenon, <1>3
<1>7. CodesOK(account', batches, spent', codeTaint')
  <2>1. CodesOK(account, batches, spent, codeTaint)
    BY Zenon, AuthFacts
  <2> QED
    BY Zenon, <1>2, <1>3, <1>5, <1>6, <2>1, CodeSpent
<1>8. CodesOK(account', batches', spent', codeTaint') /\ batches' \in Nat /\ batches <= batches'
  BY Zenon, <1>3, <1>7, AuthFacts
<1>9. o.then \in {"cap", "open", "disable"} /\ o.then # "open"
  BY <1>2
<1>10. Shape(Issued, batches', r) /\ r.step # "open" /\ r.step # "rotate" /\ \A d : Holds(r, d) => d = o.ticket
  BY Zenon, <1>2, <1>9, OpeningHolds
<1> HIDE DEF r
<1>11. \A c \in Tickets : Holds(r, c) => Holds(authReq[q], c)
  BY Zenon, <1>1, <1>10 DEF Holds, o
<1>12. TicketsOK(ticket', bought', authReq')
  BY Zenon, <1>3, <1>11, TicketsFollow
<1> QED
  BY Zenon, <1>3, <1>8, <1>10, <1>12, RequestStep

(* A challenge or an OAuth state is consumed.                               *)
LEMMA RedeemTicketStep ==
  ASSUME AuthInv, NEW q \in AuthRequests, NEW c \in Tickets, RedeemTicket(q, c)
  PROVE  AuthInv' /\ CapStep
<1>1. /\ ticket' = [ticket EXCEPT ![c] = "gone"]
      /\ UNCHANGED <<batches, account, token, ended, overlapped, bought, spent, codeTaint>>
  BY Zenon DEF RedeemTicket, consume
<1>2. ticket[c] # "gone"
  BY DEF RedeemTicket
<1>3. PICK r : /\ authReq' = [authReq EXCEPT ![q] = r] /\ Shape(Issued, batches, r)
               /\ r.step # "open" /\ r.step # "rotate" /\ \A d : Holds(r, d) => d = c
  <2>1. c \in Tickets \cup {0} /\ "cap" \in {"cap", "disable"} /\ "cap" \in {"cap", "open", "disable"} /\ "cap" # "open"
    OBVIOUS
  <2>2. CASE authReq' = [authReq EXCEPT ![q] = Proving(c, "cap")]
    BY Zenon, <2>1, <2>2, ProvingHolds
  <2>3. CASE authReq' = [authReq EXCEPT ![q] = Opening("cap", c)]
    BY Zenon, <2>1, <2>3, OpeningHolds
  <2> QED
    BY Zenon, <2>2, <2>3 DEF RedeemTicket, Become
<1>4. authReq'[q] = r /\ \A p \in AuthRequests \ {q} : authReq'[p] = authReq[p]
  BY Zenon, <1>3, AuthFacts
<1>5. TicketsOK(ticket, bought, authReq) /\ \A d \in Tickets \ {c} : ~Holds(authReq'[q], d)
  BY Zenon, <1>3, <1>4, AuthFacts
<1>6. TicketsOK(ticket', bought, authReq')
  BY Zenon, <1>1, <1>2, <1>4, <1>5, TicketRedeemed
<1>7. /\ CodesOK(account', batches', spent', codeTaint') /\ batches' \in Nat /\ batches <= batches'
      /\ TicketsOK(ticket', bought', authReq') /\ Shape(Issued, batches', r)
  BY Zenon, <1>1, <1>3, <1>6, AuthFacts
<1> QED
  BY Zenon, <1>1, <1>3, <1>7, RequestStep

(* Tokens and requests are left alone.                                      *)
LEMMA TokensAlone ==
  ASSUME AuthInv, UNCHANGED <<batches, token, authReq, ended, overlapped>>,
         TicketsOK(ticket', bought', authReq'), CodesOK(account', batches', spent', codeTaint')
  PROVE  AuthInv' /\ CapStep
<1>1. /\ DOMAIN authReq' = AuthRequests /\ DOMAIN token' = Issued /\ TokensOK(token', ended', overlapped')
      /\ \A p \in AuthRequests : authReq'[p] = authReq[p]
      /\ \A t \in Issued : token'[t] = token[t]
  BY Zenon, AuthFacts DEF Issued
<1> QED
  BY Zenon, <1>1, ShrinkStep

(* Nothing happens.                                                         *)
LEMMA StutterStep ==
  ASSUME AuthInv, UNCHANGED authVars
  PROVE  AuthInv' /\ CapStep
BY Zenon, AuthFacts, TokensAlone DEF authVars

(* The lock runs out.                                                       *)
LEMMA LockRunsOutStep ==
  ASSUME AuthInv, LockRunsOut
  PROVE  AuthInv' /\ CapStep
<1>1. /\ account' = [account EXCEPT !.locked_until = FALSE]
      /\ UNCHANGED <<batches, token, ticket, authReq, ended, overlapped, bought, spent, codeTaint>>
  BY Zenon DEF LockRunsOut
<1>2. account' \in User /\ account'.mfa_recovery_codes = account.mfa_recovery_codes
  <2>1. {} \in SUBSET RecoveryCodes
    BY Zenon
  <2> QED
    BY Zenon, <1>1, <2>1, ZeroFailures, AccountWritten
<1>3. CodesOK(account', batches, spent, codeTaint)
  BY Zenon, <1>2, AuthFacts, CodesKept
<1> QED
  BY Zenon, <1>1, <1>3, AuthFacts, TokensAlone

(* oauth.begin parks its state.                                             *)
LEMMA BeginOAuthStep ==
  ASSUME AuthInv, BeginOAuth
  PROVE  AuthInv' /\ CapStep
<1>1. ticket' \in [Tickets -> Phases] /\ \A c \in Tickets : ticket[c] = "gone" => ticket'[c] = "gone"
  BY Zenon, ParkHolds DEF BeginOAuth
<1>2. TicketsOK(ticket', bought, authReq)
  BY Zenon, <1>1, AuthFacts, TicketsMoved
<1>3. UNCHANGED <<batches, account, token, authReq, ended, overlapped, bought, spent, codeTaint>>
  BY Zenon DEF BeginOAuth
<1> QED
  BY Zenon, <1>2, <1>3, AuthFacts, TokensAlone

(* A Redis key expires.                                                     *)
LEMMA TicketExpiresStep ==
  ASSUME AuthInv, NEW c \in Tickets, TicketExpires(c)
  PROVE  AuthInv' /\ CapStep
<1>1. /\ ticket' = [ticket EXCEPT ![c] = "gone"]
      /\ UNCHANGED <<batches, account, token, authReq, ended, overlapped, bought, spent, codeTaint>>
  BY Zenon DEF TicketExpires
<1>2. ticket' \in [Tickets -> Phases] /\ \A d \in Tickets : ticket[d] = "gone" => ticket'[d] = "gone"
  <2>1. ticket \in [Tickets -> Phases] /\ "gone" \in Phases
    BY Zenon, AuthFacts DEF TicketsOK, Phases
  <2> QED
    BY Zenon, <1>1, <2>1
<1>3. TicketsOK(ticket', bought, authReq)
  BY Zenon, <1>2, AuthFacts, TicketsMoved
<1> QED
  BY Zenon, <1>1, <1>3, AuthFacts, TokensAlone

(* Tokens are revoked, with all those of the families that end.             *)
LEMMA RevokeStep ==
  ASSUME AuthInv, NEW ts, NEW E \in SUBSET Issued, token' = Revoke(ts), ended' = ended \cup E,
         \A f \in E \ overlapped : Unrev(token, f) \subseteq ts,
         DOMAIN authReq' = AuthRequests,
         \A p \in AuthRequests : authReq'[p] = authReq[p] \/ authReq'[p] = NoAuth,
         overlapped' = overlapped, batches' = batches,
         TicketsOK(ticket', bought', authReq'), CodesOK(account', batches', spent', codeTaint')
  PROVE  AuthInv' /\ CapStep
<1>1. TokensOK(token, ended, overlapped) /\ TokenRows(token)
  BY Zenon, AuthFacts
<1>2. TokensOK(token', ended', overlapped')
  BY Zenon, <1>1, RevokeKeeps
<1>3. /\ DOMAIN token' = Issued
      /\ \A t \in Issued : /\ token'[t].family = token[t].family /\ token'[t].expired = token[t].expired
                           /\ token'[t].revoked_at <=> t \in ts \/ token[t].revoked_at
  BY Zenon, <1>1, RevokeHolds
<1>4. \A t \in Issued : /\ token'[t].family = token[t].family
                        /\ token[t].revoked_at => token'[t].revoked_at
                        /\ token[t].expired => token'[t].expired
  BY Zenon, <1>3
<1> QED
  BY Zenon, <1>2, <1>3, <1>4, ShrinkStep

(* A family is revoked as a whole (logout, revoke_session, the replay of a  *)
(* rotated token).                                                          *)
LEMMA EndFamilyStep ==
  ASSUME AuthInv, NEW f \in Issued, EndFamily(f)
  PROVE  AuthInv' /\ CapStep
<1>1. /\ token' = Revoke(Unrevoked(f)) /\ ended' = ended \cup {f}
      /\ UNCHANGED <<batches, account, ticket, authReq, overlapped, bought, spent, codeTaint>>
  BY Zenon DEF EndFamily
<1>2. {f} \in SUBSET Issued /\ \A g \in {f} \ overlapped : Unrev(token, g) \subseteq Unrevoked(f)
  BY Zenon DEF Unrev, Unrevoked, Issued
<1>3. /\ DOMAIN authReq' = AuthRequests /\ \A p \in AuthRequests : authReq'[p] = authReq[p]
      /\ TicketsOK(ticket', bought', authReq') /\ CodesOK(account', batches', spent', codeTaint')
  BY Zenon, <1>1, AuthFacts
<1> QED
  BY Zenon, <1>1, <1>2, <1>3, RevokeStep

(* Ending every session revokes every token.                                *)
LEMMA EndAllHolds ==
  ASSUME EndAll
  PROVE  LET E == {f \in Issued : Unrevoked(f) # {}} IN
         /\ token' = Revoke(Issued) /\ ended' = ended \cup E /\ E \in SUBSET Issued
         /\ \A f \in E \ overlapped : Unrev(token, f) \subseteq Issued
BY Zenon DEF EndAll, Unrev, Issued

(* revoke_all.                                                              *)
LEMMA revoke_allStep ==
  ASSUME AuthInv, revoke_all
  PROVE  AuthInv' /\ CapStep
<1> DEFINE E == {f \in Issued : Unrevoked(f) # {}}
<1>1. /\ token' = Revoke(Issued) /\ ended' = ended \cup E /\ E \in SUBSET Issued
      /\ \A f \in E \ overlapped : Unrev(token, f) \subseteq Issued
  BY Zenon, EndAllHolds DEF revoke_all
<1> HIDE DEF E
<1>2. UNCHANGED <<batches, account, ticket, authReq, overlapped, bought, spent, codeTaint>>
  BY Zenon DEF revoke_all
<1>3. /\ DOMAIN authReq' = AuthRequests /\ \A p \in AuthRequests : authReq'[p] = authReq[p]
      /\ TicketsOK(ticket', bought', authReq') /\ CodesOK(account', batches', spent', codeTaint')
  BY Zenon, <1>2, AuthFacts
<1> QED
  BY Zenon, <1>1, <1>2, <1>3, RevokeStep

(* reset_password ends every session.                                       *)
LEMMA reset_passwordStep ==
  ASSUME AuthInv, reset_password
  PROVE  AuthInv' /\ CapStep
<1> DEFINE E == {f \in Issued : Unrevoked(f) # {}}
<1>1. /\ token' = Revoke(Issued) /\ ended' = ended \cup E /\ E \in SUBSET Issued
      /\ \A f \in E \ overlapped : Unrev(token, f) \subseteq Issued
  BY Zenon, EndAllHolds DEF reset_password
<1> HIDE DEF E
<1>2. /\ account' = [account EXCEPT !.failed_login_count = 0, !.locked_until = FALSE]
      /\ UNCHANGED <<batches, ticket, authReq, overlapped, bought, spent, codeTaint>>
  BY Zenon DEF reset_password
<1>3. account' \in User /\ account'.mfa_recovery_codes = account.mfa_recovery_codes
  BY Zenon, <1>2, ZeroFailures, AccountWritten
<1>4. CodesOK(account', batches, spent, codeTaint)
  BY Zenon, <1>3, AuthFacts, CodesKept
<1>5. /\ DOMAIN authReq' = AuthRequests /\ \A p \in AuthRequests : authReq'[p] = authReq[p]
      /\ TicketsOK(ticket', bought', authReq') /\ CodesOK(account', batches', spent', codeTaint')
  BY Zenon, <1>2, <1>4, AuthFacts
<1> QED
  BY Zenon, <1>1, <1>2, <1>5, RevokeStep

(* disable ends every session.                                              *)
LEMMA disableStep ==
  ASSUME AuthInv, NEW q \in AuthRequests, disable(q)
  PROVE  AuthInv' /\ CapStep
<1> DEFINE E == {f \in Issued : Unrevoked(f) # {}}
<1>1. /\ token' = Revoke(Issued) /\ ended' = ended \cup E /\ E \in SUBSET Issued
      /\ \A f \in E \ overlapped : Unrev(token, f) \subseteq Issued
  BY Zenon, EndAllHolds DEF disable
<1> HIDE DEF E
<1>2. /\ account' = [account EXCEPT !.mfa_enabled = FALSE, !.mfa_recovery_codes = {}]
      /\ authReq' = [authReq EXCEPT ![q] = NoAuth]
      /\ UNCHANGED <<batches, ticket, overlapped, bought, spent, codeTaint>>
  BY Zenon DEF disable, Become
<1>3. account' \in User /\ account'.mfa_recovery_codes = {}
  <2>1. {} \in SUBSET RecoveryCodes
    BY Zenon
  <2> QED
    BY Zenon, <1>2, <2>1, ZeroFailures, AccountWritten
<1>4. CodesOK(account', batches, spent, codeTaint)
  BY Zenon, <1>3, AuthFacts, CodesKept
<1>5. TicketsOK(ticket', bought', authReq')
  BY Zenon, <1>2, NothingHeld, TicketsFollow
<1>6. /\ DOMAIN authReq' = AuthRequests /\ CodesOK(account', batches', spent', codeTaint')
      /\ \A p \in AuthRequests : authReq'[p] = authReq[p] \/ authReq'[p] = NoAuth
  BY Zenon, <1>2, <1>4, AuthFacts
<1> QED
  BY Zenon, <1>1, <1>2, <1>5, <1>6, RevokeStep

(* A token expires.                                                         *)
LEMMA TokenExpiresStep ==
  ASSUME AuthInv, NEW t \in Issued, TokenExpires(t)
  PROVE  AuthInv' /\ CapStep
<1>1. /\ token' = [token EXCEPT ![t].expired = TRUE]
      /\ UNCHANGED <<batches, account, ticket, authReq, ended, overlapped, bought, spent, codeTaint>>
  BY Zenon DEF TokenExpires
<1>2. /\ TokensOK(token', ended, overlapped) /\ DOMAIN token' = Issued
      /\ \A u \in Issued : /\ token'[u].family = token[u].family /\ token'[u].revoked_at = token[u].revoked_at
                           /\ token[u].expired => token'[u].expired
  <2>1. TokensOK(token, ended, overlapped)
    BY Zenon, AuthFacts
  <2> QED
    BY Zenon, <1>1, <2>1, ExpireKeeps
<1>3. \A u \in Issued : /\ token'[u].family = token[u].family
                        /\ token[u].revoked_at => token'[u].revoked_at
                        /\ token[u].expired => token'[u].expired
  BY Zenon, <1>2
<1>4. /\ DOMAIN authReq' = AuthRequests /\ \A p \in AuthRequests : authReq'[p] = authReq[p]
      /\ TicketsOK(ticket', bought', authReq') /\ CodesOK(account', batches', spent', codeTaint')
      /\ TokensOK(token', ended', overlapped')
  BY Zenon, <1>1, <1>2, AuthFacts
<1> QED
  BY Zenon, <1>1, <1>2, <1>3, <1>4, ShrinkStep

(* The cap revokes the live tokens of the sessions it evicts; in a family   *)
(* no rotation overlapped, that is all there is.                            *)
LEMMA enforce_session_capStep ==
  ASSUME AuthInv, NEW q \in AuthRequests, enforce_session_cap(q)
  PROVE  AuthInv' /\ CapStep
<1> DEFINE o == authReq[q]
           r == Opening("open", o.ticket)
           D == {token[t].family : t \in sessions_to_evict(OldestLive)}
           ts == {t \in Live : token[t].family \in D}
<1>1. o # NoAuth /\ o.step = "cap" /\ Shape(Issued, batches, o) /\ TokenRows(token)
  BY Zenon, AuthFacts DEF enforce_session_cap, Awaits
<1>2. /\ token' = Revoke(ts) /\ ended' = ended \cup D /\ authReq' = [authReq EXCEPT ![q] = r]
      /\ UNCHANGED <<batches, account, ticket, overlapped, bought, spent, codeTaint>>
  BY Zenon DEF enforce_session_cap, Become
<1>3. o.ticket \in Tickets \cup {0}
  BY Zenon, <1>1, ShapeFacts
<1>4. D \in SUBSET Issued /\ \A f \in D \ overlapped : Unrev(token, f) \subseteq ts
  <2>1. \A t \in sessions_to_evict(OldestLive) : t \in Live /\ t \in Issued /\ ~token[t].revoked_at
    BY Zenon DEF sessions_to_evict, OldestLive, Live
  <2>2. D \subseteq Issued
    BY Zenon, <1>1, <2>1 DEF TokenRows, Issued
  <2>3. ASSUME NEW f \in D \ overlapped PROVE Unrev(token, f) \subseteq ts
    <3>1. PICK t \in sessions_to_evict(OldestLive) : f = token[t].family
      BY Zenon
    <3>2. t \in Unrev(token, f) /\ t \in ts
      BY Zenon, <2>1, <3>1 DEF Unrev, Issued
    <3>3. FamilyOK(token, ended, f)
      BY Zenon, <2>2, <2>3, AuthFacts DEF TokensOK, Issued
    <3> QED
      BY Zenon, <3>2, <3>3 DEF FamilyOK
  <2> QED
    BY Zenon, <2>2, <2>3
<1>5. CapStep
  BY Zenon, <1>2 DEF CapStep, Capped, Doomed
<1> HIDE DEF D, ts, o
<1>6. TokensOK(token', ended', overlapped')
  BY Zenon, <1>2, <1>4, AuthFacts, RevokeKeeps
<1>7. DOMAIN token' = Issued
  BY Zenon, <1>1, <1>2, RevokeHolds
<1>10. Shape(Issued, batches, r) /\ \A d : Holds(r, d) => d = o.ticket
  <2>1. "open" \in {"cap", "open", "disable"}
    OBVIOUS
  <2> QED
    BY Zenon, <1>3, <2>1, OpeningHolds
<1> HIDE DEF r
<1>11. \A c \in Tickets : Holds(r, c) => Holds(authReq[q], c)
  BY Zenon, <1>1, <1>10 DEF Holds, o
<1>12. TicketsOK(ticket', bought', authReq')
  BY Zenon, <1>2, <1>11, TicketsFollow
<1>13. ShapesOK(token', batches', authReq')
  <2>1. /\ DOMAIN authReq' = AuthRequests /\ authReq'[q] = r
        /\ \A p \in AuthRequests \ {q} : authReq'[p] = authReq[p]
    BY Zenon, <1>2, AuthFacts
  <2> QED
    BY Zenon, <1>2, <1>7, <1>10, <2>1, AuthFacts DEF ShapesOK
<1>14. CodesOK(account', batches', spent', codeTaint')
  BY Zenon, <1>2, AuthFacts
<1> QED
  BY Zenon, <1>5, <1>6, <1>12, <1>13, <1>14, AuthInvNext

(* A session is opened for a request that is past the cap.                  *)
LEMMA issue_sessionStep ==
  ASSUME AuthInv, NEW q \in AuthRequests, issue_session(q)
  PROVE  AuthInv' /\ CapStep
<1> DEFINE o == authReq[q]
           n == NextToken
<1>1. /\ o # NoAuth /\ o.step = "open" /\ Shape(Issued, batches, o)
      /\ TokenRows(token) /\ TokensOK(token, ended, overlapped) /\ n \in Tokens
  BY Zenon, AuthFacts DEF issue_session, Awaits
<1>2. /\ token' = With(token, n) /\ authReq' = [authReq EXCEPT ![q] = NoAuth]
      /\ UNCHANGED <<batches, account, ticket, ended, overlapped, spent, codeTaint>>
  BY Zenon DEF issue_session, Become
<1>3. bought' = IF o.ticket = 0 THEN bought ELSE [bought EXCEPT ![o.ticket] = @ + 1]
  BY Zenon DEF issue_session
<1>4. o.ticket \in Tickets \cup {0}
  BY Zenon, <1>1, ShapeFacts
<1>5. /\ DOMAIN authReq' = AuthRequests /\ authReq'[q] = NoAuth
      /\ \A p \in AuthRequests \ {q} : authReq'[p] = authReq[p]
  BY Zenon, <1>2, AuthFacts
<1>6. /\ TokensOK(token', ended, overlapped) /\ DOMAIN token' = Issued \cup {n}
      /\ \A t \in Issued : token'[t] = token[t]
      /\ token'[n].family = n
  BY Zenon, <1>1, <1>2, IssueKeeps
<1> HIDE DEF n
<1>7. q \in Opens(authReq) /\ Opens(authReq') \subseteq Opens(authReq) \ {q}
  BY Zenon, <1>1, <1>5 DEF Opens
<1>8. Reach(token', authReq') \subseteq Reach(token, authReq) \cup {n}
  <2>1. LiveFam(token') \subseteq LiveFam(token) \cup {n}
    <3> SUFFICES ASSUME NEW t \in Issued \cup {n}, ~token'[t].revoked_at, ~token'[t].expired
                 PROVE  token'[t].family \in LiveFam(token) \cup {n}
      BY Zenon, <1>6 DEF LiveFam
    <3>1. CASE t \in Issued
      BY Zenon, <1>6, <3>1 DEF LiveFam, Issued
    <3>2. CASE t = n
      BY Zenon, <1>6, <3>2
    <3> QED
      BY Zenon, <3>1, <3>2
  <2>2. Turning(token', authReq') \subseteq Turning(token, authReq)
    <3> SUFFICES ASSUME NEW p \in AuthRequests, Rotates(authReq'[p])
                 PROVE  token'[authReq'[p].token].family \in Turning(token, authReq)
      BY Zenon DEF Turning
    <3>1. p # q /\ authReq'[p] = authReq[p]
      BY Zenon, <1>5 DEF Rotates
    <3>2. authReq[p].token \in Issued
      BY Zenon, <3>1, AuthFacts, ShapeFacts DEF Rotates
    <3>3. token'[authReq'[p].token].family = token[authReq[p].token].family
      BY Zenon, <1>6, <3>1, <3>2
    <3>4. token[authReq[p].token].family \in DOMAIN token
      BY Zenon, <1>1, <3>2 DEF TokenRows, Issued
    <3> QED
      BY Zenon, <3>1, <3>3, <3>4 DEF Turning
  <2> QED
    BY Zenon, <2>1, <2>2 DEF Reach
<1>9. CapStep
  BY Zenon, <1>1, <1>7, <1>8 DEF CapStep, Opened, n
<1>10. ShapesOK(token', batches', authReq')
  <2>1. ASSUME NEW p \in AuthRequests, authReq'[p] # NoAuth PROVE Shape(DOMAIN token', batches, authReq'[p])
    <3>1. p # q /\ authReq'[p] = authReq[p]
      BY Zenon, <1>5, <2>1
    <3>2. Shape(Issued, batches, authReq[p]) /\ Issued \subseteq DOMAIN token' /\ batches \in Nat /\ batches <= batches
      BY Zenon, <1>6, <2>1, <3>1, AuthFacts
    <3>3. Shape(DOMAIN token', batches, authReq[p])
      BY Zenon, <3>2, ShapeGrows
    <3> QED
      BY Zenon, <3>1, <3>3
  <2> QED
    BY Zenon, <1>2, <1>5, <2>1 DEF ShapesOK
<1>11. TicketsOK(ticket', bought', authReq')
  <2>1. TicketsOK(ticket, bought, authReq) /\ \A d \in Tickets : ~Holds(authReq'[q], d)
    BY Zenon, <1>5, NothingHeld, AuthFacts
  <2>2. CASE o.ticket = 0
    BY Zenon, <1>2, <1>3, <2>2, NothingHeld, TicketsFollow
  <2>3. CASE o.ticket # 0
    <3>1. o.ticket \in Tickets /\ bought' = [bought EXCEPT ![o.ticket] = @ + 1]
      BY Zenon, <1>3, <1>4, <2>3
    <3>2. Holds(authReq[q], o.ticket)
      BY Zenon, <1>1, <3>1 DEF Holds
    <3> HIDE DEF o
    <3>3. TicketsOK(ticket, bought', authReq')
      BY Zenon, <1>5, <2>1, <3>1, <3>2, TicketSold
    <3> QED
      BY Zenon, <1>2, <3>3
  <2> QED
    BY Zenon, <2>2, <2>3
<1>12. CodesOK(account', batches', spent', codeTaint') /\ TokensOK(token', ended', overlapped')
  BY Zenon, <1>2, <1>6, AuthFacts
<1> QED
  BY Zenon, <1>9, <1>10, <1>11, <1>12, AuthInvNext

(* A rotation replaces the token it read, whose family was counted.         *)
LEMMA refreshStep ==
  ASSUME AuthInv, NEW q \in AuthRequests, refresh(q)
  PROVE  AuthInv' /\ CapStep
<1> DEFINE o == authReq[q]
           t == o.token
           n == NextToken
           g == token[t].family
<1>1. /\ o # NoAuth /\ o.step = "rotate" /\ Shape(Issued, batches, o)
      /\ TokenRows(token) /\ TokensOK(token, ended, overlapped) /\ n \in Tokens
  BY Zenon, AuthFacts DEF refresh, Awaits
<1>2. t \in Issued /\ o.revoked_at = FALSE
  BY Zenon, <1>1, ShapeFacts
<1>3. /\ token' = With(Revoke({t}), g) /\ authReq' = [authReq EXCEPT ![q] = NoAuth]
      /\ UNCHANGED <<batches, account, ticket, ended, bought, spent, codeTaint>>
  BY Zenon DEF refresh, Become
<1>4. overlapped' = IF token[t].revoked_at # o.revoked_at THEN overlapped \cup {g} ELSE overlapped
  BY Zenon DEF refresh
<1>5. overlapped' = IF token[t].revoked_at THEN overlapped \cup {g} ELSE overlapped
  <2>1. token[t].revoked_at \in BOOLEAN
    BY Zenon, <1>1, <1>2 DEF TokenRows, RefreshToken, Issued
  <2> HIDE DEF t, o, g
  <2>2. token[t].revoked_at # o.revoked_at <=> token[t].revoked_at
    BY Zenon, <1>2, <2>1
  <2> QED
    BY Zenon, <1>4, <2>2
<1>6. /\ DOMAIN authReq' = AuthRequests /\ authReq'[q] = NoAuth
      /\ \A p \in AuthRequests \ {q} : authReq'[p] = authReq[p]
  BY Zenon, <1>3, AuthFacts
<1> HIDE DEF o, t
<1>7. /\ TokensOK(token', ended, overlapped') /\ DOMAIN token' = Issued \cup {n}
      /\ token'[n].family = g
      /\ \A u \in Issued : /\ token'[u].family = token[u].family /\ token'[u].expired = token[u].expired
                           /\ token[u].revoked_at => token'[u].revoked_at
  <2> DEFINE over == IF token[t].revoked_at THEN overlapped \cup {g} ELSE overlapped
             out == With(Revoke({t}), g)
  <2>1. /\ TokensOK(out, ended, over) /\ DOMAIN out = Issued \cup {n} /\ out[n].family = g
        /\ \A u \in Issued : /\ out[u].family = token[u].family /\ out[u].expired = token[u].expired
                             /\ token[u].revoked_at => out[u].revoked_at
    BY Zenon, <1>1, <1>2, RefreshKeeps
  <2>2. overlapped' = over /\ token' = out
    BY Zenon, <1>3, <1>5
  <2> HIDE DEF over, out
  <2> QED
    BY Zenon, <2>1, <2>2
<1> HIDE DEF n
<1>8. g \in Turning(token, authReq)
  BY Zenon, <1>1, <1>2 DEF Turning, Rotates, TokenRows, Issued, t, o
<1> HIDE DEF g
<1>9. Opens(authReq') \subseteq Opens(authReq)
  BY Zenon, <1>6 DEF Opens
<1>10. Reach(token', authReq') \subseteq Reach(token, authReq)
  <2>1. LiveFam(token') \subseteq LiveFam(token) \cup {g}
    <3> SUFFICES ASSUME NEW u \in Issued \cup {n}, ~token'[u].revoked_at, ~token'[u].expired
                 PROVE  token'[u].family \in LiveFam(token) \cup {g}
      BY Zenon, <1>7 DEF LiveFam
    <3>1. CASE u \in Issued
      <4>1. ~token[u].revoked_at /\ ~token[u].expired /\ token'[u].family = token[u].family
        BY Zenon, <1>7, <3>1
      <4> QED
        BY Zenon, <3>1, <4>1 DEF LiveFam, Issued
    <3>2. CASE u = n
      BY Zenon, <1>7, <3>2
    <3> QED
      BY Zenon, <3>1, <3>2
  <2>2. Turning(token', authReq') \subseteq Turning(token, authReq)
    <3> SUFFICES ASSUME NEW p \in AuthRequests, Rotates(authReq'[p])
                 PROVE  token'[authReq'[p].token].family \in Turning(token, authReq)
      BY Zenon DEF Turning
    <3>1. p # q /\ authReq'[p] = authReq[p]
      BY Zenon, <1>6 DEF Rotates
    <3>2. authReq[p].token \in Issued
      BY Zenon, <3>1, AuthFacts, ShapeFacts DEF Rotates
    <3>3. token'[authReq'[p].token].family = token[authReq[p].token].family
      BY Zenon, <1>7, <3>1, <3>2
    <3>4. token[authReq[p].token].family \in DOMAIN token
      BY Zenon, <1>1, <3>2 DEF TokenRows, Issued
    <3> QED
      BY Zenon, <3>1, <3>3, <3>4 DEF Turning
  <2> QED
    BY Zenon, <1>8, <2>1, <2>2 DEF Reach
<1>11. CapStep
  BY Zenon, <1>9, <1>10 DEF CapStep, Quiet
<1>12. ShapesOK(token', batches', authReq')
  <2>1. ASSUME NEW p \in AuthRequests, authReq'[p] # NoAuth PROVE Shape(DOMAIN token', batches, authReq'[p])
    <3>1. p # q /\ authReq'[p] = authReq[p]
      BY Zenon, <1>6, <2>1
    <3>2. Shape(Issued, batches, authReq[p]) /\ Issued \subseteq DOMAIN token' /\ batches \in Nat /\ batches <= batches
      BY Zenon, <1>7, <2>1, <3>1, AuthFacts
    <3>3. Shape(DOMAIN token', batches, authReq[p])
      BY Zenon, <3>2, ShapeGrows
    <3> QED
      BY Zenon, <3>1, <3>3
  <2> QED
    BY Zenon, <1>3, <1>6, <2>1 DEF ShapesOK
<1>13. TicketsOK(ticket', bought', authReq')
  BY Zenon, <1>3, NothingHeld, TicketsFollow
<1>14. CodesOK(account', batches', spent', codeTaint') /\ TokensOK(token', ended', overlapped')
  BY Zenon, <1>3, <1>7, AuthFacts
<1> QED
  BY Zenon, <1>11, <1>12, <1>13, <1>14, AuthInvNext

-----------------------------------------------------------------------------

(* AuthInv holds of a new account.                                          *)
LEMMA AuthInit_Inv ==
  ASSUME AuthInit
  PROVE  AuthInv
<1>1. ShapesOK(token, batches, authReq)
  BY Zenon DEF AuthInit, ShapesOK
<1>2. DOMAIN token = {} /\ TokenRows(token)
  <2>1. DOMAIN token = {} /\ token \in Seq(RefreshToken) /\ Len(token) \in 0..MaxTokens
    BY AuthAssumption DEF AuthInit
  <2> QED
    BY Zenon, <2>1 DEF TokenRows
<1>3. TokensOK(token, ended, overlapped)
  BY Zenon, <1>2 DEF AuthInit, TokensOK
<1>4. TicketsOK(ticket, bought, authReq)
  <2>1. \A q \in AuthRequests : authReq[q] = NoAuth
    BY Zenon DEF AuthInit
  <2>2. \A c \in Tickets, q \in AuthRequests : ~Holds(authReq[q], c)
    BY Zenon, <2>1 DEF Holds
  <2> QED
    BY Zenon, <2>2 DEF AuthInit, TicketsOK, Phases
<1>5. CodesOK(account, batches, spent, codeTaint)
  <2>1. 0 \in 0..MaxBatches /\ 0 \in 0..2 /\ 0 # 2
    BY AuthAssumption
  <2>2. account \in User /\ account.mfa_recovery_codes = {}
    BY Zenon, ZeroFailures DEF AuthInit, User
  <2> QED
    BY Zenon, <2>1, <2>2 DEF AuthInit, CodesOK
<1> QED
  BY Zenon, <1>1, <1>3, <1>4, <1>5 DEF AuthInv

(* Every step preserves AuthInv, and is quiet, opens one session or         *)
(* enforces the cap.                                                        *)
LEMMA AuthNext_Inv ==
  ASSUME AuthInv, [AuthNext]_authVars
  PROVE  AuthInv' /\ CapStep
<1>1. ASSUME NEW q \in AuthRequests, SignInRoutes(q) PROVE AuthInv' /\ CapStep
  BY Zenon, <1>1, ResolvePrincipalStep, LoginFailsStep, LoginSucceedsStep, enforce_session_capStep,
     issue_sessionStep, refreshStep DEF SignInRoutes
<1>2. ASSUME NEW q \in AuthRequests, SecondFactorRoutes(q) PROVE AuthInv' /\ CapStep
  BY ZenonT(40), <1>2, RedeemTicketStep, check_codeStep, StepUpStep, consume_recovery_codeStep,
     FindRecoveryCodeStep, LoadEnrolmentStep, complete_enrolmentStep, CheckRegenerationStep,
     regenerate_recovery_codesStep, AskToDisableStep, disableStep DEF SecondFactorRoutes
<1>3. ASSUME NEW t \in Issued, DetectReuse(t) \/ logout(t) \/ revoke_session(t) PROVE AuthInv' /\ CapStep
  <2>1. token[t].family \in Issued
    BY Zenon, AuthFacts DEF TokenRows, Issued
  <2> QED
    BY Zenon, <1>3, <2>1, EndFamilyStep DEF DetectReuse, logout, revoke_session
<1>4. ASSUME SessionRoutes PROVE AuthInv' /\ CapStep
  BY Zenon, <1>3, <1>4, TokenExpiresStep, EvaluateRotationStep, revoke_allStep, reset_passwordStep,
     BeginOAuthStep, LockRunsOutStep, TicketExpiresStep DEF SessionRoutes
<1> QED
  BY Zenon, <1>1, <1>2, <1>4, StutterStep DEF AuthNext

(* AuthInv holds throughout: a family no rotation overlapped has one        *)
(* unrevoked token at most and none once it ended, a ticket is held by one  *)
(* request and sold once, and a recovery code on the list was not accepted. *)
THEOREM AuthInvariant == AuthSpec => []AuthInv
<1>1. AuthInit => AuthInv
  BY Zenon, AuthInit_Inv
<1>2. AuthInv /\ [AuthNext]_authVars => AuthInv'
  BY Zenon, AuthNext_Inv
<1> QED
  BY <1>1, <1>2, PTL DEF AuthSpec

-----------------------------------------------------------------------------
(* A nonempty set of numbers has a least one.                               *)
LEMMA LeastNatural ==
  ASSUME NEW S \in SUBSET Nat, S # {}
  PROVE  \E x \in S : \A y \in S : x <= y
<1> DEFINE R == OpToRel(<, Nat)
<1>1. IsWellFoundedOn(R, Nat)
  BY Zenon, NatLessThanWellFounded
<1>2. \A x, y \in Nat : <<x, y>> \in R <=> x < y
  BY Zenon DEF OpToRel
<1> HIDE DEF R
<1>3. \E x \in S : \A y \in S : ~(<<y, x>> \in R)
  BY Zenon, <1>1, WFMin
<1>4. \E x \in S : \A y \in S : ~(y < x)
  BY Zenon, <1>2, <1>3
<1> QED
  BY SMT, <1>4

(* An eviction leaves room for one session.                                 *)
LEMMA EvictionLeavesRoom ==
  ASSUME NEW F \in SUBSET Nat, IsFiniteSet(F)
  PROVE  /\ IsFiniteSet(F \ sessions_to_evict(F))
         /\ Cardinality(F \ sessions_to_evict(F)) <= MAX_SESSIONS_PER_USER - 1
<1> DEFINE K == F \ sessions_to_evict(F)
<1>1. IsFiniteSet(K)
  BY Zenon, FS_Difference
<1>2. CASE K = {}
  <2>1. Cardinality(K) = 0
    BY Zenon, <1>2, FS_EmptySet
  <2> HIDE DEF K
  <2>2. Cardinality(K) <= MAX_SESSIONS_PER_USER - 1
    BY <2>1, AuthAssumption
  <2> QED
    BY Zenon, <1>1, <2>2 DEF K
<1>3. CASE K # {}
  <2>1. PICK k \in K : \A g \in K : k <= g
    BY Zenon, <1>3, LeastNatural
  <2> DEFINE later == {g \in F : g >= k}
  <2>2. ~(Cardinality(later) >= MAX_SESSIONS_PER_USER)
    BY Zenon, <2>1 DEF sessions_to_evict
  <2>3. \A g \in K : g \in F /\ g >= k
    BY <2>1
  <2>4. K \subseteq later
    BY Zenon, <2>3
  <2>5. IsFiniteSet(later)
    <3>1. later \in SUBSET F
      BY Zenon
    <3> QED
      BY Zenon, <3>1, FS_Subset
  <2>6. Cardinality(K) \in Nat /\ Cardinality(later) \in Nat
    BY Zenon, <1>1, <2>5, FS_CardinalityType
  <2> HIDE DEF K, later
  <2>7. Cardinality(K) <= Cardinality(later)
    BY Zenon, <2>4, <2>5, FS_Subset
  <2>8. Cardinality(K) <= MAX_SESSIONS_PER_USER - 1
    BY <2>2, <2>6, <2>7, AuthAssumption
  <2> QED
    BY Zenon, <1>1, <2>8 DEF K
<1> QED
  BY Zenon, <1>2, <1>3

CapOK(tok, reqs) ==
  Cardinality(Reach(tok, reqs)) + Cardinality(Opens(reqs))
    <= MAX_SESSIONS_PER_USER + Cardinality(AuthRequests) - 1

(* The sets that the bound counts are finite.                               *)
LEMMA ReachIsFinite ==
  ASSUME NEW tok, TokenRows(tok), NEW reqs
  PROVE  /\ IsFiniteSet(Reach(tok, reqs)) /\ Cardinality(Reach(tok, reqs)) \in Nat
         /\ IsFiniteSet(Opens(reqs)) /\ Cardinality(Opens(reqs)) \in Nat
         /\ LiveFam(tok) \subseteq DOMAIN tok /\ IsFiniteSet(LiveFam(tok)) /\ DOMAIN tok \subseteq Nat
<1> DEFINE n == Len(tok)
<1>1. DOMAIN tok = 1..n /\ n \in Nat
  BY DEF TokenRows
<1>2. IsFiniteSet(1..n) /\ 1..n \subseteq Nat
  BY <1>1, FS_Interval
<1>3. LiveFam(tok) \subseteq DOMAIN tok
  BY Zenon DEF LiveFam, TokenRows
<1>4. Reach(tok, reqs) \in SUBSET (DOMAIN tok) /\ Opens(reqs) \in SUBSET AuthRequests
  BY Zenon, <1>3 DEF Reach, Turning, Opens
<1>5. IsFiniteSet(AuthRequests) /\ IsFiniteSet(DOMAIN tok)
  BY Zenon, <1>1, <1>2, AuthAssumption
<1>6. IsFiniteSet(Reach(tok, reqs)) /\ IsFiniteSet(Opens(reqs)) /\ IsFiniteSet(LiveFam(tok))
  BY Zenon, <1>3, <1>4, <1>5, FS_Subset
<1> QED
  BY Zenon, <1>1, <1>2, <1>3, <1>6, FS_CardinalityType

(* A step that reaches no further family keeps the bound.                   *)
LEMMA CapKept ==
  ASSUME TokenRows(token), CapOK(token, authReq), NEW tok, NEW reqs,
         Reach(tok, reqs) \subseteq Reach(token, authReq), Opens(reqs) \subseteq Opens(authReq)
  PROVE  CapOK(tok, reqs)
<1> DEFINE a == Cardinality(Reach(token, authReq))
           b == Cardinality(Opens(authReq))
           c == Cardinality(Reach(tok, reqs))
           d == Cardinality(Opens(reqs))
           n == Cardinality(AuthRequests)
<1>1. /\ IsFiniteSet(Reach(token, authReq)) /\ IsFiniteSet(Opens(authReq)) /\ a \in Nat /\ b \in Nat
  BY Zenon, ReachIsFinite
<1>2. IsFiniteSet(Reach(tok, reqs)) /\ c <= a
  BY Zenon, <1>1, FS_Subset
<1>3. IsFiniteSet(Opens(reqs)) /\ d <= b
  BY Zenon, <1>1, FS_Subset
<1>4. c \in Nat /\ d \in Nat /\ n \in Nat
  BY Zenon, <1>2, <1>3, FS_CardinalityType, AuthAssumption
<1>5. a + b <= MAX_SESSIONS_PER_USER + n - 1
  BY Zenon DEF CapOK
<1> HIDE DEF a, b, c, d, n
<1>6. c + d <= MAX_SESSIONS_PER_USER + n - 1
  BY SMTT(40), <1>1, <1>2, <1>3, <1>4, <1>5, AuthAssumption
<1> QED
  BY Zenon, <1>6 DEF CapOK, c, d, n

(* A session that is opened was counted as an opening.                      *)
LEMMA CapOpens ==
  ASSUME TokenRows(token), CapOK(token, authReq), NEW q \in Opens(authReq), NEW f,
         NEW tok, NEW reqs,
         Reach(tok, reqs) \subseteq Reach(token, authReq) \cup {f}, Opens(reqs) \subseteq Opens(authReq) \ {q}
  PROVE  CapOK(tok, reqs)
<1> DEFINE R == Reach(token, authReq)
           O == Opens(authReq)
           a == Cardinality(R)
           b == Cardinality(O)
           c == Cardinality(Reach(tok, reqs))
           d == Cardinality(Opens(reqs))
           n == Cardinality(AuthRequests)
<1>1. IsFiniteSet(R) /\ IsFiniteSet(O) /\ a \in Nat /\ b \in Nat
  BY Zenon, ReachIsFinite
<1>2. a + b <= MAX_SESSIONS_PER_USER + n - 1
  BY Zenon DEF CapOK
<1> HIDE DEF R, O
<1>3. /\ IsFiniteSet(R \cup {f})
      /\ Cardinality(R \cup {f}) = IF f \in R THEN a ELSE a + 1
  BY Zenon, <1>1, FS_AddElement
<1>4. IsFiniteSet(O \ {q}) /\ Cardinality(O \ {q}) = b - 1
  <2>1. q \in O
    BY Zenon DEF O
  <2> QED
    BY Zenon, <1>1, <2>1, FS_RemoveElement
<1>5. IsFiniteSet(Reach(tok, reqs)) /\ c <= Cardinality(R \cup {f})
  <2>1. Reach(tok, reqs) \in SUBSET (R \cup {f})
    BY Zenon DEF R
  <2> QED
    BY Zenon, <1>3, <2>1, FS_Subset
<1>6. IsFiniteSet(Opens(reqs)) /\ d <= Cardinality(O \ {q})
  <2>1. Opens(reqs) \in SUBSET (O \ {q})
    BY Zenon DEF O
  <2> QED
    BY Zenon, <1>4, <2>1, FS_Subset
<1>7. c \in Nat /\ d \in Nat /\ n \in Nat
  BY Zenon, <1>5, <1>6, FS_CardinalityType, AuthAssumption
<1>8. c <= a + 1
  <2> HIDE DEF a, c
  <2>1. c <= a \/ c <= a + 1
    BY Zenon, <1>3, <1>5
  <2> QED
    BY <1>1, <1>7, <2>1
<1> HIDE DEF a, b, c, d, n
<1>9. c + d <= MAX_SESSIONS_PER_USER + n - 1
  BY SMTT(40), <1>1, <1>2, <1>4, <1>6, <1>7, <1>8, AuthAssumption
<1> QED
  BY Zenon, <1>9 DEF CapOK, c, d, n

(* Just after the cap is enforced there is room for one session, and every  *)
(* other is a request in flight.                                            *)
LEMMA CapEnforced ==
  ASSUME NEW tok, TokenRows(tok), NEW reqs,
         Cardinality(LiveFam(tok)) <= MAX_SESSIONS_PER_USER - 1
  PROVE  CapOK(tok, reqs)
<1> DEFINE L == LiveFam(tok)
           T == Turning(tok, reqs)
           Q == {q \in AuthRequests : Rotates(reqs[q])}
           O == Opens(reqs)
           n == Cardinality(AuthRequests)
           pick == [f \in T |-> CHOOSE q \in Q : f = tok[reqs[q].token].family]
<1>1. Q \subseteq AuthRequests /\ O \subseteq AuthRequests /\ Q \cap O = {}
  <2>1. "open" # "rotate"
    OBVIOUS
  <2> QED
    BY Zenon, <2>1 DEF Opens, Rotates
<1>2. IsFiniteSet(L) /\ IsFiniteSet(O)
  BY Zenon, ReachIsFinite
<1>3. IsFiniteSet(Q)
  BY Zenon, <1>1, FS_Subset, AuthAssumption
<1>4. \A f \in T : \E q \in Q : f = tok[reqs[q].token].family
  BY Zenon DEF Turning
<1>5. \A f \in T : pick[f] \in Q /\ f = tok[reqs[pick[f]].token].family
  BY Zenon, <1>4
<1>6. pick \in [T -> Q]
  BY Zenon, <1>5
<1> HIDE DEF pick
<1>7. pick \in Injection(T, Q)
  <2>1. \A f, g \in T : pick[f] = pick[g] => f = g
    BY Zenon, <1>5
  <2> QED
    BY Zenon, <1>6, <2>1 DEF Injection, IsInjective
<1>8. IsFiniteSet(T) /\ Cardinality(T) <= Cardinality(Q)
  BY Zenon, <1>3, <1>7, FS_Injection
<1> HIDE DEF L, T, Q, O
<1>9. /\ IsFiniteSet(L \cup T)
      /\ Cardinality(L \cup T) = Cardinality(L) + Cardinality(T) - Cardinality(L \cap T)
  BY Zenon, <1>2, <1>8, FS_Union
<1>10. /\ IsFiniteSet(Q \cup O)
       /\ Cardinality(Q \cup O) = Cardinality(Q) + Cardinality(O) - Cardinality(Q \cap O)
  BY Zenon, <1>2, <1>3, FS_Union
<1>11. Cardinality(Q \cap O) = 0
  BY Zenon, <1>1, FS_EmptySet
<1>12. Cardinality(Q \cup O) <= n
  <2>1. Q \cup O \in SUBSET AuthRequests
    BY Zenon, <1>1
  <2> QED
    BY Zenon, <2>1, FS_Subset, AuthAssumption
<1>13. Cardinality(L \cap T) \in Nat
  BY Zenon, <1>2, FS_Intersection, FS_CardinalityType
<1>14. /\ Cardinality(L) \in Nat /\ Cardinality(T) \in Nat /\ Cardinality(Q) \in Nat
       /\ Cardinality(O) \in Nat /\ n \in Nat
  BY Zenon, <1>2, <1>3, <1>8, FS_CardinalityType, AuthAssumption
<1>15. Cardinality(L) <= MAX_SESSIONS_PER_USER - 1
  BY Zenon DEF L
<1> HIDE DEF n
<1>16. Cardinality(L \cup T) + Cardinality(O) <= MAX_SESSIONS_PER_USER + n - 1
  BY SMTT(40), <1>8, <1>9, <1>10, <1>11, <1>12, <1>13, <1>14, <1>15, AuthAssumption
<1> QED
  BY Zenon, <1>16 DEF CapOK, Reach, L, T, O, n

(* Every live session is on the list, by its oldest live token.             *)
LEMMA OldestLiveHolds ==
  ASSUME TokenRows(token)
  PROVE  /\ OldestLive \in SUBSET Nat /\ IsFiniteSet(OldestLive) /\ OldestLive \subseteq Live /\ Live \subseteq Issued
         /\ \A u \in Live : \E h \in OldestLive : token[h].family = token[u].family
<1>1. Issued \subseteq Nat /\ IsFiniteSet(Issued)
  <2>1. Issued = 1..Len(token) /\ Len(token) \in Nat /\ Issued \subseteq Nat
    BY Zenon, NextTokenHolds
  <2>2. IsFiniteSet(1..Len(token))
    BY <2>1, FS_Interval
  <2> QED
    BY Zenon, <2>1, <2>2
<1>2. OldestLive \subseteq Live /\ Live \subseteq Issued
  BY Zenon DEF OldestLive, Live
<1>3. IsFiniteSet(OldestLive)
  <2>1. OldestLive \in SUBSET Issued
    BY Zenon, <1>2
  <2> QED
    BY Zenon, <1>1, <2>1, FS_Subset
<1>4. ASSUME NEW u \in Live PROVE \E h \in OldestLive : token[h].family = token[u].family
  <2> DEFINE S == {v \in Live : token[v].family = token[u].family}
  <2>1. S \in SUBSET Nat /\ S # {}
    BY Zenon, <1>1, <1>2
  <2>2. PICK h \in S : \A y \in S : h <= y
    BY Zenon, <2>1, LeastNatural
  <2>3. h \in Live /\ token[h].family = token[u].family
    BY Zenon
  <2>4. \A v \in Live : token[v].family = token[h].family => h <= v
    BY Zenon, <2>2, <2>3
  <2> QED
    BY Zenon, <2>3, <2>4 DEF OldestLive
<1> QED
  BY Zenon, <1>1, <1>2, <1>3, <1>4

(* Once the cap was enforced, one more session fits.                        *)
LEMMA RoomForOne ==
  ASSUME TokenRows(token), NEW D, D = {token[t].family : t \in sessions_to_evict(OldestLive)},
         NEW tok, tok = Revoke({t \in Live : token[t].family \in D})
  PROVE  Cardinality(LiveFam(tok)) <= MAX_SESSIONS_PER_USER - 1
<1> DEFINE H == OldestLive
           K == H \ sessions_to_evict(H)
           ts == {t \in Live : token[t].family \in D}
           I == {token[t].family : t \in K}
<1>1. /\ H \in SUBSET Nat /\ IsFiniteSet(H) /\ H \subseteq Live /\ Live \subseteq Issued
      /\ \A u \in Live : \E h \in H : token[h].family = token[u].family
  BY Zenon, OldestLiveHolds
<1>11. tok = Revoke(ts) /\ \A t \in Live : token[t].family \in D <=> t \in ts
  BY Zenon
<1> HIDE DEF ts
<1>2. /\ DOMAIN tok = Issued
      /\ \A t \in Issued : /\ tok[t].family = token[t].family /\ tok[t].expired = token[t].expired
                           /\ tok[t].revoked_at <=> t \in ts \/ token[t].revoked_at
  BY Zenon, <1>11, RevokeHolds
<1>3. LiveFam(tok) \subseteq I
  <2> SUFFICES ASSUME NEW u \in Issued, ~tok[u].revoked_at, ~tok[u].expired
               PROVE  tok[u].family \in I
    BY ZenonT(40), <1>2 DEF LiveFam
  <2>1. u \in Live /\ token[u].family \notin D
    BY Zenon, <1>2, <1>11 DEF Live
  <2>2. PICK h \in H : token[h].family = token[u].family
    BY Zenon, <1>1, <2>1
  <2>3. h \notin sessions_to_evict(H)
    BY Zenon, <2>1, <2>2
  <2>4. h \in K /\ tok[u].family = token[h].family
    BY Zenon, <1>2, <2>2, <2>3
  <2> HIDE DEF K
  <2> QED
    BY Zenon, <2>4
<1>4. IsFiniteSet(K) /\ Cardinality(K) <= MAX_SESSIONS_PER_USER - 1
  BY Zenon, <1>1, EvictionLeavesRoom
<1> HIDE DEF K
<1>5. IsFiniteSet(I) /\ Cardinality(I) <= Cardinality(K)
  <2> DEFINE fam == [t \in K |-> token[t].family]
  <2>1. fam \in [K -> I] /\ \A g \in I : \E t \in K : fam[t] = g
    BY Zenon
  <2>2. fam \in Surjection(K, I)
    BY Zenon, <2>1 DEF Surjection
  <2> HIDE DEF fam, I
  <2> QED
    BY Zenon, <1>4, <2>2, FS_Surjection
<1> HIDE DEF I
<1>6. IsFiniteSet(LiveFam(tok)) /\ Cardinality(LiveFam(tok)) <= Cardinality(I)
  BY Zenon, <1>3, <1>5, FS_Subset
<1>7. Cardinality(LiveFam(tok)) \in Nat /\ Cardinality(I) \in Nat /\ Cardinality(K) \in Nat
  BY Zenon, <1>4, <1>5, <1>6, FS_CardinalityType
<1> QED
  BY SMTT(40), <1>4, <1>5, <1>6, <1>7, AuthAssumption

(* Every kind of step keeps the bound.                                      *)
LEMMA CapStepKeeps ==
  ASSUME AuthInv, CapOK(token, authReq), AuthInv', CapStep
  PROVE  CapOK(token', authReq')
<1>1. TokenRows(token)
  BY Zenon, AuthFacts
<1>2. TokenRows(token')
  <2>1. TokenRows(token)'
    BY Zenon DEF AuthInv, TokensOK
  <2> QED
    BY Zenon, <2>1 DEF TokenRows, RefreshToken
<1>3. CASE Quiet
  BY Zenon, <1>1, <1>3, CapKept DEF Quiet
<1>4. CASE Opened
  BY Zenon, <1>1, <1>4, CapOpens DEF Opened
<1>5. CASE Capped
  <2>1. Cardinality(LiveFam(token')) <= MAX_SESSIONS_PER_USER - 1
    BY Zenon, <1>1, <1>5, RoomForOne DEF Capped, Doomed
  <2> QED
    BY Zenon, <1>2, <2>1, CapEnforced
<1> QED
  BY Zenon, <1>3, <1>4, <1>5 DEF CapStep

(* A new account has no sessions.                                           *)
LEMMA CapInit ==
  ASSUME AuthInit
  PROVE  CapOK(token, authReq)
<1>1. TokenRows(token)
  BY Zenon, AuthInit_Inv, AuthFacts
<1>2. DOMAIN token = {}
  BY DEF AuthInit
<1>3. LiveFam(token) = {}
  BY Zenon, <1>2 DEF LiveFam
<1>4. Cardinality(LiveFam(token)) = 0
  BY Zenon, <1>3, FS_EmptySet
<1>5. Cardinality(LiveFam(token)) <= MAX_SESSIONS_PER_USER - 1
  BY <1>4, AuthAssumption
<1> QED
  BY Zenon, <1>1, <1>5, CapEnforced

CapHolds == CapOK(token, authReq)

(* The families that are live or being rotated, with the sign-ins past the  *)
(* cap, exceed the cap by the number of requests less one at most           *)
(* (enforce_session_cap runs a transaction before issue_session).           *)
THEOREM CapInvariant == AuthSpec => []CapHolds
<1>1. AuthInit => CapHolds
  BY Zenon, CapInit DEF CapHolds
<1>2. ASSUME AuthInv, CapHolds, [AuthNext]_authVars PROVE CapHolds'
  <2>1. AuthInv' /\ CapStep
    BY Zenon, <1>2, AuthNext_Inv
  <2>2. CapOK(token', authReq')
    BY Zenon, <1>2, <2>1, CapStepKeeps DEF CapHolds
  <2> QED
    BY Zenon, <2>2 DEF CapHolds, CapOK, Reach, LiveFam, Turning, Opens, Rotates
<1> QED
  BY <1>1, <1>2, AuthInvariant, PTL DEF AuthSpec

(* For any number of requests, tokens and batches: a family no rotation     *)
(* overlapped has one usable token at most, and none once it was revoked by *)
(* logging out, by an eviction, a reset, a disabled second factor or a      *)
(* replay.                                                                  *)
THEOREM FamiliesEndWhole == AuthSpec => []FamilyEndsWhole
<1>1. ASSUME AuthInv PROVE FamilyEndsWhole
  <2> SUFFICES ASSUME NEW f \in Issued \ overlapped
               PROVE  Cardinality(Unrevoked(f)) <= 1 /\ (f \in ended => Unrevoked(f) = {})
    BY Zenon DEF FamilyEndsWhole
  <2>1. FamilyOK(token, ended, f)
    BY Zenon, <1>1, AuthFacts DEF TokensOK, Issued
  <2>2. Unrevoked(f) = Unrev(token, f)
    BY Zenon DEF Unrevoked, Unrev, Issued
  <2>3. (\A t, u \in Unrevoked(f) : t = u) /\ (f \in ended => Unrevoked(f) = {})
    BY Zenon, <2>1, <2>2 DEF FamilyOK
  <2>4. CASE Unrevoked(f) = {}
    <3>1. Cardinality(Unrevoked(f)) = 0
      BY Zenon, <2>4, FS_EmptySet
    <3> QED
      BY <2>3, <3>1
  <2>5. CASE Unrevoked(f) # {}
    <3>1. PICK t : t \in Unrevoked(f)
      BY Zenon, <2>5
    <3>2. Unrevoked(f) = {t}
      BY Zenon, <2>3, <3>1
    <3>3. Cardinality(Unrevoked(f)) = 1
      BY Zenon, <3>2, FS_Singleton
    <3> QED
      BY <2>3, <3>3
  <2> QED
    BY Zenon, <2>4, <2>5
<1> QED
  BY <1>1, AuthInvariant, PTL

(* For any cap and any number of requests in flight: the live sessions      *)
(* exceed MAX_SESSIONS_PER_USER by the number of requests less one at most, *)
(* a ticket opens one session, and a recovery code is accepted once unless  *)
(* an outdated list was written.                                            *)
THEOREM SessionsBounded == AuthSpec => []SessionsAreBounded
<1>1. ASSUME AuthInv, CapHolds PROVE CapOverrunIsBounded
  <2> DEFINE R == Reach(token, authReq)
             O == Opens(authReq)
             a == Cardinality(LiveFamilies)
             b == Cardinality(R)
             c == Cardinality(O)
             n == Cardinality(AuthRequests)
  <2>1. TokenRows(token) /\ b + c <= MAX_SESSIONS_PER_USER + n - 1
    BY Zenon, <1>1, AuthFacts DEF CapHolds, CapOK
  <2>2. IsFiniteSet(R) /\ b \in Nat /\ c \in Nat
    BY Zenon, <2>1, ReachIsFinite
  <2>3. LiveFamilies \subseteq R
    BY Zenon DEF LiveFamilies, Live, Reach, LiveFam, Issued
  <2> HIDE DEF R, O
  <2>4. IsFiniteSet(LiveFamilies) /\ a <= b
    BY Zenon, <2>2, <2>3, FS_Subset
  <2>5. a \in Nat /\ n \in Nat
    BY Zenon, <2>4, FS_CardinalityType, AuthAssumption
  <2> HIDE DEF a, b, c, n
  <2>6. a <= MAX_SESSIONS_PER_USER + n - 1
    BY SMTT(40), <2>1, <2>2, <2>4, <2>5, AuthAssumption
  <2> QED
    BY Zenon, <2>6 DEF CapOverrunIsBounded, a, n
<1>2. ASSUME AuthInv PROVE OneSessionEach
  <2>1. bought \in [Tickets -> {0, 1}]
    BY Zenon, <1>2, AuthFacts DEF TicketsOK
  <2>2. \A c \in Tickets : bought[c] <= 1
    BY <2>1
  <2>3. spent \in [RecoveryCodes -> 0..2] /\ (~codeTaint => \A r \in RecoveryCodes : spent[r] # 2)
    BY Zenon, <1>2, AuthFacts DEF CodesOK
  <2>4. ~codeTaint => \A r \in RecoveryCodes : spent[r] <= 1
    BY <2>3
  <2> QED
    BY Zenon, <2>2, <2>4 DEF OneSessionEach
<1>3. AuthInv /\ CapHolds => SessionsAreBounded
  BY Zenon, <1>1, <1>2 DEF SessionsAreBounded
<1> QED
  BY <1>3, AuthInvariant, CapInvariant, PTL
=============================================================================
