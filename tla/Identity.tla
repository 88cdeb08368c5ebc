------------------------------ MODULE Identity ------------------------------
(***************************************************************************)
(* Who belongs to which organisation: sign-up and the confirmation of its  *)
(* address, password reset links, invitations and the provisioning of a    *)
(* workspace (application/auth/registration.py, invitations.py,            *)
(* application/tenants/provisioning.py).  A request loads what it checks   *)
(* without locks; its inserts and updates are one commit that the unique   *)
(* indexes may refuse as a whole.                                          *)
(***************************************************************************)
EXTENDS Naturals

CONSTANTS
  Orgs,        \* organisations that may come to exist
  Workspace,   \* the organisation the operator provisions
  Emails,
  Staff,       \* the people of the workspace's specification
  Invitations,
  Links,       \* reset links
  OrgRequests, \* requests in flight at a time
  NoOrg

ASSUME OrgAssumption == NoOrg \notin Invitations

Roles == {"owner", "member"}

VARIABLES
  orgs,        \* tenants rows
  roleRows,    \* roles rows, with their permissions
  user,        \* users and user_roles, by organisation and address
  team,        \* team memberships
  invitation,
  link,        \* password_resets
  orgReq

orgVars == <<orgs, roleRows, user, team, invitation, link, orgReq>>

Members == Orgs \X Emails

User0 == [status : {"none", "invited", "active"}, role : Roles, by : Invitations \cup {NoOrg}]

Invitation == [who : Members, role : Roles, accepted_at : BOOLEAN, revoked_at : BOOLEAN, expired : BOOLEAN]

PasswordReset == [who : Members, used_at : BOOLEAN]

OrgTypeOK ==
  /\ orgs \subseteq Orgs
  /\ roleRows \subseteq Orgs \X Roles
  /\ user \in [Members -> User0]
  /\ team \subseteq Members
  /\ \A i \in DOMAIN invitation : i \in Invitations /\ invitation[i] \in Invitation
  /\ \A k \in DOMAIN link : k \in Links /\ link[k] \in PasswordReset

OrgInit ==
  /\ orgs = {} /\ roleRows = {} /\ team = {}
  /\ user = [m \in Members |-> [status |-> "none", role |-> "member", by |-> NoOrg]]
  /\ invitation = << >>
  /\ link = << >>
  /\ orgReq = [q \in OrgRequests |-> NoOrg]

-----------------------------------------------------------------------------
Present(m) == user[m].status # "none"

HasAccount(e) == \E o \in Orgs : Present(<<o, e>>)

Continue(q, r) == orgReq' = [orgReq EXCEPT ![q] = r]

Doing(q, op) == orgReq[q] # NoOrg /\ orgReq[q].op = op

(* signup: the address is looked up across organisations first.             *)
CheckSignup(q, e) ==
  /\ orgReq[q] = NoOrg
  /\ ~HasAccount(e)
  /\ Continue(q, [op |-> "tenant", email |-> e])
  /\ UNCHANGED <<orgs, roleRows, user, team, invitation, link>>

(* The organisation is a transaction of its own, under a free slug; a crash *)
(* after it leaves an organisation nobody belongs to.                       *)
InsertTenant(q, o) ==
  /\ Doing(q, "tenant")
  /\ o \notin orgs \cup {Workspace}
  /\ orgs' = orgs \cup {o}
  /\ Continue(q, [op |-> "owner", who |-> <<o, orgReq[q].email>>])
  /\ UNCHANGED <<roleRows, user, team, invitation, link>>

signup(q) ==
  /\ Doing(q, "owner")
  /\ LET m == orgReq[q].who IN
       /\ roleRows' = roleRows \cup {<<m[1], "owner">>}
       /\ user' = [user EXCEPT ![m] = [@ EXCEPT !.status = "invited", !.role = "owner"]]
  /\ Continue(q, NoOrg)
  /\ UNCHANGED <<orgs, team, invitation, link>>

SignupDies(q) ==
  /\ orgReq[q] # NoOrg
  /\ Continue(q, NoOrg)
  /\ UNCHANGED <<orgs, roleRows, user, team, invitation, link>>

(* verify_email: the one link of the sign-up; a second use finds it used.   *)
verify_email(m) ==
  /\ user[m].status = "invited"
  /\ user' = [user EXCEPT ![m].status = "active"]
  /\ UNCHANGED <<orgs, roleRows, team, invitation, link, orgReq>>

(* forgot_password adds a link; earlier ones stay good.                     *)
forgot_password(m, k) ==
  /\ Present(m)
  /\ k \notin DOMAIN link
  /\ link' = [j \in DOMAIN link \cup {k} |-> IF j = k THEN [who |-> m, used_at |-> FALSE] ELSE link[j]]
  /\ UNCHANGED <<orgs, roleRows, user, team, invitation, orgReq>>

LoadReset(q, k) ==
  /\ orgReq[q] = NoOrg
  /\ ~link[k].used_at
  /\ Continue(q, [op |-> "reset", link |-> k])
  /\ UNCHANGED <<orgs, roleRows, user, team, invitation, link>>

reset_password_link(q) ==
  /\ Doing(q, "reset")
  /\ LET k == orgReq[q].link IN
       /\ link' = [link EXCEPT ![k].used_at = TRUE]
       /\ user' = [user EXCEPT ![link[k].who].status = "active"]
  /\ Continue(q, NoOrg)
  /\ UNCHANGED <<orgs, roleRows, team, invitation>>

-----------------------------------------------------------------------------
ASSIGNABLE_ROLES == [owner |-> Roles, member |-> {}]

assignable_roles(actor) == ASSIGNABLE_ROLES[user[actor].role]

Pending(i) == ~invitation[i].accepted_at /\ ~invitation[i].revoked_at

(* _status = "pending".                                                     *)
Redeemable(i) == Pending(i) /\ ~invitation[i].expired

Unsettled(m) == {i \in DOMAIN invitation : invitation[i].who = m /\ Pending(i)}

(* invite_user: loads that no such member and no good invitation exist.     *)
LoadInvite(q, actor, e, role) ==
  /\ orgReq[q] = NoOrg
  /\ user[actor].status = "active"
  /\ role \in assignable_roles(actor)
  /\ LET m == <<actor[1], e>> IN
       /\ ~Present(m)
       /\ \A i \in Unsettled(m) : ~Redeemable(i)
       /\ Continue(q, [op |-> "invite", who |-> m, role |-> role, old |-> Unsettled(m)])
  /\ UNCHANGED <<orgs, roleRows, user, team, invitation, link>>

(* uq_invitations_tenant_email_pending.                                     *)
tenant_email_pending_None(m, old) == TRUE

tenant_email_pending(m, old) == Unsettled(m) \subseteq old

(* The commit: expired ones are retired, the role row is made on first use  *)
(* (_role_row) and the invitation inserted, or nothing is.                  *)
invite_user(q, i) ==
  /\ Doing(q, "invite")
  /\ i \notin DOMAIN invitation
  /\ LET r == orgReq[q] IN
     \/ /\ tenant_email_pending(r.who, r.old)
        /\ invitation' =
             [j \in DOMAIN invitation \cup {i} |->
                IF j = i THEN [who |-> r.who, role |-> r.role, accepted_at |-> FALSE,
                               revoked_at |-> FALSE, expired |-> FALSE]
                ELSE IF j \in r.old THEN [invitation[j] EXCEPT !.revoked_at = TRUE]
                ELSE invitation[j]]
        /\ roleRows' = roleRows \cup {<<r.who[1], r.role>>}
     \/ ~tenant_email_pending(r.who, r.old) /\ UNCHANGED <<invitation, roleRows>>
  /\ Continue(q, NoOrg)
  /\ UNCHANGED <<orgs, user, team, link>>

InvitationExpires(i) ==
  /\ ~invitation[i].expired
  /\ invitation' = [invitation EXCEPT ![i].expired = TRUE]
  /\ UNCHANGED <<orgs, roleRows, user, team, link, orgReq>>

(* revoke_invitation: an accepted one is refused.                           *)
LoadRevocation(q, i) ==
  /\ orgReq[q] = NoOrg
  /\ Pending(i)
  /\ Continue(q, [op |-> "revoke", invitation |-> i])
  /\ UNCHANGED <<orgs, roleRows, user, team, invitation, link>>

revoke_invitation(q) ==
  /\ Doing(q, "revoke")
  /\ invitation' = [invitation EXCEPT ![orgReq[q].invitation].revoked_at = TRUE]
  /\ Continue(q, NoOrg)
  /\ UNCHANGED <<orgs, roleRows, user, team, link>>

LoadAcceptance(q, i) ==
  /\ orgReq[q] = NoOrg
  /\ Redeemable(i)
  /\ ~Present(invitation[i].who)
  /\ Continue(q, [op |-> "accept", invitation |-> i])
  /\ UNCHANGED <<orgs, roleRows, user, team, invitation, link>>

(* uq_users_tenant_email_active.                                            *)
tenant_email_active_None(m) == TRUE

tenant_email_active(m) == ~Present(m)

(* accept_invitation: user, role and settlement in one commit, or none.     *)
accept_invitation(q) ==
  /\ Doing(q, "accept")
  /\ LET i == orgReq[q].invitation
         m == invitation[i].who IN
     \/ /\ tenant_email_active(m)
        /\ user' = [user EXCEPT ![m] = [status |-> "active", role |-> invitation[i].role, by |-> i]]
        /\ invitation' = [invitation EXCEPT ![i].accepted_at = TRUE]
     \/ ~tenant_email_active(m) /\ UNCHANGED <<user, invitation>>
  /\ Continue(q, NoOrg)
  /\ UNCHANGED <<orgs, roleRows, team, link>>

-----------------------------------------------------------------------------
StaffRole(e) == IF e = CHOOSE x \in Staff : TRUE THEN "owner" ELSE "member"

(* provision_workspace, one transaction: what is missing is added (the      *)
(* tenant, each person's role and account, the branch, the team and its     *)
(* memberships), what is there is kept.                                     *)
ensure_tenant == orgs \cup {Workspace}

ensure_role(e) == <<Workspace, StaffRole(e)>>

ensure_people ==
  [m \in Members |->
     IF m[1] = Workspace /\ m[2] \in Staff /\ ~Present(m)
       THEN [status |-> "active", role |-> StaffRole(m[2]), by |-> NoOrg]
       ELSE user[m]]

ensure_branch_and_team == team \cup ({Workspace} \X Staff)

provision_workspace ==
  /\ orgs' = ensure_tenant
  /\ roleRows' = roleRows \cup {ensure_role(e) : e \in Staff}
  /\ user' = ensure_people
  /\ team' = ensure_branch_and_team
  /\ UNCHANGED <<invitation, link, orgReq>>

AccountRoutes(q) ==
  \/ \E e \in Emails : CheckSignup(q, e)
  \/ \E o \in Orgs : InsertTenant(q, o)
  \/ signup(q) \/ SignupDies(q) \/ reset_password_link(q)
  \/ \E k \in DOMAIN link : LoadReset(q, k)
  \/ \E m \in Members : verify_email(m) \/ \E k \in Links : forgot_password(m, k)

InvitationRoutes(q) ==
  \/ \E actor \in Members, e \in Emails, role \in Roles : LoadInvite(q, actor, e, role)
  \/ \E i \in Invitations : invite_user(q, i)
  \/ revoke_invitation(q) \/ accept_invitation(q)
  \/ \E i \in DOMAIN invitation :
       LoadRevocation(q, i) \/ LoadAcceptance(q, i) \/ InvitationExpires(i)

OrgNext == provision_workspace \/ \E q \in OrgRequests : AccountRoutes(q) \/ InvitationRoutes(q)

OrgSpec == OrgInit /\ [][OrgNext]_orgVars

-----------------------------------------------------------------------------
(* However invitations, acceptances and revocations race: an address has    *)
(* one unsettled invitation at most, an invitation that was accepted made   *)
(* exactly the member it names, with its role, and every role held has its  *)
(* row (accept_invitation's docstring and the two partial unique indexes).  *)
InvitationsAreKept ==
  /\ \A m \in Members : \A i, j \in Unsettled(m) : i = j
  /\ \A i \in DOMAIN invitation :
       invitation[i].accepted_at <=> user[invitation[i].who].by = i
  /\ \A i \in DOMAIN invitation :
       invitation[i].accepted_at => user[invitation[i].who].role = invitation[i].role
  /\ \A m \in Members : Present(m) => m[1] \in orgs /\ <<m[1], user[m].role>> \in roleRows
=============================================================================
