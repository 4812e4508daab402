------------------------------- MODULE Sessions -------------------------------
(***************************************************************************)
(* Logging in and staying logged in: access tokens that carry a copy of    *)
(* the user's permissions, refresh tokens that are replaced on every use,  *)
(* and the families they form, the second factor, and the permission each  *)
(* administrative endpoint asks for.                                       *)
(*                                                                         *)
(* A refresh reads its row, writes revoked when the session flushes (the   *)
(* next SELECT), from then on holds the lock of the row, and commits with  *)
(* the new row inserted.  Between the read and the flush another request   *)
(* may have used, closed or logged out the same token: nothing looks       *)
(* again.  An UPDATE of a whole family revokes the rows that were          *)
(* committed when the statement began.                                     *)
(***************************************************************************)
EXTENDS Integers, FiniteSets

CONSTANTS
    Users,
    MaxTokens,      \* bound on the refresh tokens of a behaviour
    MaxFamilies,    \* bound on the families they form
    Requests,       \* requests served at the same time
    Grants,         \* the sets of permission codes that roles can give a user
    Secrets,        \* TOTP secrets
    None,
    MaxChanges      \* bound on the changes to accounts and grants

\* Rows of user_refresh_tokens in the order they are inserted; a family is
\* named by its first row.
Tokens == 1..MaxTokens

VARIABLES
    account,    \* account[u]: the columns of the users row that logging in reads
    grant,      \* grant[u]: the permissions of the user's roles, deleted roles included
    row,        \* row[t]: the refresh token row
    access,     \* the access tokens that have not expired: [user, claims]
    challenges, \* the users with an MFA challenge that has not expired
    req,        \* req[q]: an open refresh or login
    changes,    \* the changes to accounts and grants so far
    doubled,    \* history: families with a token that was used twice at a time
    closed,     \* history: families closed because a used token came back
    late,       \* history: those closed while one of their tokens was being rotated
    empowered   \* history: users who were once granted more than reading

accounts == <<account, grant, changes, empowered>>
history == <<doubled, closed, late>>
vars == <<accounts, row, access, challenges, req, history>>

Idle == [step |-> "idle", token |-> None, user |-> None, claims |-> {}, sight |-> {}]

NoRow == [state |-> "absent", family |-> None, user |-> None]

Absent == [life |-> "absent", active |-> FALSE, mfa |-> FALSE, secret |-> None]
Active == [life |-> "live", active |-> TRUE, mfa |-> FALSE, secret |-> None]

\* A user in use, with any progress of the second factor.
InUse(a) == a.life = "live" /\ a.active /\ (a.mfa => a.secret # None)

Account == [life : {"absent", "live", "deleted"}, active : BOOLEAN, mfa : BOOLEAN,
            secret : Secrets \cup {None}]

----------------------------------------------------------------------------
(* The permission each endpoint asks for *)

UserCodes ==
    [list_users |-> "users.read", get_user |-> "users.read", create_user |-> "users.create",
     update_user |-> "users.update", delete_user |-> "users.delete",
     bulk_delete |-> "users.delete", bulk_activate |-> "users.update",
     bulk_deactivate |-> "users.update", import_users |-> "users.import",
     export_users |-> "users.export"]

RoleCodes ==
    [list_roles |-> "roles.read", list_active_roles |-> "roles.read", get_role |-> "roles.read",
     create_role |-> "roles.create", update_role |-> "roles.update",
     delete_role |-> "roles.delete", list_permissions |-> "roles.read",
     list_role_permissions |-> "roles.read", update_role_permissions |-> "roles.update",
     list_role_users |-> "roles.read", assign_user_roles |-> "roles.assign",
     unassign_user_role |-> "roles.assign"]

DepartmentCodes_Copied ==
    [list_departments |-> "users.read", list_active_departments |-> "users.read",
     create_department |-> "users.update", update_department |-> "users.update",
     delete_department |-> "users.read"]

DepartmentCodes ==
    [list_departments |-> "users.read", list_active_departments |-> "users.read",
     create_department |-> "users.update", update_department |-> "users.update",
     delete_department |-> "users.delete"]

DesignationCodes ==
    [list_designations |-> "users.read", list_active_designations |-> "users.read",
     create_designation |-> "users.update", update_designation |-> "users.update",
     delete_designation |-> "users.delete"]

Operations ==
    DOMAIN UserCodes \cup DOMAIN RoleCodes \cup DOMAIN DepartmentCodes \cup DOMAIN DesignationCodes

Code(op) ==
    CASE op \in DOMAIN UserCodes -> UserCodes[op]
      [] op \in DOMAIN RoleCodes -> RoleCodes[op]
      [] op \in DOMAIN DepartmentCodes -> DepartmentCodes[op]
      [] op \in DOMAIN DesignationCodes -> DesignationCodes[op]

\* The GET endpoints, and the codes that only they ask for.
Reads ==
    {"list_users", "get_user", "export_users", "list_roles", "list_active_roles", "get_role",
     "list_permissions", "list_role_permissions", "list_role_users", "list_departments",
     "list_active_departments", "list_designations", "list_active_designations"}

ReadCodes == {"users.read", "users.export", "roles.read"}

AllCodes == ReadCodes \cup
    {"users.create", "users.update", "users.delete", "users.import",
     "roles.create", "roles.update", "roles.delete", "roles.assign"}

Powerful(G) == ~ G \subseteq ReadCodes

ASSUME SessionsAssumption ==
    /\ Grants \subseteq SUBSET AllCodes
    /\ None \notin Users \cup Tokens \cup Secrets
    /\ MaxTokens \in Nat /\ MaxFamilies \in Nat /\ MaxChanges \in Nat

\* Users come from the seed or the users module, or have yet to register.
Init ==
    /\ account \in [Users -> {a \in Account : a = Absent \/ InUse(a)}]
    /\ grant \in [Users -> Grants]
    /\ row = [t \in Tokens |-> NoRow]
    /\ access = {} /\ challenges = {}
    /\ req = [q \in Requests |-> Idle]
    /\ changes = 0
    /\ doubled = {} /\ closed = {} /\ late = {}
    /\ empowered = {u \in Users : Powerful(grant[u])}

----------------------------------------------------------------------------
(* Refresh tokens *)

Family(f) == {t \in Tokens : row[t].state # "absent" /\ row[t].family = f}

LiveTokens(f) == {t \in Family(f) : row[t].state = "live"}

\* An open transaction that has revoked the row holds its lock.
RowFree(t) == \A p \in Requests : ~(req[p].step = "issuing" /\ req[p].token = t)

\* A refresh in progress that will put a new token into the family.
Rotating(q, f) ==
    /\ req[q].step \in {"rotating", "issuing"} /\ req[q].token # None
    /\ row[req[q].token].family = f

Begin(q, step, t, u) ==
    /\ req[q] = Idle
    /\ req' = [req EXCEPT ![q] = [Idle EXCEPT !.step = step, !.token = t, !.user = u]]

MayRotate_Any(t) == row[t].state \in {"live", "revoked"}

\* Missing, expired and forged tokens are refused; a revoked one is not rotated.
MayRotate(t) == row[t].state = "live"

RefreshRead(q, t) ==
    /\ MayRotate(t)
    /\ Begin(q, "rotating", t, row[t].user)
    /\ UNCHANGED <<accounts, row, access, challenges, history>>

\* The row is revoked in this transaction, seen by others when it commits; the
\* new access token gets the permissions that the user has by now.
RefreshFlush(q) ==
    /\ req[q].step = "rotating"
    /\ RowFree(req[q].token)
    /\ req' = [req EXCEPT ![q].step = "issuing", ![q].claims = grant[req[q].user]]
    /\ doubled' = IF row[req[q].token].state = "live" THEN doubled
                  ELSE doubled \cup {row[req[q].token].family}
    /\ UNCHANGED <<accounts, row, access, challenges, closed, late>>

Spent_Kept(t) == row[t]

Spent(t) == [row[t] EXCEPT !.state = IF @ = "live" THEN "revoked" ELSE @]

\* _issue_token_pair: the new row joins the family of the old one, or starts one.
IssueCommit(q, new) ==
    LET t == req[q].token
        f == IF t = None THEN new ELSE row[t].family
    IN  /\ req[q].step = "issuing"
        /\ row[new].state = "absent" /\ \A s \in 1..(new - 1) : row[s].state # "absent"
        /\ row' = [s \in Tokens |->
                    IF s = new THEN [state |-> "live", family |-> f, user |-> req[q].user]
                    ELSE IF s = t THEN Spent(t) ELSE row[s]]
        /\ access' = access \cup {[user |-> req[q].user, claims |-> req[q].claims]}
        /\ req' = [req EXCEPT ![q] = Idle]
        /\ UNCHANGED <<accounts, challenges, history>>

\* A token that was used before comes back.
ReuseFound(q, t) ==
    /\ row[t].state = "revoked"
    /\ req[q] = Idle
    /\ req' = [req EXCEPT ![q] = [Idle EXCEPT !.step = "closing", !.token = t,
                                              !.sight = Family(row[t].family)]]
    /\ UNCHANGED <<accounts, row, access, challenges, history>>

Doomed_RowOnly(q) == {req[q].token}

\* The rows the UPDATE revokes.
Doomed(q) == req[q].sight

\* The UPDATE waits for the rows that rotations have locked.
CloseFamily(q) ==
    LET f == row[req[q].token].family
    IN  /\ req[q].step = "closing"
        /\ \A t \in Doomed(q) : RowFree(t)
        /\ row' = [t \in Tokens |-> IF t \in Doomed(q) THEN Spent(t) ELSE row[t]]
        /\ req' = [req EXCEPT ![q] = Idle]
        /\ closed' = closed \cup {f}
        /\ late' = IF Family(f) # req[q].sight \/ \E p \in Requests : Rotating(p, f)
                   THEN late \cup {f} ELSE late
        /\ UNCHANGED <<accounts, access, challenges, doubled>>

\* Logging out asks for the id of a row only, whatever its state.
Logout(t) ==
    /\ row[t].state # "absent" /\ RowFree(t)
    /\ row' = [row EXCEPT ![t] = Spent(t)]
    /\ UNCHANGED <<accounts, access, challenges, req, history>>

\* The API dies, or the database refuses: the transaction is rolled back.
RequestDies(q) ==
    /\ req[q] # Idle
    /\ req' = [req EXCEPT ![q] = Idle]
    /\ UNCHANGED <<accounts, row, access, challenges, history>>

----------------------------------------------------------------------------
(* Registering, logging in and the second factor *)

\* The first user of an organization holds every permission of the catalog.
Register(u) ==
    /\ account[u].life = "absent"
    /\ AllCodes \in Grants
    /\ account' = [account EXCEPT ![u] = Active]
    /\ grant' = [grant EXCEPT ![u] = AllCodes]
    /\ empowered' = empowered \cup {u}
    /\ UNCHANGED <<row, access, challenges, req, changes, history>>

MayLogIn(u) == account[u].life = "live" /\ account[u].active

StartSession(q, u) ==
    /\ req[q] = Idle
    /\ Cardinality({t \in Tokens : row[t].family = t})
        + Cardinality({p \in Requests : req[p].step = "issuing" /\ req[p].token = None}) < MaxFamilies
    /\ req' = [req EXCEPT ![q] = [Idle EXCEPT !.step = "issuing", !.user = u, !.claims = grant[u]]]

Login(q, u) ==
    /\ MayLogIn(u) /\ ~account[u].mfa
    /\ StartSession(q, u)
    /\ UNCHANGED <<accounts, row, access, challenges, history>>

LoginChallenged(u) ==
    /\ MayLogIn(u) /\ account[u].mfa
    /\ challenges' = challenges \cup {u}
    /\ UNCHANGED <<accounts, row, access, req, history>>

\* The status of the user is not looked at again.
VerifyMfa(q, u) ==
    /\ u \in challenges /\ account[u].secret # None
    /\ StartSession(q, u)
    /\ UNCHANGED <<accounts, row, access, challenges, history>>

EnrollMfa(u, s) ==
    /\ changes < MaxChanges /\ changes' = changes + 1
    /\ \E a \in access : a.user = u
    /\ account' = [account EXCEPT ![u].secret = s]
    /\ UNCHANGED <<grant, empowered, row, access, challenges, req, history>>

ConfirmMfa(u) ==
    /\ changes < MaxChanges /\ changes' = changes + 1
    /\ \E a \in access : a.user = u
    /\ account[u].secret # None
    /\ account' = [account EXCEPT ![u].mfa = TRUE]
    /\ UNCHANGED <<grant, empowered, row, access, challenges, req, history>>

----------------------------------------------------------------------------
(* The clock, the administrators, and what an access token opens *)

AccessExpires(a) ==
    /\ a \in access
    /\ access' = access \ {a}
    /\ UNCHANGED <<accounts, row, challenges, req, history>>

RefreshExpires(t) ==
    /\ row[t].state \in {"live", "revoked"}
    /\ row' = [row EXCEPT ![t].state = "expired"]
    /\ UNCHANGED <<accounts, access, challenges, req, history>>

ChallengeExpires(u) ==
    /\ u \in challenges
    /\ challenges' = challenges \ {u}
    /\ UNCHANGED <<accounts, row, access, req, history>>

\* The roles of the user, or their permissions, change.
ChangeGrant(u, G) ==
    /\ changes < MaxChanges /\ changes' = changes + 1
    /\ grant[u] # G
    /\ grant' = [grant EXCEPT ![u] = G]
    /\ empowered' = IF Powerful(G) THEN empowered \cup {u} ELSE empowered
    /\ UNCHANGED <<account, row, access, challenges, req, history>>

\* The user is disabled, enabled or deleted.
ChangeUser(u, life, on) ==
    /\ changes < MaxChanges /\ changes' = changes + 1
    /\ account[u].life = "live" /\ <<life, on>> # <<"live", account[u].active>>
    /\ account' = [account EXCEPT ![u].life = life, ![u].active = on]
    /\ UNCHANGED <<grant, empowered, row, access, challenges, req, history>>

\* require_permission asks the token, not the tables.
MayServe(a, op) == Code(op) \in a.claims

----------------------------------------------------------------------------

Next ==
    \/ \E q \in Requests :
        \/ \E t \in Tokens : RefreshRead(q, t) \/ IssueCommit(q, t) \/ ReuseFound(q, t)
        \/ RefreshFlush(q) \/ CloseFamily(q) \/ RequestDies(q)
        \/ \E u \in Users : Login(q, u) \/ VerifyMfa(q, u)
    \/ \E u \in Users :
        \/ Register(u) \/ LoginChallenged(u) \/ ConfirmMfa(u) \/ ChallengeExpires(u)
        \/ \E s \in Secrets : EnrollMfa(u, s)
        \/ \E G \in Grants : ChangeGrant(u, G)
        \/ \E life \in {"live", "deleted"}, on \in BOOLEAN : ChangeUser(u, life, on)
    \/ \E t \in Tokens : Logout(t) \/ RefreshExpires(t)
    \/ \E a \in access : AccessExpires(a)

Spec == Init /\ [][Next]_vars

----------------------------------------------------------------------------
(* Properties *)

RequestType ==
    [step : {"idle", "rotating", "issuing", "closing"}, token : Tokens \cup {None},
     user : Users \cup {None}, claims : Grants \cup {{}}, sight : SUBSET Tokens]

TypeOK ==
    /\ account \in [Users -> Account]
    /\ grant \in [Users -> Grants]
    /\ row \in [Tokens -> [state : {"absent", "live", "revoked", "expired"},
                           family : Tokens \cup {None}, user : Users \cup {None}]]
    /\ access \subseteq [user : Users, claims : Grants]
    /\ challenges \subseteq Users
    /\ req \in [Requests -> RequestType]
    /\ changes \in 0..MaxChanges
    /\ doubled \subseteq Tokens /\ closed \subseteq Tokens /\ late \subseteq Tokens
    /\ empowered \subseteq Users

\* A session has one refresh token to go on with, unless two requests used one
\* token at a time: both find it unrevoked and both rotate it
\* (authentication/service.py:178-192).
OneLiveToken ==
    \A f \in Tokens \ doubled : Cardinality(LiveTokens(f)) <= 1

\* "the entire family is revoked and the caller must re-authenticate"
\* (authentication/service.py:158-161): true of every family that was not being
\* rotated while it was closed.
ReuseClosesFamily ==
    \A f \in closed \ late : LiveTokens(f) = {}

\* A session that has no live token left, logged out, closed or expired, never
\* gets one again, nor starts to, unless a rotation was under way by then
\* (authentication/service.py:178-193, :196-207).
DeadFamilyStaysDead ==
    [][\A f \in Tokens :
        (Family(f) # {} /\ LiveTokens(f) = {} /\ \A q \in Requests : ~Rotating(q, f))
            => LiveTokens(f)' = {} /\ \A q \in Requests : ~Rotating(q, f)']_vars

\* Whoever was never granted more than reading changes nothing, through any
\* endpoint, with any token, however old (core/security.py:90-102 and the
\* routers of users, roles, departments and designations).
ReadersNeverWrite ==
    \A a \in access, op \in Operations \ Reads : MayServe(a, op) => a.user \in empowered
=============================================================================
