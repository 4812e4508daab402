------------------------------ MODULE Directory ------------------------------
(***************************************************************************)
(* The administration of one organization: its users, roles, departments   *)
(* and designations, which roles a user holds and which permissions a role *)
(* carries.  Administrators work at the same time, each request in a       *)
(* READ COMMITTED transaction of its own.                                  *)
(*                                                                         *)
(* Every handler reads and validates first, then writes what it decided    *)
(* and an audit entry, and commits.  The reads are the handler's Check     *)
(* action, which also fixes what it will write; Commit carries that out.   *)
(* A handler that replaces the roles of a user or the permissions of a     *)
(* role deletes the rows its DELETE can see, looks up the new ones and     *)
(* inserts those: the rows it has seen are fixed with the reads, the       *)
(* lookup happens at the end.                                              *)
(*                                                                         *)
(* No unique index is left on these tables (migration db5b184a8231 drops   *)
(* them), so nothing but the handlers' own checks keeps names apart.  The  *)
(* login name stands for the e-mail and the user name, which are checked   *)
(* one after the other in the same way.                                    *)
(***************************************************************************)
EXTENDS Integers, FiniteSets

CONSTANTS
    Users, Roles, Departments, Designations,    \* the rows of the four tables
    Permissions,                                \* the rows of the permission catalog
    Names,          \* names and login names, up to upper and lower case
    None,           \* NULL, and a field that a payload leaves out
    SystemRoles,    \* the roles seeded with is_system_role
    Seed,           \* the seeded rows: Seed[v] = [name, home, post]
    SeedLinks,      \* the seeded user_roles and role_permissions
    Payloads,       \* the request bodies
    Batches,        \* the sets of users of bulk requests
    Requests,       \* requests served at the same time
    MaxOpened       \* bound on the requests of a behaviour

Rows == Users \cup Roles \cup Departments \cup Designations

Pairs == (Users \X Roles) \cup (Roles \X Permissions)

\* What a payload can name: roles by name, roles and permissions by id.
Items == Names \cup Roles \cup Permissions

\* No roles or permissions in the payload, which is not the same as an empty list.
Omitted == {None}

Payload == [name : Names \cup {None}, active : BOOLEAN \cup {None},
            home : Departments \cup {None}, post : Designations \cup {None},
            items : (SUBSET Items) \cup {Omitted}]

\* The columns of a row that a request writes.
Fields == [life : {"live", "deleted", None}, name : Names \cup {None},
           active : BOOLEAN \cup {None}, home : Departments \cup {None},
           post : Designations \cup {None}]

ASSUME DirectoryAssumption ==
    /\ MaxOpened \in Nat
    /\ Payloads \subseteq Payload /\ Batches \subseteq SUBSET Users
    /\ SystemRoles \subseteq Roles
    /\ DOMAIN Seed \subseteq Rows /\ SystemRoles \subseteq DOMAIN Seed
    /\ \A v \in DOMAIN Seed :
        Seed[v] \in [name : Names, home : Departments \cup {None}, post : Designations \cup {None}]
    /\ SeedLinks \subseteq Pairs
    /\ None \notin Names \cup Rows /\ None \notin BOOLEAN
    /\ None \notin {"live", "deleted"} /\ None \notin Items

\* The tables are apart, and so are names, ids and permissions.
ASSUME TablesAssumption ==
    /\ Users \cap Roles = {} /\ (Users \cup Roles) \cap (Departments \cup Designations) = {}
    /\ Departments \cap Designations = {}
    /\ Names \cap (Rows \cup Permissions) = {} /\ Rows \cap Permissions = {}

SameTable(v, w) ==
    \E table \in {Users, Roles, Departments, Designations} : {v, w} \subseteq table

\* Seeded rows of a table have names of their own, designations within their
\* department; a seeded user is placed in one department; seeded links are
\* between seeded rows.
ASSUME SeedAssumption ==
    /\ \A v, w \in DOMAIN Seed : (v # w /\ SameTable(v, w) /\ Seed[v].name = Seed[w].name) =>
        v \in Designations /\ Seed[v].home # Seed[w].home
    /\ \A v \in DOMAIN Seed : Seed[v].post # None =>
        Seed[v].post \in DOMAIN Seed /\ Seed[Seed[v].post].home = Seed[v].home
    /\ \A e \in SeedLinks : e[1] \in DOMAIN Seed /\ (e[2] \in Roles => e[2] \in DOMAIN Seed)

VARIABLES
    life,       \* life[v]: "absent", "live", or "deleted" (deleted_at is set)
    name,       \* name[v]: users.email, roles.name, departments.name, ...
    active,     \* active[v]: the status column is "active"
    home,       \* home[v]: the department of a user or a designation
    post,       \* post[v]: the designation of a user
    links,      \* the user_roles and role_permissions rows
    log,        \* the rows for which there is an audit entry that says "delete"
    req,        \* req[q]: what an open request has read and means to write
    opened,     \* requests so far
    saw,        \* history: the live rows whose names the last naming of v was checked against
    crossed,    \* history: rows written while another request held them open
    moved,      \* history: designations that changed department
    renamed,    \* history: open requests that name a role whose name was changed since
    want        \* history: the links the last request asked for

tables == <<life, name, active, home, post, links, log>>
history == <<saw, crossed, moved, renamed, want>>
vars == <<tables, req, opened, history>>

NoFields == [life |-> None, name |-> None, active |-> None, home |-> None, post |-> None]

Idle == [rows |-> {}, write |-> NoFields, items |-> Omitted, cleared |-> {}, seen |-> {}]

LinksOf(v) == {e \in links : e[1] = v}

Init ==
    /\ life = [v \in Rows |-> IF v \in DOMAIN Seed THEN "live" ELSE "absent"]
    /\ name = [v \in Rows |-> IF v \in DOMAIN Seed THEN Seed[v].name ELSE None]
    /\ active = [v \in Rows |-> v \in DOMAIN Seed]
    /\ home = [v \in Rows |-> IF v \in DOMAIN Seed THEN Seed[v].home ELSE None]
    /\ post = [v \in Rows |-> IF v \in DOMAIN Seed THEN Seed[v].post ELSE None]
    /\ links = SeedLinks
    /\ log = {}
    /\ req = [q \in Requests |-> Idle]
    /\ opened = 0
    /\ saw = [v \in Rows |-> DOMAIN Seed \ {v}]
    /\ crossed = {} /\ moved = {} /\ renamed = {}
    /\ want = [v \in Rows |-> {e[2] : e \in {l \in SeedLinks : l[1] = v}}]

----------------------------------------------------------------------------
(* What the checks ask of the tables *)

Live(v) == life[v] = "live"

\* The rows of a table with a name; deleted ones do not count.
Named(table, n) == {v \in table : Live(v) /\ name[v] = n}

\* A row that no request has inserted or is about to insert.
Fresh(v) == life[v] = "absent" /\ \A p \in Requests : v \notin req[p].rows

\* The department is there and in use, and the designation belongs to it.
PlaceAccepted(d, g) ==
    /\ d \in Departments /\ Live(d) /\ active[d]
    /\ g \in Designations /\ Live(g) /\ active[g]
    /\ home[g] = d

\* Each role name stands for exactly one live role: the lookup raises on two.
RolesAccepted(items) ==
    /\ items # {}
    /\ \A n \in items : n \in Names /\ Cardinality(Named(Roles, n)) = 1

\* A column is left out of the UPDATE when the new value is the one read.
Diff(new, old) == IF new = old THEN None ELSE new

\* The fields of payload p that differ from row v.
Changes(v, p) ==
    [life |-> None, name |-> Diff(p.name, name[v]), active |-> Diff(p.active, active[v]),
     home |-> Diff(p.home, home[v]), post |-> Diff(p.post, post[v])]

Put(new, old) == IF new = None THEN old ELSE new

Insert(p) == [life |-> "live", name |-> p.name, active |-> Put(p.active, TRUE),
              home |-> p.home, post |-> p.post]

\* The request body has no fields but these.
Body(p, fields) ==
    /\ \A f \in {"name", "active", "home", "post"} \ fields : p[f] = None
    /\ "items" \notin fields => p.items = Omitted

RoleBody(p) ==
    Body(p, {"name", "items"}) /\ (p.items = Omitted \/ p.items \subseteq Permissions)

DepartmentBody(p) == Body(p, {"name", "active"})
DesignationBody(p) == Body(p, {"name", "active", "home"})

\* A request has read the tables and found nothing to object to.
Open(q, R, write, items, cleared) ==
    /\ req[q] = Idle /\ opened < MaxOpened
    /\ req' = [req EXCEPT ![q] = [rows |-> R, write |-> write, items |-> items,
                                  cleared |-> cleared, seen |-> {v \in Rows : Live(v)} \ R]]
    /\ opened' = opened + 1
    /\ UNCHANGED <<tables, history>>

----------------------------------------------------------------------------
(* modules/users/service.py *)

CreateUserCheck(q, u, p) ==
    /\ Fresh(u)
    /\ p.name # None
    /\ Named(Users, p.name) = {}
    /\ PlaceAccepted(p.home, p.post)
    /\ RolesAccepted(p.items)
    /\ Open(q, {u}, Insert(p), p.items, {})

MayRename_Unchecked(table, v, n) == TRUE

\* A new name must not be taken; the name the row has already is not checked.
MayRename(table, v, n) == n \in {None, name[v]} \/ Named(table, n) \ {v} = {}

\* Where the payload puts the user: what it leaves out stays as it is, and
\* only what it mentions has to be in use.
PlacedBy(u, p) ==
    IF p.home = None /\ p.post = None THEN [home |-> None, post |-> None]
    ELSE [home |-> IF p.home = None THEN home[u] ELSE p.home,
          post |-> IF p.post = None THEN post[u] ELSE p.post]

MayPlace_DepartmentUnmatched(u, p) ==
    LET at == PlacedBy(u, p)
    IN  (p.home # None \/ p.post # None) =>
            /\ at.home # None /\ Live(at.home) /\ (p.home # None => active[at.home])
            /\ at.post # None /\ Live(at.post) /\ (p.post # None => active[at.post])

MayPlace(u, p) ==
    LET at == PlacedBy(u, p)
    IN  (p.home # None \/ p.post # None) =>
            /\ at.home # None /\ Live(at.home) /\ (p.home # None => active[at.home])
            /\ at.post # None /\ Live(at.post) /\ (p.post # None => active[at.post])
            /\ home[at.post] = at.home

ClearedForUser_Kept(u, p) == {}

\* The role assignments that an update of the roles deletes.
ClearedForUser(u, p) == IF p.items = Omitted THEN {} ELSE LinksOf(u)

UpdateUserCheck(q, u, p) ==
    /\ Live(u)
    /\ MayRename(Users, u, p.name)
    /\ MayPlace(u, p)
    /\ p.items # Omitted => RolesAccepted(p.items)
    /\ LET at == PlacedBy(u, p)
           new == [p EXCEPT !.home = at.home, !.post = at.post]
       IN  Open(q, {u}, Changes(u, new), p.items, ClearedForUser(u, p))

DeleteUserCheck(q, u) ==
    /\ Live(u)
    /\ Open(q, {u}, [NoFields EXCEPT !.life = "deleted"], Omitted, {})

\* Users that are not there (any more) are passed over.
BulkDeleteCheck(q, U) ==
    LET R == {u \in U : Live(u)}
    IN  /\ R # {}
        /\ Open(q, R, [NoFields EXCEPT !.life = "deleted"], Omitted, {})

BulkStatusCheck(q, U, on) ==
    LET R == {u \in U : Live(u) /\ active[u] # on}
    IN  /\ R # {}
        /\ Open(q, R, [NoFields EXCEPT !.active = on], Omitted, {})

----------------------------------------------------------------------------
(* modules/rbac/service.py *)

CreateRoleCheck(q, r, p) ==
    /\ Fresh(r) /\ r \notin SystemRoles
    /\ RoleBody(p) /\ p.name # None
    /\ Named(Roles, p.name) = {}
    /\ Open(q, {r}, Insert(p), p.items, {})

\* System roles are not modified, deleted or given other permissions.
MayModify(r) == Live(r) /\ r \notin SystemRoles

UpdateRoleCheck(q, r, p) ==
    /\ MayModify(r)
    /\ RoleBody(p)
    /\ MayRename(Roles, r, p.name)
    /\ Open(q, {r}, [NoFields EXCEPT !.name = Diff(p.name, name[r])],
            p.items, IF p.items = Omitted THEN {} ELSE LinksOf(r))

DeleteRoleCheck(q, r) ==
    /\ MayModify(r)
    /\ Open(q, {r}, [NoFields EXCEPT !.life = "deleted"], Omitted, {})

UpdateRolePermissionsCheck(q, r, p) ==
    /\ MayModify(r)
    /\ Body(p, {"items"}) /\ p.items \subseteq Permissions
    /\ Open(q, {r}, NoFields, p.items, LinksOf(r))

MayAssign_Deleted(u) == life[u] # "absent"

MayAssign(u) == Live(u)

\* The roles come by id and may be none at all.
AssignRolesCheck(q, u, p) ==
    /\ MayAssign(u)
    /\ Body(p, {"items"}) /\ p.items \subseteq Roles
    /\ Open(q, {u}, NoFields, p.items, LinksOf(u))

UnassignRoleCheck(q, u, r) ==
    /\ MayAssign(u) /\ Live(r)
    /\ Open(q, {u}, NoFields, Omitted, {<<u, r>>} \cap links)

----------------------------------------------------------------------------
(* modules/departments/service.py *)

CreateDepartmentCheck(q, d, p) ==
    /\ Fresh(d)
    /\ DepartmentBody(p) /\ p.name # None
    /\ Named(Departments, p.name) = {}
    /\ Open(q, {d}, Insert(p), Omitted, {})

UpdateDepartmentCheck(q, d, p) ==
    /\ Live(d) /\ DepartmentBody(p)
    /\ MayRename(Departments, d, p.name)
    /\ Open(q, {d},
            Changes(d, [p EXCEPT !.home = home[d], !.post = post[d]]), Omitted, {})

\* Its designations and users keep their references to it.
DeleteDepartmentCheck(q, d) ==
    /\ Live(d)
    /\ Open(q, {d},
            [NoFields EXCEPT !.life = "deleted", !.active = Diff(FALSE, active[d])],
            Omitted, {})

----------------------------------------------------------------------------
(* modules/designations/service.py *)

InDepartment(d) == {g \in Designations : home[g] = d}

CreateDesignationCheck(q, g, p) ==
    /\ Fresh(g)
    /\ DesignationBody(p) /\ p.name # None
    /\ p.home # None /\ Live(p.home) /\ active[p.home]
    /\ Named(InDepartment(p.home), p.name) = {}
    /\ Open(q, {g}, Insert(p), Omitted, {})

\* The duplicate check runs when the name changes.  The move has been written
\* to the object by then, so that "or the department changed" never holds.
UpdateDesignationCheck(q, g, p) ==
    LET d == IF p.home = None THEN home[g] ELSE p.home
    IN  /\ Live(g) /\ DesignationBody(p)
        /\ d # home[g] => Live(d) /\ active[d]
        /\ MayRename(InDepartment(d), g, p.name)
        /\ Open(q, {g},
                Changes(g, [p EXCEPT !.home = d, !.post = post[g]]), Omitted, {})

DeleteDesignationCheck(q, g) ==
    /\ Live(g)
    /\ Open(q, {g},
            [NoFields EXCEPT !.life = "deleted", !.active = Diff(FALSE, active[g])],
            Omitted, {})

----------------------------------------------------------------------------
(* The end of a request *)

Lookup_LiveOnly(x) ==
    IF x \in Names THEN Named(Roles, x)
    ELSE IF x \in Roles THEN {r \in {x} : Live(r)}
    ELSE {x}

\* Roles are looked up again by name, now whether deleted or not; a role named
\* by id must be live, a permission in the catalog.
Lookup(x) ==
    IF x \in Names THEN {r \in Roles : life[r] # "absent" /\ name[r] = x}
    ELSE IF x \in Roles THEN {r \in {x} : Live(r)}
    ELSE {x}

Found(q) == IF req[q].items = Omitted THEN {} ELSE UNION {Lookup(x) : x \in req[q].items}

Added(q) == req[q].rows \X Found(q)

\* Two roles with the name looked up, or a row that another request has
\* inserted since, which the primary key refuses.
Raises(q) ==
    \/ req[q].items # Omitted /\ \E x \in req[q].items : Cardinality(Lookup(x)) > 1
    \/ Added(q) \cap (links \ req[q].cleared) # {}

\* Names are claimed by inserting or renaming; a designation also by moving.
Claims(q) == IF req[q].write.name # None THEN req[q].rows ELSE {}
Moves(q) == IF req[q].write.home # None THEN req[q].rows \cap Designations ELSE {}

\* What the other open requests still know once q has committed: a row it has
\* deleted is not theirs to delete, and a name it has changed was not checked.
Outdate(q, p) ==
    [req[p] EXCEPT !.cleared = @ \ req[q].cleared,
                   !.seen = IF Moves(q) \cap req[p].rows # {} THEN {}
                            ELSE @ \ (Claims(q) \cup Moves(q))]

\* The names that roles have until the request commits, and then no longer.
NamesLost(q) == {name[r] : r \in {r \in Claims(q) \cap Roles : life[r] # "absent"}}

\* The rows for which the request writes an audit entry that says "delete".
Logged(q) == IF req[q].write.life = "deleted" THEN req[q].rows ELSE {}

Commit(q) ==
    LET w == req[q].write
        R == req[q].rows
        kept == links \ req[q].cleared
    IN  /\ req[q] # Idle
        /\ ~Raises(q)
        /\ life' = [v \in Rows |-> IF v \in R THEN Put(w.life, life[v]) ELSE life[v]]
        /\ name' = [v \in Rows |-> IF v \in R THEN Put(w.name, name[v]) ELSE name[v]]
        /\ active' = [v \in Rows |-> IF v \in R THEN Put(w.active, active[v]) ELSE active[v]]
        /\ home' = [v \in Rows |-> IF v \in R THEN Put(w.home, home[v]) ELSE home[v]]
        /\ post' = [v \in Rows |-> IF v \in R THEN Put(w.post, post[v]) ELSE post[v]]
        /\ links' = kept \cup Added(q)
        /\ log' = log \cup Logged(q)
        /\ req' = [p \in Requests |-> IF p = q THEN Idle ELSE Outdate(q, p)]
        /\ UNCHANGED opened
        /\ saw' = [v \in Rows |-> IF v \in Claims(q) THEN req[q].seen
                                  ELSE IF v \in Moves(q) THEN {}
                                  ELSE saw[v] \ (Claims(q) \cup Moves(q))]
        /\ crossed' = crossed \cup {v \in R : \E p \in Requests \ {q} : v \in req[p].rows}
        /\ moved' = moved \cup {v \in Moves(q) : life[v] # "absent"}
        /\ renamed' = {p \in Requests \ {q} :
                            p \in renamed \/ req[p].items \cap NamesLost(q) # {}}
        /\ want' = [v \in Rows |->
                        IF v \notin R THEN want[v]
                        ELSE IF req[q].items = Omitted THEN want[v] \ {e[2] : e \in req[q].cleared}
                        ELSE Found(q)]

\* The response is an error, or the API dies: the transaction is rolled back.
Abort(q) ==
    /\ req[q] # Idle
    /\ req' = [req EXCEPT ![q] = Idle]
    /\ renamed' = renamed \ {q}
    /\ UNCHANGED <<tables, opened, saw, crossed, moved, want>>

----------------------------------------------------------------------------

UsersNext(q) ==
    \/ \E u \in Users, p \in Payloads : CreateUserCheck(q, u, p)
    \/ \E u \in Users, p \in Payloads : UpdateUserCheck(q, u, p)
    \/ \E u \in Users : DeleteUserCheck(q, u)
    \/ \E U \in Batches :
        \/ BulkDeleteCheck(q, U)
        \/ \E on \in BOOLEAN : BulkStatusCheck(q, U, on)

RolesNext(q) ==
    \/ \E r \in Roles :
        \/ DeleteRoleCheck(q, r)
        \/ \E p \in Payloads :
            \/ CreateRoleCheck(q, r, p)
            \/ UpdateRoleCheck(q, r, p)
            \/ UpdateRolePermissionsCheck(q, r, p)
    \/ \E u \in Users :
        \/ \E p \in Payloads : AssignRolesCheck(q, u, p)
        \/ \E r \in Roles : UnassignRoleCheck(q, u, r)

PlacesNext(q) ==
    \/ \E d \in Departments :
        \/ DeleteDepartmentCheck(q, d)
        \/ \E p \in Payloads : CreateDepartmentCheck(q, d, p) \/ UpdateDepartmentCheck(q, d, p)
    \/ \E g \in Designations :
        \/ DeleteDesignationCheck(q, g)
        \/ \E p \in Payloads : CreateDesignationCheck(q, g, p) \/ UpdateDesignationCheck(q, g, p)

Next == \E q \in Requests : UsersNext(q) \/ RolesNext(q) \/ PlacesNext(q) \/ Commit(q) \/ Abort(q)

Spec == Init /\ [][Next]_vars

----------------------------------------------------------------------------
(* Properties *)

RequestType ==
    [rows : SUBSET Rows, write : Fields, items : (SUBSET Items) \cup {Omitted},
     cleared : SUBSET Pairs, seen : SUBSET Rows]

TypeOK ==
    /\ life \in [Rows -> {"absent", "live", "deleted"}]
    /\ name \in [Rows -> Names \cup {None}]
    /\ active \in [Rows -> BOOLEAN]
    /\ home \in [Rows -> Departments \cup {None}]
    /\ post \in [Rows -> Designations \cup {None}]
    /\ links \in SUBSET Pairs
    /\ log \in SUBSET Rows
    /\ req \in [Requests -> RequestType]
    /\ opened \in Nat
    /\ saw \in [Rows -> SUBSET Rows]
    /\ crossed \in SUBSET Rows /\ moved \in SUBSET Rows
    /\ renamed \in SUBSET Requests
    /\ want \in [Rows -> SUBSET (Roles \cup Permissions)]

\* v and w are rows of one table, and of one department if designations.
Rivals(v, w) ==
    /\ v # w
    /\ SameTable(v, w)
    /\ v \in Designations => home[v] = home[w]

\* The checks are all that keeps names apart, and they do it for every two
\* requests that do not overlap: a live row never has the name of a live rival
\* whose name was in place when its own was checked (users/service.py:142-165,
\* rbac/service.py:57-68, departments/service.py:67-79).  A designation that was
\* moved has not been checked at all.
CheckedNamesDiffer ==
    \A v \in Rows : \A w \in saw[v] :
        (Rivals(v, w) /\ Live(v) /\ Live(w)) => name[v] # name[w]

\* A deleted row is left alone, by every handler, once the requests that read
\* it live are over: the filters on deleted_at cover every way to write it.  And
\* its deletion is in the audit log, in bulk or one by one (core/audit.py:22-48).
DeletedRowsRest ==
    [][\A v \in Rows :
        (life[v] = "deleted" /\ \A q \in Requests : v \notin req[q].rows) =>
            /\ v \in log /\ life'[v] = "deleted"
            /\ name'[v] = name[v] /\ active'[v] = active[v]
            /\ home'[v] = home[v] /\ post'[v] = post[v]
            /\ LinksOf(v)' = LinksOf(v)
            /\ \A q \in Requests : v \notin req'[q].rows]_vars

\* A user's designation belongs to the user's department, unless the designation
\* was moved later or two requests on the user overlapped: each then writes only
\* the columns it has changed (users/service.py:364-370).
PlacesAgree ==
    \A u \in Users :
        \/ post[u] = None \/ post[u] \in moved \/ u \in crossed
        \/ home[post[u]] = home[u]

\* The roles of a user and the permissions of a role are those the last request
\* asked for, and never a mixture with earlier ones, unless two requests on the
\* user or role overlapped (users/service.py:390-398, rbac/service.py:228-238).
LinksAreReplaced ==
    \A v \in (Users \cup Roles) \ crossed : {e[2] : e \in LinksOf(v)} = want[v]

\* A user is never created without a role, whatever is deleted meanwhile, unless
\* a role the request names lost that name between the lookup that validates the
\* names and the one that assigns the roles (users/service.py:202-206, :229-236).
NewUsersHaveRoles ==
    [][\A u \in Users :
        (life[u] = "absent" /\ life'[u] = "live") =>
            LinksOf(u)' # {} \/ \E q \in renamed : u \in req[q].rows]_vars
=============================================================================
