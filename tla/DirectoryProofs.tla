--------------------------- MODULE DirectoryProofs ---------------------------
(***************************************************************************)
(* Proofs about Directory, for any users, roles, departments, designations *)
(* and requests.  What a request has read when it commits may be out of    *)
(* date: the invariant says, for every open request, which of its findings *)
(* no commit of another request has taken away.                            *)
(***************************************************************************)
EXTENDS Directory, FiniteSetTheorems, TLAPS

----------------------------------------------------------------------------
(* The inductive invariant *)

There(v) == life[v] # "absent"

\* Only rows that are there are linked to, or referred to as a designation.
EndsAreThere ==
    /\ \A e \in links : There(e[1]) /\ (e[2] \in Roles => There(e[2]))
    /\ \A v \in Rows : post[v] # None => There(post[v])
    /\ \A q \in Requests : req[q].write.post # None => There(req[q].write.post)

DeletionsAreLogged == \A v \in Rows : life[v] = "deleted" => v \in log

\* Users are given roles, by name or by id, and roles are given permissions.
ItemsFit(R, items) ==
    items # Omitted =>
        \/ R \subseteq Users /\ items \subseteq Names \cup Roles
        \/ R \subseteq Roles /\ items \subseteq Permissions

\* A request that inserts also names; nothing but an insert has rows that are
\* not there; whoever deletes links has the row at their end and no other.
RequestsFit ==
    \A q \in Requests :
        /\ req[q].write.life = "live" => req[q].write.name # None
        /\ \A v \in req[q].rows : There(v) \/ req[q].write.life = "live"
        /\ \A e \in req[q].cleared : req[q].rows = {e[1]}
        /\ ItemsFit(req[q].rows, req[q].items)
        /\ req[q].seen \cap req[q].rows = {}

\* None of the rows in S that are live now has the name n, among those that are
\* in one table with v, and for a designation in the department d.
NameFree(v, d, n, S) ==
    \A x \in S :
        (/\ SameTable(v, x) /\ Live(x)
         /\ v \in Designations => home[x] = d)
            => name[x] # n

\* The name that a request is to give is still free among the rows it knows.
NamesFree ==
    \A q \in Requests : req[q].write.name # None =>
        \A v \in req[q].rows :
            NameFree(v, Put(req[q].write.home, home[v]), req[q].write.name, req[q].seen)

\* Placing u there leaves it in the department of its designation.
Placed(u, write) ==
    LET g == Put(write.post, post[u])
    IN  g = None \/ g \in moved \/ home[g] = Put(write.home, home[u])

PlacesFit ==
    \A q \in Requests : \A u \in (req[q].rows \cap Users) \ crossed : Placed(u, req[q].write)

\* A request that replaces the links of a row still has all of them.
LinksSeen ==
    \A q \in Requests : req[q].items # Omitted =>
        \A v \in req[q].rows \ crossed : LinksOf(v) \subseteq req[q].cleared

\* A role that one of the names asked for stands for.
RoleNamed(items) == \E n \in items \cap Names : \E r \in Roles : There(r) /\ name[r] = n

RolesStand ==
    \A q \in Requests :
        (req[q].write.life = "live" /\ req[q].rows \cap Users # {})
            => RoleNamed(req[q].items) \/ q \in renamed

IInv ==
    /\ TypeOK
    /\ EndsAreThere /\ DeletionsAreLogged /\ RequestsFit
    /\ CheckedNamesDiffer /\ NamesFree
    /\ PlacesAgree /\ PlacesFit
    /\ LinksAreReplaced /\ LinksSeen
    /\ RolesStand

----------------------------------------------------------------------------
(* The tables, values that are left out, and the initial state *)

LEMMA SameTableAs ==
    ASSUME NEW v \in Rows, NEW w \in Rows, SameTable(v, w)
    PROVE  /\ v \in Users => w \in Users
           /\ v \in Roles => w \in Roles
           /\ v \in Departments => w \in Departments
           /\ v \in Designations => w \in Designations
  BY TablesAssumption DEF SameTable, Rows

LEMMA NoRowIsNone == \A v \in Rows \cup Names \cup Items : v # None
  BY DirectoryAssumption

LEMMA BooleansPut ==
    ASSUME NEW new \in BOOLEAN \cup {None}, NEW old \in BOOLEAN
    PROVE  Put(new, old) \in BOOLEAN
  BY Zenon DEF Put

LEMMA NoFieldsIsFields == NoFields \in Fields
  BY DEF NoFields, Fields

LEMMA IdleIsRequest ==
    /\ Idle \in RequestType
    /\ Idle.rows = {} /\ Idle.items = Omitted /\ Idle.cleared = {} /\ Idle.seen = {}
    /\ Idle.write.life = None /\ Idle.write.name = None /\ Idle.write.post = None
  <1>1. {} \in SUBSET Rows /\ {} \in SUBSET Pairs /\ Omitted \in (SUBSET Items) \cup {Omitted}
    OBVIOUS
  <1>2. QED
    BY <1>1, NoFieldsIsFields DEF Idle, RequestType, NoFields

LEMMA InitIInv == Init => IInv
  <1> SUFFICES ASSUME Init PROVE IInv
    OBVIOUS
  <1>1. /\ \A v \in Rows : life[v] = IF v \in DOMAIN Seed THEN "live" ELSE "absent"
        /\ \A v \in Rows : name[v] = IF v \in DOMAIN Seed THEN Seed[v].name ELSE None
        /\ \A v \in Rows : home[v] = IF v \in DOMAIN Seed THEN Seed[v].home ELSE None
        /\ \A v \in Rows : post[v] = IF v \in DOMAIN Seed THEN Seed[v].post ELSE None
        /\ \A q \in Requests : req[q] = Idle
        /\ \A v \in Rows : saw[v] = DOMAIN Seed \ {v}
        /\ \A v \in Rows : want[v] = {e[2] : e \in {l \in SeedLinks : l[1] = v}}
        /\ links = SeedLinks
    BY DEF Init
  <1>2. \A v \in DOMAIN Seed :
            /\ v \in Rows /\ Seed[v].name \in Names
            /\ Seed[v].home \in Departments \cup {None}
            /\ Seed[v].post \in Designations \cup {None}
    BY DirectoryAssumption
  <1>3. TypeOK
    <2>1. /\ life \in [Rows -> {"absent", "live", "deleted"}]
          /\ name \in [Rows -> Names \cup {None}]
          /\ home \in [Rows -> Departments \cup {None}]
          /\ post \in [Rows -> Designations \cup {None}]
      BY <1>2 DEF Init
    <2>2. active \in [Rows -> BOOLEAN]
      <3>1. \A v \in Rows : (v \in DOMAIN Seed) \in BOOLEAN
        OBVIOUS
      <3>2. QED
        BY <3>1, Zenon DEF Init
    <2>3. req \in [Requests -> RequestType]
      BY IdleIsRequest DEF Init
    <2>4. saw \in [Rows -> SUBSET Rows]
      BY <1>2 DEF Init
    <2>5. want \in [Rows -> SUBSET (Roles \cup Permissions)]
      BY DirectoryAssumption DEF Init, Pairs
    <2>6. QED
      BY <2>1, <2>2, <2>3, <2>4, <2>5, DirectoryAssumption DEF TypeOK, Init
  <1>4. EndsAreThere
    BY <1>1, <1>2, SeedAssumption, IdleIsRequest DEF EndsAreThere, There
  <1>5. DeletionsAreLogged
    BY <1>1 DEF DeletionsAreLogged
  <1>6. RequestsFit /\ NamesFree /\ PlacesFit /\ LinksSeen /\ RolesStand
    BY <1>1, IdleIsRequest, DirectoryAssumption
    DEF RequestsFit, NamesFree, PlacesFit, LinksSeen, RolesStand, ItemsFit
  <1>7. CheckedNamesDiffer
    BY <1>1, <1>2, SeedAssumption DEF CheckedNamesDiffer, Rivals, Live
  <1>8. PlacesAgree
    BY <1>1, <1>2, SeedAssumption DEF PlacesAgree, Rows
  <1>9. LinksAreReplaced
    BY <1>1 DEF LinksAreReplaced, LinksOf, Rows
  <1>10. QED
    BY <1>3, <1>4, <1>5, <1>6, <1>7, <1>8, <1>9 DEF IInv
----------------------------------------------------------------------------
(* What a handler has made sure of when its request goes on to write *)

Justified(R, w, items, cleared) ==
    /\ IF w.life = "live" THEN w.name # None /\ \A v \in R : life[v] = "absent"
       ELSE \A v \in R : Live(v)
    /\ \A e \in cleared : R = {e[1]}
    /\ ItemsFit(R, items)
    /\ items # Omitted => \A v \in R : LinksOf(v) \subseteq cleared
    /\ w.name # None => \A v \in R : NameFree(v, Put(w.home, home[v]), w.name, Rows \ R)
    /\ w.post # None => There(w.post)
    /\ \A u \in (R \cap Users) \ crossed : Placed(u, w)
    /\ (w.life = "live" /\ R \cap Users # {}) => RoleNamed(items)

OpenedWell(q) ==
    \E R \in SUBSET Rows, w \in Fields, items \in (SUBSET Items) \cup {Omitted},
       cleared \in SUBSET links :
        Open(q, R, w, items, cleared) /\ Justified(R, w, items, cleared)

\* A live row is at hand: nothing is inserted.
LEMMA LiveIsThere == \A v : Live(v) => There(v) /\ life[v] # "absent"
  BY DEF Live, There

LEMMA PayloadsAre ==
    ASSUME NEW p \in Payloads
    PROVE  /\ p \in Payload
           /\ p.name \in Names \cup {None} /\ p.active \in BOOLEAN \cup {None}
           /\ p.home \in Departments \cup {None} /\ p.post \in Designations \cup {None}
           /\ p.items \in (SUBSET Items) \cup {Omitted}
  BY DirectoryAssumption DEF Payload

\* Requests on live rows that neither name nor place them.
LEMMA UnnamedRequest ==
    ASSUME IInv, NEW R \in SUBSET Rows, \A v \in R : Live(v),
           NEW w, w.life # "live", w.name = None, w.home = None, w.post = None,
           NEW items, ItemsFit(R, items), NEW cleared, \A e \in cleared : R = {e[1]},
           items # Omitted => \A v \in R : LinksOf(v) \subseteq cleared
    PROVE  Justified(R, w, items, cleared)
  <1>1. \A u \in (R \cap Users) \ crossed : Placed(u, w)
    BY DEF IInv, PlacesAgree, Placed, Put
  <1>2. QED
    BY <1>1 DEF Justified

LEMMA StatusRequest ==
    ASSUME IInv, NEW q \in Requests, NEW R \in SUBSET Rows, \A v \in R : Live(v),
           NEW w \in Fields, w.life # "live", w.name = None, w.home = None, w.post = None,
           Open(q, R, w, Omitted, {})
    PROVE  OpenedWell(q)
  <1>1. {} \in SUBSET links /\ ItemsFit(R, Omitted)
    BY DEF ItemsFit
  <1>2. Justified(R, w, Omitted, {})
    BY <1>1, UnnamedRequest
  <1>3. QED
    BY <1>1, <1>2 DEF OpenedWell

LEMMA Deletions ==
    ASSUME IInv, NEW q \in Requests,
           \/ \E u \in Users : DeleteUserCheck(q, u)
           \/ \E U \in Batches : BulkDeleteCheck(q, U)
           \/ \E U \in Batches, on \in BOOLEAN : BulkStatusCheck(q, U, on)
           \/ \E r \in Roles : DeleteRoleCheck(q, r)
           \/ \E d \in Departments : DeleteDepartmentCheck(q, d)
           \/ \E g \in Designations : DeleteDesignationCheck(q, g)
    PROVE  OpenedWell(q)
  <1> DEFINE Status(w) == /\ w \in Fields /\ w.life # "live"
                          /\ w.name = None /\ w.home = None /\ w.post = None
  <1>1. /\ Status([NoFields EXCEPT !.life = "deleted"])
        /\ \A on \in BOOLEAN \cup {None} :
            /\ Status([NoFields EXCEPT !.active = on])
            /\ Status([NoFields EXCEPT !.life = "deleted", !.active = on])
    BY DirectoryAssumption DEF NoFields, Fields
  <1>2. CASE \E v \in Rows : /\ Live(v)
                           /\ Open(q, {v}, [NoFields EXCEPT !.life = "deleted"], Omitted, {})
    BY <1>1, <1>2, StatusRequest
  <1>3. CASE \E v \in Rows : /\ Live(v)
                           /\ Open(q, {v}, [NoFields EXCEPT !.life = "deleted",
                                                          !.active = Diff(FALSE, active[v])],
                                   Omitted, {})
    <2>1. \A v \in Rows : Diff(FALSE, active[v]) \in BOOLEAN \cup {None}
      BY Zenon DEF Diff
    <2>2. QED
      BY <1>1, <1>3, <2>1, StatusRequest
  <1>4. ASSUME NEW U \in Batches, BulkDeleteCheck(q, U)
        PROVE  OpenedWell(q)
    <2>1. {u \in U : Live(u)} \in SUBSET Rows
      BY DirectoryAssumption DEF Rows
    <2>2. QED
      BY <1>1, <1>4, <2>1, StatusRequest DEF BulkDeleteCheck
  <1>5. ASSUME NEW U \in Batches, NEW on \in BOOLEAN, BulkStatusCheck(q, U, on)
        PROVE  OpenedWell(q)
    <2>1. {u \in U : Live(u) /\ active[u] # on} \in SUBSET Rows
      BY DirectoryAssumption DEF Rows
    <2>2. QED
      BY <1>1, <1>5, <2>1, StatusRequest DEF BulkStatusCheck
  <1>6. QED
    BY <1>2, <1>3, <1>4, <1>5
    DEF DeleteUserCheck, DeleteRoleCheck, MayModify, DeleteDepartmentCheck,
        DeleteDesignationCheck, Rows

\* The roles of a user and the permissions of a role are replaced, or one role taken.
LEMMA Assignments ==
    ASSUME IInv, NEW q \in Requests,
           \/ \E r \in Roles, p \in Payloads : UpdateRolePermissionsCheck(q, r, p)
           \/ \E u \in Users, p \in Payloads : AssignRolesCheck(q, u, p)
           \/ \E u \in Users, r \in Roles : UnassignRoleCheck(q, u, r)
    PROVE  OpenedWell(q)
  <1>1. ASSUME NEW v \in Rows, Live(v), NEW items \in (SUBSET Items) \cup {Omitted},
               NEW cleared \in SUBSET links, cleared \subseteq LinksOf(v),
               items # Omitted => cleared = LinksOf(v),
               ItemsFit({v}, items), Open(q, {v}, NoFields, items, cleared)
        PROVE  OpenedWell(q)
    <2>1. Justified({v}, NoFields, items, cleared)
      BY <1>1, UnnamedRequest, DirectoryAssumption DEF NoFields, LinksOf
    <2>2. QED
      BY <1>1, <2>1, NoFieldsIsFields DEF OpenedWell
  <1>2. \A v : LinksOf(v) \in SUBSET links
    BY DEF LinksOf
  <1>3. ASSUME NEW r \in Roles, NEW p \in Payloads, UpdateRolePermissionsCheck(q, r, p)
        PROVE  OpenedWell(q)
    BY <1>1, <1>2, <1>3, PayloadsAre DEF UpdateRolePermissionsCheck, MayModify, ItemsFit, Rows
  <1>4. ASSUME NEW u \in Users, NEW p \in Payloads, AssignRolesCheck(q, u, p)
        PROVE  OpenedWell(q)
    BY <1>1, <1>2, <1>4, PayloadsAre DEF AssignRolesCheck, MayAssign, ItemsFit, Rows
  <1>5. ASSUME NEW u \in Users, NEW r \in Roles, UnassignRoleCheck(q, u, r)
        PROVE  OpenedWell(q)
    BY <1>1, <1>5 DEF UnassignRoleCheck, MayAssign, ItemsFit, LinksOf, Rows
  <1>6. QED
    BY <1>3, <1>4, <1>5
\* A row is inserted: users with a place and roles, nothing else with either.
LEMMA Creation ==
    ASSUME IInv, NEW q \in Requests, NEW v \in Rows, Fresh(v),
           NEW p \in Payloads, p.name # None,
           NameFree(v, Put(p.home, home[v]), p.name, Rows \ {v}),
           v \in Users => PlaceAccepted(p.home, p.post) /\ RoleNamed(p.items),
           v \notin Users => p.post = None,
           ItemsFit({v}, p.items), Open(q, {v}, Insert(p), p.items, {})
    PROVE  OpenedWell(q)
  <1>1. p.items \in (SUBSET Items) \cup {Omitted}
    BY PayloadsAre
  <1>2. /\ Insert(p) \in Fields
        /\ Insert(p).life = "live" /\ Insert(p).name = p.name
        /\ Insert(p).home = p.home /\ Insert(p).post = p.post
    <2>1. Put(p.active, TRUE) \in BOOLEAN
      BY PayloadsAre, BooleansPut
    <2>2. QED
      BY <2>1, PayloadsAre DEF Insert, Fields
  <1>3. life[v] = "absent" /\ LinksOf(v) = {}
    BY DEF Fresh, IInv, EndsAreThere, There, LinksOf
  <1>4. p.post # None => There(p.post)
    BY LiveIsThere DEF PlaceAccepted
  <1>5. v \in Users => Placed(v, Insert(p))
    BY <1>2, NoRowIsNone DEF PlaceAccepted, Placed, Put, Rows
  <1>6. Justified({v}, Insert(p), p.items, {})
    BY <1>2, <1>3, <1>4, <1>5 DEF Justified
  <1>7. QED
    BY <1>1, <1>2, <1>6 DEF OpenedWell

LEMMA RolesAcceptedAre ==
    ASSUME NEW items, RolesAccepted(items)
    PROVE  items \subseteq Names /\ RoleNamed(items)
  <1>1. PICK n \in items : n \in Names /\ Cardinality(Named(Roles, n)) = 1
    BY DEF RolesAccepted
  <1>2. PICK r : r \in Named(Roles, n)
    BY <1>1, FS_EmptySet
  <1>3. QED
    BY <1>1, <1>2, LiveIsThere DEF RolesAccepted, Named, RoleNamed

\* No row of the table has the name: it is free among all rows but v.
LEMMA NotNamed ==
    ASSUME NEW v \in Rows, NEW d, NEW n,
           \/ v \in Users /\ Named(Users, n) \ {v} = {}
           \/ v \in Roles /\ Named(Roles, n) \ {v} = {}
           \/ v \in Departments /\ Named(Departments, n) \ {v} = {}
           \/ v \in Designations /\ Named(InDepartment(d), n) \ {v} = {}
    PROVE  NameFree(v, d, n, Rows \ {v})
  BY SameTableAs DEF NameFree, Named, InDepartment

LEMMA Creations ==
    ASSUME IInv, NEW q \in Requests, NEW p \in Payloads,
           \/ \E u \in Users : CreateUserCheck(q, u, p)
           \/ \E r \in Roles : CreateRoleCheck(q, r, p)
           \/ \E d \in Departments : CreateDepartmentCheck(q, d, p)
           \/ \E g \in Designations : CreateDesignationCheck(q, g, p)
    PROVE  OpenedWell(q)
  <1>1. ASSUME NEW u \in Users, CreateUserCheck(q, u, p)
        PROVE  OpenedWell(q)
    <2>1. ItemsFit({u}, p.items) /\ RoleNamed(p.items)
      BY <1>1, RolesAcceptedAre DEF CreateUserCheck, ItemsFit
    <2>2. NameFree(u, Put(p.home, home[u]), p.name, Rows \ {u})
      BY <1>1, NotNamed DEF CreateUserCheck, Rows
    <2>3. QED
      BY <1>1, <2>1, <2>2, Creation DEF CreateUserCheck, Rows
  <1>2. ASSUME NEW r \in Roles, CreateRoleCheck(q, r, p)
        PROVE  OpenedWell(q)
    <2>1. ItemsFit({r}, p.items) /\ p.post = None
      BY <1>2 DEF CreateRoleCheck, RoleBody, Body, ItemsFit
    <2>2. NameFree(r, Put(p.home, home[r]), p.name, Rows \ {r})
      BY <1>2, NotNamed DEF CreateRoleCheck, Rows
    <2>3. QED
      BY <1>2, <2>1, <2>2, Creation, TablesAssumption DEF CreateRoleCheck, Rows
  <1>3. ASSUME NEW d \in Departments, CreateDepartmentCheck(q, d, p)
        PROVE  OpenedWell(q)
    <2>1. ItemsFit({d}, p.items) /\ p.post = None /\ p.items = Omitted
      BY <1>3 DEF CreateDepartmentCheck, DepartmentBody, Body, ItemsFit
    <2>2. NameFree(d, Put(p.home, home[d]), p.name, Rows \ {d})
      BY <1>3, NotNamed DEF CreateDepartmentCheck, Rows
    <2>3. QED
      BY <1>3, <2>1, <2>2, Creation, TablesAssumption DEF CreateDepartmentCheck, Rows
  <1>4. ASSUME NEW g \in Designations, CreateDesignationCheck(q, g, p)
        PROVE  OpenedWell(q)
    <2>1. ItemsFit({g}, p.items) /\ p.post = None /\ p.items = Omitted
      BY <1>4 DEF CreateDesignationCheck, DesignationBody, Body, ItemsFit
    <2>2. NameFree(g, Put(p.home, home[g]), p.name, Rows \ {g})
      BY <1>4, NotNamed DEF CreateDesignationCheck, Put, Rows
    <2>3. QED
      BY <1>4, <2>1, <2>2, Creation, TablesAssumption DEF CreateDesignationCheck, Rows
  <1>5. QED
    BY <1>1, <1>2, <1>3, <1>4
\* A live row is changed: what is named, placed or linked has been checked.
LEMMA Change ==
    ASSUME IInv, NEW q \in Requests, NEW v \in Rows, Live(v),
           NEW w \in Fields, w.life = None,
           w.name # None => NameFree(v, Put(w.home, home[v]), w.name, Rows \ {v}),
           w.post # None => There(w.post),
           v \in Users \ crossed => Placed(v, w),
           NEW items \in (SUBSET Items) \cup {Omitted}, ItemsFit({v}, items),
           NEW cleared, cleared = IF items = Omitted THEN {} ELSE LinksOf(v),
           Open(q, {v}, w, items, cleared)
    PROVE  OpenedWell(q)
  <1>1. cleared \in SUBSET links /\ \A e \in cleared : {v} = {e[1]}
    BY DEF LinksOf
  <1>2. Justified({v}, w, items, cleared)
    BY <1>1, DirectoryAssumption DEF Justified
  <1>3. QED
    BY <1>1, <1>2 DEF OpenedWell

LEMMA ChangesAre ==
    ASSUME IInv, NEW v \in Rows, NEW p, p \in Payload
    PROVE  /\ Changes(v, p) \in Fields /\ Changes(v, p).life = None
           /\ Changes(v, p).name = Diff(p.name, name[v])
           /\ Changes(v, p).home = Diff(p.home, home[v])
           /\ Changes(v, p).post = Diff(p.post, post[v])
  <1>1. /\ Diff(p.name, name[v]) \in Names \cup {None}
        /\ Diff(p.home, home[v]) \in Departments \cup {None}
        /\ Diff(p.post, post[v]) \in Designations \cup {None}
    BY DEF Payload, Diff
  <1>2. Diff(p.active, active[v]) \in BOOLEAN \cup {None}
    <2>1. p.active \in BOOLEAN \cup {None}
      BY DEF Payload
    <2>2. QED
      BY <2>1, Zenon DEF Diff
  <1>3. QED
    BY <1>1, <1>2 DEF Changes, Fields

\* A new name is free, and a row that keeps its name needs none.
LEMMA Renaming ==
    ASSUME NEW v \in Rows, NEW n, NEW d, Diff(n, name[v]) # None,
           \/ v \in Users /\ MayRename(Users, v, n)
           \/ v \in Roles /\ MayRename(Roles, v, n)
           \/ v \in Departments /\ MayRename(Departments, v, n)
           \/ v \in Designations /\ MayRename(InDepartment(d), v, n)
    PROVE  NameFree(v, d, Diff(n, name[v]), Rows \ {v})
  BY NotNamed DEF MayRename, Diff

\* A user is placed in the department of its designation, or left where it is.
LEMMA PlacedByPayload ==
    ASSUME IInv, NEW u \in Users, NEW p \in Payloads
    PROVE  /\ PlacedBy(u, p).home \in Departments \cup {None}
           /\ PlacedBy(u, p).post \in Designations \cup {None}
  BY PayloadsAre DEF PlacedBy, IInv, TypeOK, Rows

LEMMA Placing ==
    ASSUME IInv, NEW u \in Users, NEW p \in Payloads, MayPlace(u, p),
           NEW w, w.home = Diff(PlacedBy(u, p).home, home[u]),
           w.post = Diff(PlacedBy(u, p).post, post[u])
    PROVE  /\ w.post # None => There(w.post)
           /\ u \notin crossed => Placed(u, w)
  <1> DEFINE at == PlacedBy(u, p)
  <1>1. CASE p.home = None /\ p.post = None
    <2>1. w.home = None /\ w.post = None
      BY <1>1 DEF PlacedBy, Diff
    <2>2. u \notin crossed => Placed(u, w)
      BY <2>1 DEF IInv, PlacesAgree, Placed, Put
    <2>3. QED
      BY <2>1, <2>2
  <1>2. CASE p.home # None \/ p.post # None
    <2>1. /\ at.home # None /\ at.post # None /\ Live(at.post)
          /\ home[at.post] = at.home
      BY <1>2 DEF MayPlace
    <2>2. Put(w.post, post[u]) = at.post /\ Put(w.home, home[u]) = at.home
      BY <2>1 DEF Put, Diff
    <2>3. w.post # None => There(w.post)
      BY <2>1, LiveIsThere DEF Diff
    <2>4. QED
      BY <2>1, <2>2, <2>3 DEF Placed
  <1>3. QED
    BY <1>1, <1>2

LEMMA Updates ==
    ASSUME IInv, NEW q \in Requests, NEW p \in Payloads,
           \/ \E u \in Users : UpdateUserCheck(q, u, p)
           \/ \E r \in Roles : UpdateRoleCheck(q, r, p)
           \/ \E d \in Departments : UpdateDepartmentCheck(q, d, p)
           \/ \E g \in Designations : UpdateDesignationCheck(q, g, p)
    PROVE  OpenedWell(q)
  <1>1. ASSUME NEW u \in Users, UpdateUserCheck(q, u, p)
        PROVE  OpenedWell(q)
    <2> DEFINE at == PlacedBy(u, p)
               new == [p EXCEPT !.home = at.home, !.post = at.post]
               w == Changes(u, new)
    <2>1. u \in Rows /\ Live(u) /\ MayPlace(u, p) /\ Open(q, {u}, w, p.items, ClearedForUser(u, p))
      BY <1>1 DEF UpdateUserCheck, Rows
    <2>2. at.home \in Departments \cup {None} /\ at.post \in Designations \cup {None}
      BY PlacedByPayload
    <2>3. new \in Payload /\ new.name = p.name /\ new.home = at.home /\ new.post = at.post
      BY <2>2, PayloadsAre DEF Payload
    <2> HIDE DEF new
    <2>4. /\ w \in Fields /\ w.life = None /\ w.name = Diff(p.name, name[u])
          /\ w.home = Diff(at.home, home[u]) /\ w.post = Diff(at.post, post[u])
      BY <2>1, <2>3, ChangesAre
    <2>5. (w.post # None => There(w.post)) /\ (u \notin crossed => Placed(u, w))
      BY <2>1, <2>4, Placing
    <2>6. w.name # None => NameFree(u, Put(w.home, home[u]), w.name, Rows \ {u})
      BY <1>1, <2>1, <2>4, Renaming DEF UpdateUserCheck
    <2>7. ItemsFit({u}, p.items) /\ p.items \in (SUBSET Items) \cup {Omitted}
      BY <1>1, RolesAcceptedAre, PayloadsAre DEF UpdateUserCheck, ItemsFit
    <2>8. QED
      BY <2>1, <2>4, <2>5, <2>6, <2>7, Change DEF ClearedForUser
  <1>2. ASSUME NEW r \in Roles, UpdateRoleCheck(q, r, p)
        PROVE  OpenedWell(q)
    <2> DEFINE w == [NoFields EXCEPT !.name = Diff(p.name, name[r])]
    <2>1. r \in Rows \ Users /\ Live(r)
      BY <1>2, TablesAssumption DEF UpdateRoleCheck, MayModify, Rows
    <2>2. Diff(p.name, name[r]) \in Names \cup {None}
      BY PayloadsAre DEF Diff
    <2>3. /\ w \in Fields /\ w.life = None /\ w.name = Diff(p.name, name[r])
          /\ w.home = None /\ w.post = None
      BY <2>2 DEF NoFields, Fields
    <2>4. w.name # None => NameFree(r, Put(w.home, home[r]), w.name, Rows \ {r})
      BY <1>2, <2>1, <2>3, Renaming DEF UpdateRoleCheck
    <2>5. ItemsFit({r}, p.items) /\ p.items \in (SUBSET Items) \cup {Omitted}
      BY <1>2, PayloadsAre DEF UpdateRoleCheck, RoleBody, ItemsFit
    <2>6. QED
      BY <1>2, <2>1, <2>3, <2>4, <2>5, Change DEF UpdateRoleCheck
  <1>3. ASSUME NEW d \in Departments, UpdateDepartmentCheck(q, d, p)
        PROVE  OpenedWell(q)
    <2> DEFINE new == [p EXCEPT !.home = home[d], !.post = post[d]]
               w == Changes(d, new)
    <2>1. /\ d \in Rows \ Users /\ Live(d) /\ MayRename(Departments, d, p.name)
          /\ Open(q, {d}, w, Omitted, {})
      BY <1>3, TablesAssumption DEF UpdateDepartmentCheck, Rows
    <2>2. new \in Payload /\ new.name = p.name /\ new.home = home[d] /\ new.post = post[d]
      BY <2>1, PayloadsAre DEF Payload, IInv, TypeOK
    <2> HIDE DEF new
    <2>3. /\ w \in Fields /\ w.life = None /\ w.name = Diff(p.name, name[d])
          /\ w.post = None
      BY <2>1, <2>2, ChangesAre DEF Diff
    <2>4. w.name # None => NameFree(d, Put(w.home, home[d]), w.name, Rows \ {d})
      BY <2>1, <2>3, Renaming
    <2>5. QED
      BY <2>1, <2>3, <2>4, Change DEF ItemsFit
  <1>4. ASSUME NEW g \in Designations, UpdateDesignationCheck(q, g, p)
        PROVE  OpenedWell(q)
    <2> DEFINE d == IF p.home = None THEN home[g] ELSE p.home
               new == [p EXCEPT !.home = d, !.post = post[g]]
               w == Changes(g, new)
    <2>1. /\ g \in Rows \ Users /\ Live(g) /\ MayRename(InDepartment(d), g, p.name)
          /\ Open(q, {g}, w, Omitted, {})
      BY <1>4, TablesAssumption DEF UpdateDesignationCheck, Rows
    <2>2. new \in Payload /\ new.name = p.name /\ new.home = d /\ new.post = post[g]
      BY <2>1, PayloadsAre DEF Payload, IInv, TypeOK
    <2> HIDE DEF new
    <2>3. /\ w \in Fields /\ w.life = None /\ w.name = Diff(p.name, name[g])
          /\ w.home = Diff(d, home[g]) /\ w.post = None
      BY <2>1, <2>2, ChangesAre DEF Diff
    <2>4. Put(w.home, home[g]) = d
      BY <2>3 DEF Put, Diff
    <2>5. w.name # None => NameFree(g, Put(w.home, home[g]), w.name, Rows \ {g})
      BY <2>1, <2>3, <2>4, Renaming
    <2>6. QED
      BY <2>1, <2>3, <2>5, Change DEF ItemsFit
  <1>5. QED
    BY <1>1, <1>2, <1>3, <1>4
LEMMA HandlersOpenWell ==
    ASSUME IInv, NEW q \in Requests, UsersNext(q) \/ RolesNext(q) \/ PlacesNext(q)
    PROVE  OpenedWell(q)
  <1>1. CASE UsersNext(q)
    BY <1>1, Creations, Updates, Deletions DEF UsersNext
  <1>2. CASE RolesNext(q)
    BY <1>2, Creations, Updates, Deletions, Assignments DEF RolesNext
  <1>3. CASE PlacesNext(q)
    BY <1>3, Creations, Updates, Deletions DEF PlacesNext
  <1>4. QED
    BY <1>1, <1>2, <1>3

----------------------------------------------------------------------------
(* The steps *)

\* A request that opens changes nothing but its own entry.
LEMMA OpenStep ==
    ASSUME IInv, NEW q \in Requests, OpenedWell(q)
    PROVE  IInv'
  <1>1. PICK R \in SUBSET Rows, w \in Fields, items \in (SUBSET Items) \cup {Omitted},
             cleared \in SUBSET links :
            Open(q, R, w, items, cleared) /\ Justified(R, w, items, cleared)
    BY DEF OpenedWell
  <1>2. /\ UNCHANGED <<life, name, active, home, post, links, log>>
        /\ UNCHANGED <<saw, crossed, moved, renamed, want>>
        /\ opened \in Nat /\ opened' = opened + 1
    BY <1>1 DEF Open, tables, history, IInv, TypeOK
  <1> DEFINE seen == {v \in Rows : Live(v)} \ R
             mine == [rows |-> R, write |-> w, items |-> items, cleared |-> cleared,
                      seen |-> seen]
  <1>3. req' = [req EXCEPT ![q] = mine]
    BY <1>1 DEF Open
  <1>4. req \in [Requests -> RequestType] /\ links \subseteq Pairs
    BY DEF IInv, TypeOK
  <1>5. req'[q] = mine /\ \A p \in Requests \ {q} : req'[p] = req[p]
    BY <1>3, <1>4
  <1>6. TypeOK'
    <2>1. mine \in RequestType
      BY <1>4 DEF RequestType
    <2>2. req' \in [Requests -> RequestType]
      BY <1>3, <1>4, <2>1
    <2>3. QED
      BY <1>2, <2>2 DEF IInv, TypeOK
  <1>7. /\ mine.rows = R /\ mine.write = w /\ mine.items = items
        /\ mine.cleared = cleared /\ mine.seen = seen
    OBVIOUS
  <1> HIDE DEF mine
  <1>8. EndsAreThere'
    BY <1>1, <1>2, <1>5, <1>7 DEF IInv, EndsAreThere, There, Justified
  <1>9. DeletionsAreLogged' /\ CheckedNamesDiffer' /\ PlacesAgree' /\ LinksAreReplaced'
    BY <1>2
    DEF IInv, DeletionsAreLogged, CheckedNamesDiffer, Rivals, Live, PlacesAgree,
        LinksAreReplaced, LinksOf
  <1>10. RequestsFit'
    <2>1. \A p \in Requests \ {q} :
            /\ req'[p].write.life = "live" => req'[p].write.name # None
            /\ \A v \in req'[p].rows : There(v)' \/ req'[p].write.life = "live"
            /\ \A e \in req'[p].cleared : req'[p].rows = {e[1]}
            /\ ItemsFit(req'[p].rows, req'[p].items)
            /\ req'[p].seen \cap req'[p].rows = {}
      BY <1>2, <1>5 DEF IInv, RequestsFit, There
    <2>2. /\ w.life = "live" => w.name # None
          /\ \A v \in R : There(v)' \/ w.life = "live"
          /\ \A e \in cleared : R = {e[1]}
          /\ ItemsFit(R, items)
          /\ seen \cap R = {}
      BY <1>1, <1>2, LiveIsThere DEF Justified, There
    <2>3. QED
      BY <1>5, <1>7, <2>1, <2>2 DEF RequestsFit, ItemsFit
  <1>11. NamesFree'
    <2>1. \A v \in R : w.name # None => NameFree(v, Put(w.home, home[v]), w.name, seen)
      BY <1>1 DEF Justified, NameFree
    <2>2. QED
      BY <1>2, <1>5, <1>7, <2>1 DEF IInv, NamesFree, NameFree, Live
  <1>12. PlacesFit'
    BY <1>1, <1>2, <1>5, <1>7 DEF IInv, PlacesFit, Placed, Justified
  <1>13. LinksSeen'
    BY <1>1, <1>2, <1>5, <1>7 DEF IInv, LinksSeen, LinksOf, Justified
  <1>14. RolesStand'
    BY <1>1, <1>2, <1>5, <1>7 DEF IInv, RolesStand, RoleNamed, There, Justified
  <1>15. QED
    BY <1>6, <1>8, <1>9, <1>10, <1>11, <1>12, <1>13, <1>14 DEF IInv

\* A request that is rolled back leaves no trace.
LEMMA AbortStep ==
    ASSUME IInv, NEW q \in Requests, Abort(q)
    PROVE  IInv'
  <1>1. /\ UNCHANGED <<life, name, active, home, post, links, log, opened>>
        /\ UNCHANGED <<saw, crossed, moved, want>> /\ renamed' = renamed \ {q}
        /\ req' = [req EXCEPT ![q] = Idle]
    BY DEF Abort, tables, history
  <1>2. TypeOK'
    BY <1>1, IdleIsRequest DEF IInv, TypeOK
  <1>3. req'[q] = Idle /\ \A p \in Requests \ {q} : req'[p] = req[p]
    BY <1>1 DEF IInv, TypeOK
  <1>4. EndsAreThere'
    BY <1>1, <1>3, IdleIsRequest DEF IInv, EndsAreThere, There
  <1>5. DeletionsAreLogged' /\ CheckedNamesDiffer' /\ PlacesAgree' /\ LinksAreReplaced'
    BY <1>1
    DEF IInv, DeletionsAreLogged, CheckedNamesDiffer, Rivals, Live, PlacesAgree,
        LinksAreReplaced, LinksOf
  <1>6. RequestsFit'
    BY <1>1, <1>3, IdleIsRequest, DirectoryAssumption DEF IInv, RequestsFit, There, ItemsFit
  <1>7. NamesFree' /\ PlacesFit' /\ LinksSeen' /\ RolesStand'
    BY <1>1, <1>3, IdleIsRequest
    DEF IInv, NamesFree, NameFree, Live, PlacesFit, Placed, LinksSeen, LinksOf, RolesStand,
        RoleNamed, There
  <1>8. QED
    BY <1>2, <1>4, <1>5, <1>6, <1>7 DEF IInv
----------------------------------------------------------------------------
(* What a commit does to each row and to each of the other requests *)

LEMMA CommitWrites ==
    ASSUME IInv, NEW q \in Requests, Commit(q)
    PROVE  /\ \A v \in req[q].rows :
                /\ life'[v] = Put(req[q].write.life, life[v])
                /\ name'[v] = Put(req[q].write.name, name[v])
                /\ home'[v] = Put(req[q].write.home, home[v])
                /\ post'[v] = Put(req[q].write.post, post[v])
           /\ \A v \in Rows \ req[q].rows :
                /\ life'[v] = life[v] /\ name'[v] = name[v]
                /\ home'[v] = home[v] /\ post'[v] = post[v] /\ active'[v] = active[v]
           /\ req[q] \in RequestType
           /\ req[q].rows \subseteq Rows /\ req[q].write \in Fields
  <1>1. req[q] \in RequestType /\ req[q].rows \subseteq Rows /\ req[q].write \in Fields
    BY DEF IInv, TypeOK, RequestType
  <1>2. QED
    BY <1>1 DEF Commit

\* Rows that are there stay there, and inserted ones are there from now on.
LEMMA CommitLeavesRows ==
    ASSUME IInv, NEW q \in Requests, Commit(q)
    PROVE  /\ \A v \in Rows : There(v) \/ v \in req[q].rows => There(v)'
           /\ \A v \in Rows \ Claims(q) : name'[v] = name[v] /\ (Live(v)' => Live(v))
           /\ \A v \in Designations \ Moves(q) : home'[v] = home[v]
           /\ \A v \in Designations : There(v) => home'[v] = home[v] \/ v \in moved'
  <1>1. req[q].write.life \in {"live", "deleted", None}
    BY CommitWrites DEF Fields
  <1>2. ASSUME NEW v \in req[q].rows PROVE There(v)'
    BY <1>1, <1>2, CommitWrites, DirectoryAssumption DEF IInv, RequestsFit, There, Put
  <1>3. \A v \in Rows : There(v) => There(v)'
    BY <1>2, CommitWrites DEF There
  <1>4. ASSUME NEW v \in Rows \ Claims(q) PROVE name'[v] = name[v] /\ (Live(v)' => Live(v))
    BY <1>4, CommitWrites DEF IInv, RequestsFit, Claims, Put, Live
  <1>5. \A v \in Designations \ Moves(q) : home'[v] = home[v]
    BY CommitWrites DEF Moves, Put, Rows
  <1>6. \A v \in Designations : There(v) => home'[v] = home[v] \/ v \in moved'
    BY <1>5 DEF Commit, There
  <1>7. QED
    BY <1>2, <1>3, <1>4, <1>5, <1>6

LEMMA CommitOutdates ==
    ASSUME IInv, NEW q \in Requests, Commit(q)
    PROVE  /\ req'[q] = Idle
           /\ \A p \in Requests \ {q} :
                /\ req'[p] \in RequestType
                /\ req'[p].rows = req[p].rows /\ req'[p].write = req[p].write
                /\ req'[p].items = req[p].items
                /\ req'[p].cleared = req[p].cleared \ req[q].cleared
                /\ req'[p].seen \subseteq req[p].seen \ (Claims(q) \cup Moves(q))
                /\ Moves(q) \cap req[p].rows # {} => req'[p].seen = {}
  <1>1. req' = [p \in Requests |-> IF p = q THEN Idle ELSE Outdate(q, p)]
    BY DEF Commit
  <1>2. ASSUME NEW p \in Requests
        PROVE  /\ Outdate(q, p) \in RequestType
               /\ Outdate(q, p).rows = req[p].rows /\ Outdate(q, p).write = req[p].write
               /\ Outdate(q, p).items = req[p].items
               /\ Outdate(q, p).cleared = req[p].cleared \ req[q].cleared
               /\ Outdate(q, p).seen \subseteq req[p].seen \ (Claims(q) \cup Moves(q))
               /\ Moves(q) \cap req[p].rows # {} => Outdate(q, p).seen = {}
    <2>1. req[p] \in RequestType
      BY DEF IInv, TypeOK
    <2>2. QED
      BY <2>1 DEF Outdate, RequestType
  <1>3. QED
    BY <1>1, <1>2
\* What is looked up is there, and fits.
LEMMA FoundFits ==
    ASSUME IInv, NEW q \in Requests, req[q].items # Omitted
    PROVE  /\ req[q].rows \X Found(q) \subseteq Pairs
           /\ \A r \in Found(q) \cap Roles : There(r)
  <1>1. \/ req[q].rows \subseteq Users /\ req[q].items \subseteq Names \cup Roles
        \/ req[q].rows \subseteq Roles /\ req[q].items \subseteq Permissions
    BY DEF IInv, RequestsFit, ItemsFit
  <1>2. \A x \in Names \cup Roles : Lookup(x) \subseteq {r \in Roles : There(r)}
    BY LiveIsThere DEF Lookup, There
  <1>3. \A x \in Permissions : Lookup(x) = {x} /\ x \notin Roles
    BY TablesAssumption DEF Lookup, Rows
  <1>4. QED
    BY <1>1, <1>2, <1>3 DEF Found, Pairs

LEMMA CommitTypes ==
    ASSUME IInv, NEW q \in Requests, Commit(q)
    PROVE  TypeOK'
  <1> DEFINE w == req[q].write
  <1>1. TypeOK /\ req[q] \in RequestType
    BY CommitWrites DEF IInv
  <1>2. /\ w.life \in {"live", "deleted", None} /\ w.name \in Names \cup {None}
        /\ w.active \in BOOLEAN \cup {None}
        /\ w.home \in Departments \cup {None} /\ w.post \in Designations \cup {None}
    BY <1>1 DEF RequestType, Fields
  <1>3. life' \in [Rows -> {"absent", "live", "deleted"}]
    BY <1>1, <1>2 DEF Commit, TypeOK, Put
  <1>4. /\ name' \in [Rows -> Names \cup {None}]
        /\ home' \in [Rows -> Departments \cup {None}]
        /\ post' \in [Rows -> Designations \cup {None}]
    BY <1>1, <1>2 DEF Commit, TypeOK, Put
  <1>5. active' \in [Rows -> BOOLEAN]
    <2>1. \A v \in Rows : active[v] \in BOOLEAN /\ Put(w.active, active[v]) \in BOOLEAN
      BY <1>1, <1>2, BooleansPut DEF TypeOK
    <2>2. active' = [v \in Rows |-> IF v \in req[q].rows THEN Put(w.active, active[v])
                                                        ELSE active[v]]
      BY DEF Commit
    <2>3. QED
      BY <2>1, <2>2, Zenon
  <1>6. Added(q) \subseteq Pairs /\ Found(q) \subseteq Roles \cup Permissions
    <2>1. CASE req[q].items = Omitted
      BY <2>1 DEF Added, Found
    <2>2. CASE req[q].items # Omitted
      <3>1. \A x : Lookup(x) \subseteq Roles \cup {x}
        BY DEF Lookup
      <3>2. req[q].items \subseteq Items /\ \A x \in Names : Lookup(x) \subseteq Roles
        BY <1>1, <2>2 DEF RequestType, Lookup
      <3>3. QED
        BY <2>2, <3>1, <3>2, FoundFits DEF Added, Found, Items
    <2>3. QED
      BY <2>1, <2>2
  <1>7. links' \in SUBSET Pairs /\ log' \in SUBSET Rows
    BY <1>1, <1>6, CommitWrites DEF Commit, Logged, TypeOK
  <1>8. req' \in [Requests -> RequestType]
    <2>1. \A p \in Requests : req'[p] \in RequestType
      BY CommitOutdates, IdleIsRequest
    <2>2. req' = [p \in Requests |-> IF p = q THEN Idle ELSE Outdate(q, p)]
      BY DEF Commit
    <2>3. QED
      BY <2>1, <2>2
  <1>9. /\ saw' \in [Rows -> SUBSET Rows] /\ opened' \in Nat
        /\ crossed' \in SUBSET Rows /\ moved' \in SUBSET Rows /\ renamed' \in SUBSET Requests
    BY <1>1, CommitWrites DEF Commit, TypeOK, RequestType, Claims, Moves
  <1>10. want' \in [Rows -> SUBSET (Roles \cup Permissions)]
    BY <1>1, <1>6 DEF Commit, TypeOK
  <1>11. QED
    BY <1>3, <1>4, <1>5, <1>7, <1>8, <1>9, <1>10 DEF TypeOK
\* New links run between rows that are there, and so do the new posts.
LEMMA CommitEnds ==
    ASSUME IInv, NEW q \in Requests, Commit(q)
    PROVE  EndsAreThere' /\ DeletionsAreLogged' /\ RequestsFit'
  <1> DEFINE w == req[q].write
  <1>1. \A e \in links' : e \in links \/ e \in Added(q)
    BY DEF Commit
  <1>2. ASSUME NEW e \in Added(q)
        PROVE  There(e[1])' /\ (e[2] \in Roles => There(e[2])')
    <2>1. req[q].items # Omitted /\ e[1] \in req[q].rows /\ e[2] \in Found(q)
      BY DEF Added, Found
    <2>2. QED
      BY <2>1, FoundFits, CommitWrites, CommitLeavesRows DEF Rows
  <1>3. ASSUME NEW e \in links
        PROVE  There(e[1])' /\ (e[2] \in Roles => There(e[2])')
    BY CommitLeavesRows DEF IInv, EndsAreThere, TypeOK, Pairs, Rows
  <1>4. \A g \in Rows : There(g) => life'[g] # "absent"
    BY CommitLeavesRows DEF There
  <1>5. \A v \in Rows : post'[v] # None => life'[post'[v]] # "absent"
    <2>1. \A v \in Rows : post'[v] = post[v] \/ (post'[v] = w.post /\ w.post # None)
      BY CommitWrites DEF Put
    <2>2. \A v \in Rows : post[v] \in Rows \cup {None} /\ w.post \in Rows \cup {None}
      BY CommitWrites DEF IInv, TypeOK, Fields, Rows
    <2>3. QED
      BY <1>4, <2>1, <2>2 DEF IInv, EndsAreThere
  <1>6. \A p \in Requests : req'[p].write.post # None => life'[req'[p].write.post] # "absent"
    <2>1. \A p \in Requests : req[p].write.post \in Rows \cup {None}
      BY DEF IInv, TypeOK, RequestType, Fields, Rows
    <2>2. QED
      BY <1>4, <2>1, CommitOutdates, IdleIsRequest DEF IInv, EndsAreThere
  <1>7. EndsAreThere'
    BY <1>1, <1>2, <1>3, <1>5, <1>6 DEF EndsAreThere, There
  <1>8. DeletionsAreLogged'
    <2>1. \A v \in Rows : life'[v] = "deleted" => life[v] = "deleted" \/ v \in Logged(q)
      BY CommitWrites DEF Logged, Put
    <2>2. log' = log \cup Logged(q)
      BY DEF Commit
    <2>3. QED
      BY <2>1, <2>2 DEF IInv, DeletionsAreLogged
  <1>9. RequestsFit'
    <2>1. \A p \in Requests : req[p].rows \subseteq Rows
      BY DEF IInv, TypeOK, RequestType
    <2>2. ASSUME NEW p \in Requests \ {q}
          PROVE  /\ req'[p].write.life = "live" => req'[p].write.name # None
                 /\ \A v \in req'[p].rows : There(v)' \/ req'[p].write.life = "live"
                 /\ \A e \in req'[p].cleared : req'[p].rows = {e[1]}
                 /\ ItemsFit(req'[p].rows, req'[p].items)
                 /\ req'[p].seen \cap req'[p].rows = {}
      BY <2>1, CommitOutdates, CommitLeavesRows DEF IInv, RequestsFit
    <2>3. QED
      BY <2>2, CommitOutdates, IdleIsRequest, DirectoryAssumption DEF RequestsFit, ItemsFit
  <1>10. QED
    BY <1>7, <1>8, <1>9

\* Whoever still counts as seen has neither changed its name nor moved.
LEMMA CommitNames ==
    ASSUME IInv, NEW q \in Requests, Commit(q)
    PROVE  CheckedNamesDiffer' /\ NamesFree'
  <1> DEFINE w == req[q].write
             Changed == Claims(q) \cup Moves(q)
  <1>1. \A v \in Rows \ Changed :
            /\ name'[v] = name[v] /\ (Live(v)' => Live(v))
            /\ v \in Designations => home'[v] = home[v]
    BY CommitLeavesRows
  <1>2. /\ \A v \in Rows : saw[v] \subseteq Rows
        /\ \A p \in Requests : req[p].seen \subseteq Rows /\ req[p].rows \subseteq Rows
    BY DEF IInv, TypeOK, RequestType
  <1>3. saw' = [v \in Rows |-> IF v \in Claims(q) THEN req[q].seen
                              ELSE IF v \in Moves(q) THEN {}
                              ELSE saw[v] \ Changed]
    BY DEF Commit
  <1>4. ASSUME NEW v \in Rows, NEW x \in saw'[v], Rivals(v, x)', Live(v)', Live(x)'
        PROVE  name'[v] # name'[x]
    <2>1. CASE v \in Claims(q)
      <3>1. /\ v \in req[q].rows /\ w.name # None /\ x \in req[q].seen /\ x \in Rows
            /\ x \notin req[q].rows
        BY <1>2, <1>3, <1>4, <2>1 DEF Claims, IInv, RequestsFit
      <3>2. /\ name'[v] = w.name /\ home'[v] = Put(w.home, home[v])
            /\ name'[x] = name[x] /\ home'[x] = home[x] /\ Live(x)
        BY <1>4, <3>1, CommitWrites DEF Put, Live
      <3>3. NameFree(v, Put(w.home, home[v]), w.name, req[q].seen)
        BY <3>1 DEF IInv, NamesFree
      <3>4. QED
        BY <1>4, <3>1, <3>2, <3>3 DEF NameFree, Rivals
    <2>2. CASE v \notin Claims(q)
      <3>1. v \notin Changed /\ x \in saw[v] /\ x \in Rows \ Changed
        BY <1>2, <1>3, <1>4, <2>2
      <3>2. /\ SameTable(v, x) /\ v # x /\ Live(v) /\ Live(x)
            /\ name'[v] = name[v] /\ name'[x] = name[x]
            /\ v \in Designations => home[v] = home[x]
        BY <1>1, <1>4, <3>1, SameTableAs DEF Rivals
      <3>3. QED
        BY <3>1, <3>2 DEF IInv, CheckedNamesDiffer, Rivals
    <2>3. QED
      BY <2>1, <2>2
  <1>5. CheckedNamesDiffer'
    BY <1>4 DEF CheckedNamesDiffer
  <1>6. ASSUME NEW p \in Requests \ {q}, req'[p].write.name # None, NEW v \in req'[p].rows,
               NEW x \in req'[p].seen, SameTable(v, x), Live(x)',
               v \in Designations => home'[x] = Put(req[p].write.home, home'[v])
        PROVE  name'[x] # req[p].write.name
    <2>1. /\ v \in req[p].rows /\ req[p].write.name # None /\ x \in req[p].seen
          /\ v \in Rows /\ x \in Rows \ Changed /\ v \notin Moves(q)
      BY <1>2, <1>6, CommitOutdates
    <2>2. /\ Live(x) /\ name'[x] = name[x]
          /\ v \in Designations => home[x] = Put(req[p].write.home, home[v])
      BY <1>1, <1>6, <2>1, SameTableAs, CommitLeavesRows
    <2>3. QED
      BY <1>6, <2>1, <2>2 DEF IInv, NamesFree, NameFree
  <1>7. NamesFree'
    BY <1>6, CommitOutdates, IdleIsRequest DEF NamesFree, NameFree
  <1>8. QED
    BY <1>5, <1>7
\* A designation leaves its department only to count as moved, and a user that is
\* written while another request has it in hand is crossed.
LEMMA CommitPlaces ==
    ASSUME IInv, NEW q \in Requests, Commit(q)
    PROVE  PlacesAgree' /\ PlacesFit'
  <1> DEFINE w == req[q].write
  <1>1. /\ \A u \in Users : u \in Rows /\ home[u] \in Departments \cup {None}
        /\ \A v \in Rows : post[v] \in Designations \cup {None}
        /\ \A p \in Requests : req[p].write.post \in Designations \cup {None}
    BY DEF IInv, TypeOK, RequestType, Fields, Rows
  <1>2. moved \subseteq moved' /\ crossed \subseteq crossed'
    BY DEF Commit
  <1>3. \A g \in Designations : There(g) => home'[g] = home[g] \/ g \in moved'
    BY CommitLeavesRows
  <1>4. ASSUME NEW u \in Users \ crossed', post'[u] # None, post'[u] \notin moved'
        PROVE  home'[post'[u]] = home'[u]
    <2>1. CASE u \in req[q].rows
      <3>1. post'[u] = Put(w.post, post[u]) /\ home'[u] = Put(w.home, home[u])
        BY <2>1, CommitWrites
      <3>2. post'[u] \in Designations /\ There(Put(w.post, post[u]))
        BY <1>1, <1>4, <3>1 DEF Put, IInv, EndsAreThere
      <3>3. Placed(u, w)
        BY <1>2, <2>1 DEF IInv, PlacesFit
      <3>4. home[Put(w.post, post[u])] = Put(w.home, home[u])
        BY <1>2, <1>4, <3>1, <3>3 DEF Placed
      <3>5. QED
        BY <1>3, <1>4, <3>1, <3>2, <3>4
    <2>2. CASE u \notin req[q].rows
      <3>1. post'[u] = post[u] /\ home'[u] = home[u]
        BY <1>1, <2>2, CommitWrites
      <3>2. post[u] \in Designations /\ There(post[u])
        BY <1>1, <1>4, <3>1 DEF IInv, EndsAreThere
      <3>3. home[post[u]] = home[u]
        BY <1>2, <1>4, <3>1 DEF IInv, PlacesAgree
      <3>4. QED
        BY <1>3, <1>4, <3>1, <3>2, <3>3
    <2>3. QED
      BY <2>1, <2>2
  <1>5. PlacesAgree'
    BY <1>4 DEF PlacesAgree
  <1>6. ASSUME NEW p \in Requests \ {q}, NEW u \in (req[p].rows \cap Users) \ crossed'
        PROVE  Placed(u, req[p].write)'
    <2> DEFINE g == Put(req[p].write.post, post[u])
               h == Put(req[p].write.home, home[u])
    <2>1. u \notin req[q].rows
      BY <1>1, <1>6 DEF Commit
    <2>2. post'[u] = post[u] /\ home'[u] = home[u] /\ req'[p].write = req[p].write
      BY <1>1, <2>1, CommitWrites, CommitOutdates
    <2>3. g = None \/ g \in moved \/ home[g] = h
      BY <1>2, <1>6 DEF IInv, PlacesFit, Placed
    <2>4. g # None => g \in Designations /\ There(g)
      BY <1>1 DEF Put, IInv, EndsAreThere
    <2>5. g = None \/ g \in moved' \/ home'[g] = h
      BY <1>2, <1>3, <2>3, <2>4
    <2>6. QED
      BY <2>2, <2>5 DEF Placed, Put
  <1>7. PlacesFit'
    <2>1. \A p \in Requests \ {q} : req'[p].rows = req[p].rows
      BY CommitOutdates
    <2>2. req'[q].rows = {}
      BY CommitOutdates, IdleIsRequest
    <2>3. QED
      BY <1>6, <2>1, <2>2 DEF PlacesFit
  <1>8. QED
    BY <1>5, <1>7

\* Links come and go only at the rows of the request.
LEMMA CommitKeepsLinks ==
    ASSUME IInv, NEW q \in Requests, Commit(q), NEW v, v \notin req[q].rows
    PROVE  LinksOf(v)' = LinksOf(v) /\ LinksOf(v) \cap req[q].cleared = {}
  <1>1. \A e \in req[q].cleared \cup Added(q) : e[1] \in req[q].rows
    BY DEF IInv, RequestsFit, Added
  <1>2. links' = (links \ req[q].cleared) \cup Added(q)
    BY DEF Commit
  <1>3. QED
    BY <1>1, <1>2 DEF LinksOf

LEMMA CommitLinks ==
    ASSUME IInv, NEW q \in Requests, Commit(q)
    PROVE  LinksAreReplaced' /\ LinksSeen'
  <1> DEFINE R == req[q].rows
             ends(v) == {e[2] : e \in LinksOf(v)}
  <1>1. links' = (links \ req[q].cleared) \cup Added(q) /\ crossed \subseteq crossed'
    BY DEF Commit
  <1>2. \A v \in Rows : want'[v] =
            IF v \notin R THEN want[v]
            ELSE IF req[q].items = Omitted THEN want[v] \ {e[2] : e \in req[q].cleared}
            ELSE Found(q)
    BY DEF Commit
  <1>3. \A e \in req[q].cleared : R = {e[1]}
    BY DEF IInv, RequestsFit
  <1>4. ASSUME NEW v \in (Users \cup Roles) \ crossed'
        PROVE  {e[2] : e \in LinksOf(v)'} = want'[v]
    <2>1. v \in Rows /\ ends(v) = want[v]
      BY <1>1 DEF IInv, LinksAreReplaced, Rows
    <2>2. CASE v \notin R
      BY <1>2, <2>1, <2>2, CommitKeepsLinks
    <2>3. CASE v \in R /\ req[q].items = Omitted
      <3>1. LinksOf(v)' = LinksOf(v) \ req[q].cleared
        BY <1>1, <2>3 DEF LinksOf, Added, Found
      <3>2. \A e \in req[q].cleared : e[1] = v
        BY <1>3, <2>3
      <3>3. \A e, f \in links \cup req[q].cleared : e[1] = f[1] /\ e[2] = f[2] => e = f
        BY SMTT(40) DEF IInv, TypeOK, RequestType, Pairs
      <3>4. ASSUME NEW x
            PROVE  x \in {e[2] : e \in LinksOf(v)'}
                        <=> x \in ends(v) /\ x \notin {e[2] : e \in req[q].cleared}
        BY <3>1, <3>2, <3>3 DEF LinksOf
      <3>5. want'[v] = ends(v) \ {e[2] : e \in req[q].cleared}
        BY <1>2, <2>1, <2>3
      <3>6. QED
        BY <3>4, <3>5
    <2>4. CASE v \in R /\ req[q].items # Omitted
      <3>1. LinksOf(v) \subseteq req[q].cleared
        BY <1>1, <2>4 DEF IInv, LinksSeen
      <3>2. LinksOf(v)' = {e \in Added(q) : e[1] = v}
        BY <1>1, <3>1 DEF LinksOf
      <3>3. {e[2] : e \in LinksOf(v)'} = Found(q)
        <4>1. ASSUME NEW x \in Found(q) PROVE <<v, x>> \in LinksOf(v)'
          BY <2>4, <3>2 DEF Added
        <4>2. \A e \in LinksOf(v)' : e[2] \in Found(q)
          BY <3>2 DEF Added
        <4>3. \A x : <<v, x>>[2] = x
          OBVIOUS
        <4>4. QED
          BY <4>1, <4>2, <4>3
      <3>4. QED
        BY <1>2, <2>1, <2>4, <3>3
    <2>5. QED
      BY <2>2, <2>3, <2>4
  <1>5. LinksAreReplaced'
    BY <1>4 DEF LinksAreReplaced
  <1>6. ASSUME NEW p \in Requests \ {q}, req[p].items # Omitted,
               NEW v \in req[p].rows \ crossed'
        PROVE  LinksOf(v)' \subseteq req'[p].cleared
    <2>1. v \notin R
      BY <1>6 DEF Commit
    <2>2. LinksOf(v) \subseteq req[p].cleared
      BY <1>1, <1>6 DEF IInv, LinksSeen
    <2>3. QED
      BY <2>1, <2>2, CommitKeepsLinks, CommitOutdates
  <1>7. LinksSeen'
    BY <1>6, CommitOutdates, IdleIsRequest DEF LinksSeen
  <1>8. QED
    BY <1>5, <1>7

\* A request that names a role that is there is told when the role loses the name.
LEMMA CommitRoles ==
    ASSUME IInv, NEW q \in Requests, Commit(q)
    PROVE  RolesStand'
  <1>1. \A r \in Roles : There(r) => There(r)' /\ (name'[r] = name[r] \/ name[r] \in NamesLost(q))
    BY CommitLeavesRows DEF Rows, NamesLost, There
  <1>2. ASSUME NEW p \in Requests \ {q}, req[p].write.life = "live", req[p].rows \cap Users # {}
        PROVE  RoleNamed(req[p].items)' \/ p \in renamed'
    <2>1. p \in renamed \/ req[p].items \cap NamesLost(q) # {} => p \in renamed'
      BY DEF Commit
    <2>2. CASE p \in renamed
      BY <2>1, <2>2
    <2>3. CASE RoleNamed(req[p].items)
      <3>1. PICK n \in req[p].items \cap Names, r \in Roles : There(r) /\ name[r] = n
        BY <2>3 DEF RoleNamed
      <3>2. CASE name'[r] = n
        BY <1>1, <3>1, <3>2, CommitOutdates DEF RoleNamed
      <3>3. CASE n \in NamesLost(q)
        BY <2>1, <3>1, <3>3
      <3>4. QED
        BY <1>1, <3>1, <3>2, <3>3
    <2>4. QED
      BY <1>2, <2>2, <2>3 DEF IInv, RolesStand
  <1>3. QED
    BY <1>2, CommitOutdates, IdleIsRequest DEF RolesStand, RoleNamed

LEMMA CommitStep ==
    ASSUME IInv, NEW q \in Requests, Commit(q)
    PROVE  IInv'
  BY CommitTypes, CommitEnds, CommitNames, CommitPlaces, CommitLinks, CommitRoles DEF IInv

LEMMA IInvStep == IInv /\ [Next]_vars => IInv'
  <1> SUFFICES ASSUME IInv, [Next]_vars PROVE IInv'
    OBVIOUS
  <1>1. CASE UNCHANGED vars
    BY <1>1
    DEF vars, tables, history, IInv, TypeOK, EndsAreThere, There, DeletionsAreLogged,
        RequestsFit, CheckedNamesDiffer, Rivals, Live, NamesFree, NameFree, PlacesAgree,
        PlacesFit, Placed, LinksAreReplaced, LinksOf, LinksSeen, RolesStand, RoleNamed
  <1>2. QED
    BY <1>1, HandlersOpenWell, OpenStep, CommitStep, AbortStep DEF Next
----------------------------------------------------------------------------
(* Theorems *)

\* The invariant of the directory is inductive, for any number of requests.
THEOREM DirectoryInvariance == Spec => []IInv
  BY InitIInv, IInvStep, PTL DEF Spec

\* Two live rows of a table have one name only if neither name was in place when
\* the other was checked.
THEOREM NamesAreApart == Spec => []CheckedNamesDiffer
  <1>1. IInv => CheckedNamesDiffer
    BY DEF IInv
  <1>2. QED
    BY <1>1, DirectoryInvariance, PTL

\* A user and its designation are in one department, unless the designation was
\* moved or two requests on the user overlapped.
THEOREM UsersSitWithDesignations == Spec => []PlacesAgree
  <1>1. IInv => PlacesAgree
    BY DEF IInv
  <1>2. QED
    BY <1>1, DirectoryInvariance, PTL

\* Roles and permissions are those last asked for, unless two requests overlapped.
THEOREM LastAssignmentHolds == Spec => []LinksAreReplaced
  <1>1. IInv => LinksAreReplaced
    BY DEF IInv
  <1>2. QED
    BY <1>1, DirectoryInvariance, PTL

\* A deleted row that no request has in hand is logged, and stays as it is.
THEOREM DeletedStaysDeleted == Spec => DeletedRowsRest
  <1> DEFINE Rests(v) ==
        (life[v] = "deleted" /\ \A q \in Requests : v \notin req[q].rows) =>
            /\ v \in log /\ life'[v] = "deleted"
            /\ name'[v] = name[v] /\ active'[v] = active[v]
            /\ home'[v] = home[v] /\ post'[v] = post[v]
            /\ LinksOf(v)' = LinksOf(v)
            /\ \A q \in Requests : v \notin req'[q].rows
  <1>1. ASSUME IInv, [Next]_vars, NEW v \in Rows, life[v] = "deleted",
               \A q \in Requests : v \notin req[q].rows
        PROVE  Rests(v)
    <2>1. v \in log
      BY <1>1 DEF IInv, DeletionsAreLogged
    <2>2. CASE UNCHANGED vars
      BY <1>1, <2>1, <2>2 DEF vars, tables, LinksOf
    <2>3. ASSUME NEW q \in Requests, OpenedWell(q)
          PROVE  Rests(v)
      <3>1. PICK R \in SUBSET Rows, w \in Fields, items \in (SUBSET Items) \cup {Omitted},
                 cleared \in SUBSET links :
                Open(q, R, w, items, cleared) /\ Justified(R, w, items, cleared)
        BY <2>3 DEF OpenedWell
      <3>2. v \notin R
        BY <1>1, <3>1 DEF Justified, Live
      <3>3. req'[q].rows = R /\ \A p \in Requests \ {q} : req'[p] = req[p]
        BY <1>1, <3>1 DEF Open, IInv, TypeOK
      <3>4. UNCHANGED tables
        BY <3>1 DEF Open
      <3>5. QED
        BY <1>1, <2>1, <3>2, <3>3, <3>4 DEF tables, LinksOf
    <2>4. ASSUME NEW q \in Requests, Commit(q)
          PROVE  Rests(v)
      <3>1. /\ life'[v] = life[v] /\ name'[v] = name[v] /\ active'[v] = active[v]
            /\ home'[v] = home[v] /\ post'[v] = post[v]
        BY <1>1, <2>4, CommitWrites
      <3>2. LinksOf(v)' = LinksOf(v)
        BY <1>1, <2>4, CommitKeepsLinks
      <3>3. \A p \in Requests : v \notin req'[p].rows
        BY <1>1, <2>4, CommitOutdates, IdleIsRequest
      <3>4. QED
        BY <1>1, <2>1, <3>1, <3>2, <3>3
    <2>5. ASSUME NEW q \in Requests, Abort(q)
          PROVE  Rests(v)
      <3>1. \A p \in Requests : req'[p] = req[p] \/ req'[p] = Idle
        BY <1>1, <2>5 DEF Abort, IInv, TypeOK
      <3>2. UNCHANGED tables
        BY <2>5 DEF Abort
      <3>3. QED
        BY <1>1, <2>1, <3>1, <3>2, IdleIsRequest DEF tables, LinksOf
    <2>6. QED
      BY <1>1, <2>2, <2>3, <2>4, <2>5, HandlersOpenWell DEF Next
  <1>2. IInv /\ [Next]_vars => (\A v \in Rows : Rests(v))
    BY <1>1
  <1>3. QED
    BY <1>2, DirectoryInvariance, PTL DEF Spec, DeletedRowsRest

\* No user is inserted without a role, unless a role it was to have by name lost the
\* name while the request was open.
THEOREM NewUsersGetRoles == Spec => NewUsersHaveRoles
  <1> DEFINE Equipped(u) ==
        (life[u] = "absent" /\ life'[u] = "live") =>
            LinksOf(u)' # {} \/ \E q \in renamed : u \in req[q].rows
  <1>1. ASSUME IInv, [Next]_vars, NEW u \in Users, life[u] = "absent", life'[u] = "live",
               \A q \in renamed : u \notin req[q].rows
        PROVE  LinksOf(u)' # {}
    <2>1. life' # life
      BY <1>1
    <2>2. PICK q \in Requests : Commit(q)
      <3>1. \A q \in Requests : OpenedWell(q) \/ Abort(q) => life' = life
        BY DEF OpenedWell, Open, Abort, tables
      <3>2. QED
        BY <1>1, <2>1, <3>1, HandlersOpenWell DEF Next, vars, tables
    <2>3. u \in Rows /\ u \in req[q].rows
      BY <1>1, <2>2, CommitWrites DEF Rows
    <2>4. req[q].write.life = "live"
      BY <1>1, <2>3 DEF IInv, RequestsFit, There
    <2>5. PICK n \in req[q].items \cap Names : \E r \in Roles : There(r) /\ name[r] = n
      BY <1>1, <2>3, <2>4 DEF IInv, RolesStand, RoleNamed
    <2>6. PICK r \in Roles : There(r) /\ name[r] = n
      BY <2>5
    <2>7. req[q].items # Omitted /\ r \in Found(q)
      BY <2>5, <2>6, DirectoryAssumption DEF Omitted, Found, Lookup, There
    <2>8. <<u, r>> \in links'
      BY <2>2, <2>3, <2>7 DEF Commit, Added
    <2>9. QED
      BY <2>8 DEF LinksOf
  <1>2. IInv /\ [Next]_vars => (\A u \in Users : Equipped(u))
    BY <1>1
  <1>3. QED
    BY <1>2, DirectoryInvariance, PTL DEF Spec, NewUsersHaveRoles
=============================================================================
