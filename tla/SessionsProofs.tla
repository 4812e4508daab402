--------------------------- MODULE SessionsProofs ---------------------------
(***************************************************************************)
(* What Sessions guarantees for any users, requests, grants and bounds.    *)
(* Rows only fade: a token that exists keeps its family, and one that is   *)
(* not live never becomes live again.  Only a rotation adds a live token   *)
(* to a family, so the argument follows the rotations under way: which     *)
(* family each is in, and which token it holds locked.                     *)
(***************************************************************************)
EXTENDS Sessions, FiniteSetTheorems, TLAPS

----------------------------------------------------------------------------
(* The inductive invariant                                                 *)

Exists(t) == row[t].state # "absent"

\* A family is named by its first row, which is there.
RowsAreRows ==
    \A t \in Tokens :
        IF Exists(t) THEN /\ row[t].family \in Tokens /\ row[t].user \in Users
                          /\ Exists(row[t].family)
                     ELSE row[t].family = None

\* A request is about a token that exists; only a login is about none.
RequestsHaveTokens ==
    \A q \in Requests :
        /\ req[q].step # "idle" /\ req[q].token # None => Exists(req[q].token)
        /\ req[q].step \in {"rotating", "closing"} => req[q].token # None
        /\ req[q].step \in {"rotating", "issuing"} => req[q].user \in Users
        /\ req[q].step = "issuing" => req[q].claims \in Grants

Issuing(q) == req[q].step = "issuing" /\ req[q].token # None

FamilyOf(q) == row[req[q].token].family

\* Unless a token was used twice at a time, the rotation that holds the lock of a
\* token is the only one of its family, and no other token of it is live.
RotatesAlone ==
    \A q \in Requests : Issuing(q) /\ FamilyOf(q) \notin doubled =>
        /\ LiveTokens(FamilyOf(q)) \subseteq {req[q].token}
        /\ \A p \in Requests : Issuing(p) /\ FamilyOf(p) = FamilyOf(q) => p = q

AtMostOneLive ==
    \A f \in Tokens \ doubled : \A s, t \in LiveTokens(f) : s = t

\* A family nothing can be issued in.
Lifeless(f) ==
    /\ Family(f) # {} /\ LiveTokens(f) = {}
    /\ \A q \in Requests : ~Rotating(q, f)

ClosedIsLifeless == \A f \in closed \ late : Lifeless(f)

\* Every copy of a power was taken when its user had it.
PowerWasGranted ==
    /\ \A u \in Users : Powerful(grant[u]) => u \in empowered
    /\ \A q \in Requests :
            req[q].step = "issuing" /\ Powerful(req[q].claims) => req[q].user \in empowered
    /\ \A a \in access : Powerful(a.claims) => a.user \in empowered

IInv ==
    /\ TypeOK
    /\ RowsAreRows /\ RequestsHaveTokens
    /\ RotatesAlone /\ AtMostOneLive
    /\ ClosedIsLifeless
    /\ PowerWasGranted

----------------------------------------------------------------------------
(* Types                                                                   *)

RowType == [state : {"absent", "live", "revoked", "expired"},
            family : Tokens \cup {None}, user : Users \cup {None}]

LEMMA NoneIsNeither == None \notin Users /\ None \notin Tokens /\ None \notin Secrets
  BY SessionsAssumption

LEMMA TypeInit == Init => TypeOK
  <1> SUFFICES ASSUME Init PROVE TypeOK
    OBVIOUS
  <1>1. NoRow \in RowType /\ Idle \in RequestType
    BY DEF NoRow, Idle, RowType, RequestType
  <1>2. 0 \in 0..MaxChanges
    BY SessionsAssumption
  <1>3. QED
    BY <1>1, <1>2 DEF Init, TypeOK, RowType

LEMMA SpentIsRow ==
    ASSUME TypeOK, NEW t \in Tokens
    PROVE  /\ row[t] \in RowType /\ Spent(t) \in RowType
           /\ Spent(t).family = row[t].family /\ Spent(t).user = row[t].user
           /\ Spent(t).state = IF row[t].state = "live" THEN "revoked" ELSE row[t].state
  BY DEF TypeOK, RowType, Spent

\* The parts of a step: an account or grant changes, ...
LEMMA ChangesAreCounted ==
    ASSUME TypeOK, changes < MaxChanges, changes' = changes + 1
    PROVE  changes' \in 0..MaxChanges
  BY SessionsAssumption DEF TypeOK

LEMMA TypeStep ==
    ASSUME TypeOK, RowsAreRows, RequestsHaveTokens, [Next]_vars
    PROVE  TypeOK'
  <1> USE DEF accounts, history
  <1>1. ASSUME NEW q \in Requests, NEW t \in Tokens, RefreshRead(q, t) PROVE TypeOK'
    <2>1. [Idle EXCEPT !.step = "rotating", !.token = t, !.user = row[t].user] \in RequestType
      BY DEF TypeOK, Idle, RequestType
    <2>2. QED
      BY <1>1, <2>1 DEF RefreshRead, Begin, TypeOK
  <1>2. ASSUME NEW q \in Requests, RefreshFlush(q) PROVE TypeOK'
    <2>1. req[q].user \in Users /\ req[q].token \in Tokens /\ Exists(req[q].token)
      BY <1>2 DEF RefreshFlush, RequestsHaveTokens, TypeOK, RequestType
    <2>2. grant[req[q].user] \in Grants /\ row[req[q].token].family \in Tokens
      BY <2>1 DEF TypeOK, RowsAreRows
    <2>3. [req[q] EXCEPT !.step = "issuing", !.claims = grant[req[q].user]] \in RequestType
      BY <2>2 DEF TypeOK, RequestType
    <2>4. req' \in [Requests -> RequestType]
      BY <1>2, <2>3 DEF RefreshFlush, TypeOK
    <2>5. doubled' \subseteq Tokens
      BY <1>2, <2>2 DEF RefreshFlush, TypeOK
    <2>6. QED
      BY <1>2, <2>4, <2>5 DEF RefreshFlush, TypeOK
  <1>3. ASSUME NEW q \in Requests, NEW new \in Tokens, IssueCommit(q, new) PROVE TypeOK'
    <2>1. /\ req[q].user \in Users /\ req[q].claims \in Grants
          /\ req[q].token = None \/ (req[q].token \in Tokens /\ Exists(req[q].token))
      BY <1>3 DEF IssueCommit, RequestsHaveTokens, TypeOK, RequestType
    <2>2. (IF req[q].token = None THEN new ELSE row[req[q].token].family) \in Tokens
      BY <2>1 DEF RowsAreRows
    <2>3. row' \in [Tokens -> RowType]
      BY <1>3, <2>1, <2>2, SpentIsRow DEF IssueCommit, RowType
    <2>4. access' \subseteq [user : Users, claims : Grants]
      BY <1>3, <2>1 DEF IssueCommit, TypeOK
    <2>5. Idle \in RequestType
      BY DEF Idle, RequestType
    <2>6. req' \in [Requests -> RequestType]
      BY <1>3, <2>5 DEF IssueCommit, TypeOK
    <2>7. QED
      BY <1>3, <2>3, <2>4, <2>6 DEF IssueCommit, TypeOK, RowType
  <1>4. ASSUME NEW q \in Requests, NEW t \in Tokens, ReuseFound(q, t) PROVE TypeOK'
    <2>1. [Idle EXCEPT !.step = "closing", !.token = t, !.sight = Family(row[t].family)]
            \in RequestType
      BY DEF Idle, RequestType, Family
    <2>2. QED
      BY <1>4, <2>1 DEF ReuseFound, TypeOK
  <1>5. ASSUME NEW q \in Requests, CloseFamily(q) PROVE TypeOK'
    <2>1. row[req[q].token].family \in Tokens
      BY <1>5 DEF CloseFamily, RequestsHaveTokens, RowsAreRows, TypeOK, RequestType
    <2>2. row' \in [Tokens -> RowType]
      BY <1>5, SpentIsRow DEF CloseFamily
    <2>3. Idle \in RequestType
      BY DEF Idle, RequestType
    <2>4. closed' \subseteq Tokens /\ late' \subseteq Tokens
      BY <1>5, <2>1 DEF CloseFamily, TypeOK
    <2>5. req' \in [Requests -> RequestType]
      BY <1>5, <2>3 DEF CloseFamily, TypeOK
    <2>6. QED
      BY <1>5, <2>2, <2>4, <2>5 DEF CloseFamily, TypeOK, RowType
  <1>6. ASSUME NEW q \in Requests, RequestDies(q) PROVE TypeOK'
    <2>1. Idle \in RequestType
      BY DEF Idle, RequestType
    <2>2. QED
      BY <1>6, <2>1 DEF RequestDies, TypeOK
  <1>7. ASSUME NEW q \in Requests, NEW u \in Users, Login(q, u) \/ VerifyMfa(q, u)
        PROVE  TypeOK'
    <2>1. [Idle EXCEPT !.step = "issuing", !.user = u, !.claims = grant[u]] \in RequestType
      BY DEF TypeOK, Idle, RequestType
    <2>2. QED
      BY <1>7, <2>1 DEF Login, VerifyMfa, StartSession, TypeOK
  <1>8. ASSUME NEW t \in Tokens, Logout(t) \/ RefreshExpires(t) PROVE TypeOK'
    <2>1. [row[t] EXCEPT !.state = "expired"] \in RowType
      BY DEF TypeOK, RowType
    <2>2. row' \in [Tokens -> RowType]
      BY <1>8, <2>1, SpentIsRow DEF Logout, RefreshExpires, TypeOK, RowType
    <2>3. QED
      BY <1>8, <2>2 DEF Logout, RefreshExpires, TypeOK, RowType
  <1>9. ASSUME NEW u \in Users, Register(u) PROVE TypeOK'
    <2>1. Active \in Account
      BY DEF Active, Account
    <2>2. QED
      BY <1>9, <2>1 DEF Register, TypeOK
  <1>10. ASSUME NEW u \in Users, NEW a \in Account, changes < MaxChanges,
                changes' = changes + 1, account' = [account EXCEPT ![u] = a],
                UNCHANGED <<grant, empowered, row, access, challenges, req, history>>
         PROVE  TypeOK'
    BY <1>10, ChangesAreCounted DEF TypeOK
  <1>11. ASSUME NEW u \in Users, NEW s \in Secrets, EnrollMfa(u, s) PROVE TypeOK'
    <2>1. [account[u] EXCEPT !.secret = s] \in Account
      BY DEF TypeOK, Account
    <2>2. account' = [account EXCEPT ![u] = [account[u] EXCEPT !.secret = s]]
      BY <1>11 DEF EnrollMfa
    <2>3. QED
      BY <1>10, <1>11, <2>1, <2>2 DEF EnrollMfa
  <1>12. ASSUME NEW u \in Users, ConfirmMfa(u) PROVE TypeOK'
    <2>1. [account[u] EXCEPT !.mfa = TRUE] \in Account
      BY DEF TypeOK, Account
    <2>2. account' = [account EXCEPT ![u] = [account[u] EXCEPT !.mfa = TRUE]]
      BY <1>12 DEF ConfirmMfa
    <2>3. QED
      BY <1>10, <1>12, <2>1, <2>2 DEF ConfirmMfa
  <1>13. ASSUME NEW u \in Users, NEW life \in {"live", "deleted"}, NEW on \in BOOLEAN,
                ChangeUser(u, life, on)
         PROVE  TypeOK'
    <2>1. [account[u] EXCEPT !.life = life, !.active = on] \in Account
      BY DEF TypeOK, Account
    <2>2. account' = [account EXCEPT ![u] = [account[u] EXCEPT !.life = life, !.active = on]]
      BY <1>13 DEF ChangeUser, TypeOK
    <2>3. QED
      BY <1>10, <1>13, <2>1, <2>2 DEF ChangeUser
  <1>14. ASSUME NEW u \in Users, NEW G \in Grants, ChangeGrant(u, G) PROVE TypeOK'
    BY <1>14, ChangesAreCounted DEF ChangeGrant, TypeOK
  <1>15. ASSUME NEW u \in Users, LoginChallenged(u) \/ ChallengeExpires(u) PROVE TypeOK'
    BY <1>15 DEF LoginChallenged, ChallengeExpires, TypeOK
  <1>16. ASSUME NEW a \in access, AccessExpires(a) PROVE TypeOK'
    BY <1>16 DEF AccessExpires, TypeOK
  <1>17. CASE UNCHANGED vars
    BY <1>17 DEF vars, TypeOK
  <1>18. QED
    BY <1>1, <1>2, <1>3, <1>4, <1>5, <1>6, <1>7, <1>8, <1>9, <1>11, <1>12, <1>13,
       <1>14, <1>15, <1>16, <1>17
    DEF Next

----------------------------------------------------------------------------
(* Rows fade                                                               *)

\* No row is added, and none becomes live.
Fades ==
    \A t \in Tokens :
        /\ row'[t].family = row[t].family /\ row'[t].user = row[t].user
        /\ Exists(t)' <=> Exists(t)
        /\ row'[t].state = "live" => row[t].state = "live"

LEMMA FadingFamilies ==
    ASSUME Fades, NEW f
    PROVE  Family(f)' = Family(f) /\ LiveTokens(f)' \subseteq LiveTokens(f)
  BY DEF Fades, Family, LiveTokens, Exists

LEMMA FadingKeepsRows ==
    ASSUME RowsAreRows, Fades
    PROVE  RowsAreRows'
  BY DEF RowsAreRows, Fades

LEMMA FadingKeepsOneLive ==
    ASSUME AtMostOneLive, Fades, doubled \subseteq doubled'
    PROVE  AtMostOneLive'
  <1>1. ASSUME NEW f \in Tokens \ doubled', NEW s \in LiveTokens(f)', NEW t \in LiveTokens(f)'
        PROVE  s = t
    <2>1. s \in LiveTokens(f) /\ t \in LiveTokens(f) /\ f \in Tokens \ doubled
      BY <1>1, FadingFamilies
    <2>2. QED
      BY <2>1 DEF AtMostOneLive
  <1>2. QED
    BY <1>1 DEF AtMostOneLive

LEMMA FadingKeepsRotations ==
    ASSUME TypeOK, RequestsHaveTokens, RotatesAlone, Fades, doubled \subseteq doubled',
           \A q \in Requests : Issuing(q)' => Issuing(q) /\ req'[q].token = req[q].token
    PROVE  RotatesAlone'
  <1>1. ASSUME NEW q \in Requests, Issuing(q)'
        PROVE  Issuing(q) /\ req'[q].token = req[q].token /\ FamilyOf(q)' = FamilyOf(q)
    <2>1. Issuing(q) /\ req'[q].token = req[q].token
      BY <1>1
    <2>2. req[q].token \in Tokens
      BY <2>1 DEF Issuing, TypeOK, RequestType
    <2>3. QED
      BY <2>1, <2>2 DEF FamilyOf, Fades
  <1>2. ASSUME NEW q \in Requests, Issuing(q)', FamilyOf(q)' \notin doubled'
        PROVE  /\ LiveTokens(FamilyOf(q))' \subseteq {req'[q].token}
               /\ \A p \in Requests : Issuing(p)' /\ FamilyOf(p)' = FamilyOf(q)' => p = q
    <2>1. /\ Issuing(q) /\ req'[q].token = req[q].token
          /\ FamilyOf(q)' = FamilyOf(q) /\ FamilyOf(q) \notin doubled
      BY <1>1, <1>2
    <2>2. LiveTokens(FamilyOf(q)) \subseteq {req[q].token}
      BY <2>1 DEF RotatesAlone
    <2>3. LiveTokens(FamilyOf(q))' \subseteq LiveTokens(FamilyOf(q))
      BY <2>1 DEF LiveTokens, Family, Fades, Exists
    <2>4. \A p \in Requests : Issuing(p)' /\ FamilyOf(p)' = FamilyOf(q)' => p = q
      BY <1>1, <2>1 DEF RotatesAlone
    <2>5. QED
      BY <2>1, <2>2, <2>3, <2>4
  <1>3. QED
    BY <1>2 DEF RotatesAlone

\* Every step but the commit of new tokens lets the rows fade.
LEMMA RowsFade ==
    ASSUME TypeOK, [Next]_vars,
           ~ \E q \in Requests, t \in Tokens : IssueCommit(q, t)
    PROVE  Fades
  <1>1. CASE row' = row
    BY <1>1 DEF Fades, Exists
  <1>2. ASSUME NEW A \in SUBSET Tokens,
               row' = [t \in Tokens |-> IF t \in A THEN Spent(t) ELSE row[t]]
        PROVE  Fades
    BY <1>2, SpentIsRow DEF Fades, Exists
  <1>3. ASSUME NEW q \in Requests, CloseFamily(q) PROVE Fades
    <2>1. req[q].sight \in SUBSET Tokens
      BY DEF TypeOK, RequestType
    <2>2. QED
      BY <1>2, <1>3, <2>1 DEF CloseFamily, Doomed
  <1>4. ASSUME NEW t \in Tokens, Logout(t) PROVE Fades
    BY <1>4, SpentIsRow DEF Logout, Fades, Exists, TypeOK
  <1>5. ASSUME NEW t \in Tokens, RefreshExpires(t) PROVE Fades
    BY <1>5 DEF RefreshExpires, Fades, Exists, TypeOK
  <1>6. row' = row \/ (\E q \in Requests : CloseFamily(q))
            \/ (\E t \in Tokens : Logout(t) \/ RefreshExpires(t))
    <2>1. ASSUME NEW q \in Requests, NEW t \in Tokens,
                 RefreshRead(q, t) \/ ReuseFound(q, t) \/ RefreshFlush(q) \/ RequestDies(q)
          PROVE  row' = row
      BY <2>1 DEF RefreshRead, ReuseFound, RefreshFlush, RequestDies
    <2>2. ASSUME NEW q \in Requests, RefreshFlush(q) \/ RequestDies(q)
          PROVE  row' = row
      BY <2>2 DEF RefreshFlush, RequestDies
    <2>3. ASSUME NEW q \in Requests, NEW u \in Users, Login(q, u) \/ VerifyMfa(q, u)
          PROVE  row' = row
      BY <2>3 DEF Login, VerifyMfa
    <2>4. ASSUME NEW u \in Users,
                 \/ Register(u) \/ LoginChallenged(u) \/ ConfirmMfa(u) \/ ChallengeExpires(u)
                 \/ \E s \in Secrets : EnrollMfa(u, s)
                 \/ \E G \in Grants : ChangeGrant(u, G)
                 \/ \E life \in {"live", "deleted"}, on \in BOOLEAN : ChangeUser(u, life, on)
          PROVE  row' = row
      BY <2>4 DEF Register, LoginChallenged, ConfirmMfa, ChallengeExpires, EnrollMfa,
                  ChangeGrant, ChangeUser
    <2>5. ASSUME NEW a \in access, AccessExpires(a) PROVE row' = row
      BY <2>5 DEF AccessExpires
    <2>6. CASE UNCHANGED vars
      BY <2>6 DEF vars
    <2>7. QED
      BY <2>1, <2>2, <2>3, <2>4, <2>5, <2>6 DEF Next
  <1>7. QED
    BY <1>1, <1>3, <1>4, <1>5, <1>6

----------------------------------------------------------------------------
(* What a step does to the requests                                        *)

\* The request of one step; the others are as they were.
OneRequest(q) == \A p \in Requests \ {q} : req'[p] = req[p]

LEMMA RequestsFollow ==
    ASSUME TypeOK, RowsAreRows, RequestsHaveTokens, Fades, NEW q \in Requests, OneRequest(q),
           /\ req'[q].step # "idle" /\ req'[q].token # None => row[req'[q].token].state # "absent"
           /\ req'[q].step \in {"rotating", "closing"} => req'[q].token # None
           /\ req'[q].step \in {"rotating", "issuing"} => req'[q].user \in Users
           /\ req'[q].step = "issuing" => req'[q].claims \in Grants,
           req'[q].token \in Tokens \cup {None}
    PROVE  RequestsHaveTokens'
  <1>1. ASSUME NEW p \in Requests
        PROVE  /\ req'[p].step # "idle" /\ req'[p].token # None => row'[req'[p].token].state # "absent"
               /\ req'[p].step \in {"rotating", "closing"} => req'[p].token # None
               /\ req'[p].step \in {"rotating", "issuing"} => req'[p].user \in Users
               /\ req'[p].step = "issuing" => req'[p].claims \in Grants
    <2>1. /\ req'[p].step # "idle" /\ req'[p].token # None => row[req'[p].token].state # "absent"
          /\ req'[p].step \in {"rotating", "closing"} => req'[p].token # None
          /\ req'[p].step \in {"rotating", "issuing"} => req'[p].user \in Users
          /\ req'[p].step = "issuing" => req'[p].claims \in Grants
          /\ req'[p].token \in Tokens \cup {None}
      <3>1. CASE p = q
        BY <3>1
      <3>2. CASE p # q
        BY <3>2 DEF OneRequest, RequestsHaveTokens, Exists, TypeOK, RequestType
      <3>3. QED
        BY <3>1, <3>2
    <2>2. req'[p].step # "idle" /\ req'[p].token # None => row'[req'[p].token].state # "absent"
      BY <2>1 DEF Fades, Exists
    <2>3. QED
      BY <2>1, <2>2
  <1>2. QED
    BY <1>1 DEF RequestsHaveTokens, Exists

\* A rotation begins with a token that is live, and goes on with it.
LEMMA RequestsMove ==
    ASSUME TypeOK, RequestsHaveTokens, [Next]_vars, NEW p \in Requests,
           req'[p].step \in {"rotating", "issuing"}, req'[p].token # None
    PROVE  \/ /\ req'[p].step = "rotating" /\ req'[p].token \in Tokens
              /\ row[req'[p].token].state = "live"
           \/ /\ req[p].step \in {"rotating", "issuing"} /\ req'[p].token = req[p].token
              /\ req'[p].step = req[p].step \/ RefreshFlush(p)
  <1> DEFINE Goal ==
        \/ /\ req'[p].step = "rotating" /\ req'[p].token \in Tokens
           /\ row[req'[p].token].state = "live"
        \/ /\ req[p].step \in {"rotating", "issuing"} /\ req'[p].token = req[p].token
           /\ req'[p].step = req[p].step \/ RefreshFlush(p)
  <1>1. CASE req' = req
    BY <1>1
  <1>2. ASSUME NEW q \in Requests, NEW new, req' = [req EXCEPT ![q] = new]
        PROVE  p # q => req'[p] = req[p]
    BY <1>2 DEF TypeOK
  <1>3. ASSUME NEW q \in Requests, NEW t \in Tokens, RefreshRead(q, t) PROVE Goal
    <2>1. CASE p = q
      BY <1>3, <2>1 DEF RefreshRead, Begin, MayRotate, Idle, TypeOK
    <2>2. CASE p # q
      BY <1>3, <2>2 DEF RefreshRead, Begin, TypeOK
    <2>3. QED
      BY <2>1, <2>2
  <1>4. ASSUME NEW q \in Requests, RefreshFlush(q) PROVE Goal
    <2>1. CASE p = q
      BY <1>4, <2>1 DEF RefreshFlush, TypeOK, RequestType
    <2>2. CASE p # q
      BY <1>4, <2>2 DEF RefreshFlush, TypeOK
    <2>3. QED
      BY <2>1, <2>2
  <1>5. ASSUME NEW q \in Requests, NEW t \in Tokens,
               IssueCommit(q, t) \/ CloseFamily(q) \/ RequestDies(q)
        PROVE  Goal
    <2>1. req' = [req EXCEPT ![q] = Idle]
      BY <1>5 DEF IssueCommit, CloseFamily, RequestDies
    <2>2. p # q
      BY <2>1 DEF Idle, TypeOK
    <2>3. QED
      BY <2>1, <2>2 DEF TypeOK
  <1>6. ASSUME NEW q \in Requests, CloseFamily(q) \/ RequestDies(q) PROVE Goal
    <2>1. req' = [req EXCEPT ![q] = Idle]
      BY <1>6 DEF CloseFamily, RequestDies
    <2>2. p # q
      BY <2>1 DEF Idle, TypeOK
    <2>3. QED
      BY <2>1, <2>2 DEF TypeOK
  <1>7. ASSUME NEW q \in Requests, NEW t \in Tokens, ReuseFound(q, t) PROVE Goal
    <2>1. p # q
      BY <1>7 DEF ReuseFound, Idle, TypeOK
    <2>2. QED
      BY <1>7, <2>1 DEF ReuseFound, TypeOK
  <1>8. ASSUME NEW q \in Requests, NEW u \in Users, Login(q, u) \/ VerifyMfa(q, u)
        PROVE  Goal
    <2>1. p # q
      BY <1>8 DEF Login, VerifyMfa, StartSession, Idle, TypeOK
    <2>2. QED
      BY <1>8, <2>1 DEF Login, VerifyMfa, StartSession, TypeOK
  <1>9. ASSUME NEW u \in Users,
               \/ Register(u) \/ LoginChallenged(u) \/ ConfirmMfa(u) \/ ChallengeExpires(u)
               \/ \E s \in Secrets : EnrollMfa(u, s)
               \/ \E G \in Grants : ChangeGrant(u, G)
               \/ \E life \in {"live", "deleted"}, on \in BOOLEAN : ChangeUser(u, life, on)
        PROVE  req' = req
    BY <1>9 DEF Register, LoginChallenged, ConfirmMfa, ChallengeExpires, EnrollMfa,
                ChangeGrant, ChangeUser
  <1>10. ASSUME NEW t \in Tokens, Logout(t) \/ RefreshExpires(t) PROVE req' = req
    BY <1>10 DEF Logout, RefreshExpires
  <1>11. ASSUME NEW a \in access, AccessExpires(a) PROVE req' = req
    BY <1>11 DEF AccessExpires
  <1>12. CASE UNCHANGED vars
    BY <1>1, <1>12 DEF vars
  <1>13. QED
    BY <1>1, <1>3, <1>4, <1>5, <1>6, <1>7, <1>8, <1>9, <1>10, <1>11, <1>12 DEF Next

----------------------------------------------------------------------------
(* The commit of a rotation or a login                                     *)

\* The family the new token joins, or starts.
Joined(q, new) == IF req[q].token = None THEN new ELSE FamilyOf(q)

LEMMA CommitAdds ==
    ASSUME TypeOK, RowsAreRows, RequestsHaveTokens,
           NEW q \in Requests, NEW new \in Tokens, IssueCommit(q, new)
    PROVE  /\ ~Exists(new) /\ row'[new].state = "live" /\ row'[new].user \in Users
           /\ row'[new].family = Joined(q, new) /\ Joined(q, new) \in Tokens
           /\ req[q].token # None => Exists(Joined(q, new))
           /\ \A t \in Tokens \ {new} :
                /\ row'[t].family = row[t].family /\ row'[t].user = row[t].user
                /\ Exists(t)' <=> Exists(t)
                /\ row'[t].state = "live" => row[t].state = "live" /\ t # req[q].token
           /\ req'[q] = Idle /\ OneRequest(q)
           /\ UNCHANGED <<grant, empowered, doubled, closed, late>>
  <1> DEFINE t0 == req[q].token
  <1>1. /\ req[q].step = "issuing"
        /\ row[new].state = "absent"
        /\ row' = [s \in Tokens |->
                    IF s = new THEN [state |-> "live",
                                     family |-> IF t0 = None THEN new ELSE row[t0].family,
                                     user |-> req[q].user]
                    ELSE IF s = t0 THEN Spent(t0) ELSE row[s]]
        /\ req' = [req EXCEPT ![q] = Idle]
        /\ UNCHANGED <<grant, empowered, doubled, closed, late>>
    BY DEF IssueCommit, accounts, history
  <1>2. /\ req[q].user \in Users
        /\ t0 # None => t0 \in Tokens /\ Exists(t0)
    BY <1>1 DEF RequestsHaveTokens, TypeOK, RequestType
  <1>3. /\ ~Exists(new) /\ row'[new].state = "live" /\ row'[new].user \in Users
        /\ row'[new].family = Joined(q, new)
    BY <1>1, <1>2 DEF Exists, Joined, FamilyOf
  <1>4. Joined(q, new) \in Tokens /\ (t0 # None => Exists(Joined(q, new)))
    BY <1>2 DEF Joined, FamilyOf, RowsAreRows
  <1>5. ASSUME NEW t \in Tokens \ {new}
        PROVE  /\ row'[t].family = row[t].family /\ row'[t].user = row[t].user
               /\ row'[t].state # "absent" <=> row[t].state # "absent"
               /\ row'[t].state = "live" => row[t].state = "live" /\ t # req[q].token
    <2>1. CASE t = t0
      BY <1>1, <2>1, SpentIsRow
    <2>2. CASE t # t0
      BY <1>1, <2>2
    <2>3. QED
      BY <2>1, <2>2
  <1>6. req'[q] = Idle /\ OneRequest(q)
    BY <1>1 DEF TypeOK, OneRequest
  <1>7. QED
    BY <1>1, <1>3, <1>4, <1>5, <1>6 DEF Exists

\* Tokens live afterwards in the family it joined, and in any other.
LEMMA CommitFamilies ==
    ASSUME TypeOK, RowsAreRows, RequestsHaveTokens,
           NEW q \in Requests, NEW new \in Tokens, IssueCommit(q, new), NEW f \in Tokens
    PROVE  /\ f # Joined(q, new) =>
                Family(f)' = Family(f) /\ LiveTokens(f)' \subseteq LiveTokens(f)
           /\ f = Joined(q, new) =>
                LiveTokens(f)' \subseteq (LiveTokens(f) \ {req[q].token}) \cup {new}
  BY CommitAdds DEF Family, LiveTokens, Exists

LEMMA CommitStarts ==
    ASSUME RowsAreRows, NEW new \in Tokens, ~Exists(new)
    PROVE  Family(new) = {} /\ \A t \in Tokens : Exists(t) => row[t].family # new
  BY DEF RowsAreRows, Family, Exists

----------------------------------------------------------------------------
(* A family without life stays so                                          *)

LEMMA LifelessStays ==
    ASSUME TypeOK, RowsAreRows, RequestsHaveTokens, [Next]_vars, NEW f \in Tokens, Lifeless(f)
    PROVE  Lifeless(f)'
  <1>1. ASSUME NEW p \in Requests, req'[p].step \in {"rotating", "issuing"},
               req'[p].token # None
        PROVE  /\ row[req'[p].token].family # f
               /\ req'[p].token \in Tokens /\ row[req'[p].token].state # "absent"
    <2>1. CASE req'[p].step = "rotating" /\ req'[p].token \in Tokens
               /\ row[req'[p].token].state = "live"
      BY <2>1 DEF Lifeless, LiveTokens, Family
    <2>2. CASE req[p].step \in {"rotating", "issuing"} /\ req'[p].token = req[p].token
      BY <1>1, <2>2 DEF Lifeless, Rotating, RequestsHaveTokens, Exists, TypeOK, RequestType
    <2>3. QED
      BY <1>1, <2>1, <2>2, RequestsMove
  <1>2. CASE \E q \in Requests, new \in Tokens : IssueCommit(q, new)
    <2>1. PICK q \in Requests, new \in Tokens : IssueCommit(q, new)
      BY <1>2
    <2>2. f # Joined(q, new)
      <3>1. CASE req[q].token = None
        BY <2>1, <3>1, CommitAdds, CommitStarts DEF Joined, Lifeless
      <3>2. CASE req[q].token # None
        BY <2>1, <3>2 DEF Joined, FamilyOf, Lifeless, Rotating, IssueCommit
      <3>3. QED
        BY <3>1, <3>2
    <2>3. Family(f)' # {} /\ LiveTokens(f)' = {}
      BY <2>1, <2>2, CommitFamilies DEF Lifeless
    <2>4. ASSUME NEW p \in Requests PROVE ~Rotating(p, f)'
      <3>1. SUFFICES ASSUME req'[p].step \in {"rotating", "issuing"}, req'[p].token # None
                     PROVE  row'[req'[p].token].family # f
        BY DEF Rotating
      <3>2. req'[p].token # new
        BY <1>1, <2>1, <3>1, CommitAdds DEF Exists
      <3>3. row'[req'[p].token].family = row[req'[p].token].family
        BY <1>1, <2>1, <3>1, <3>2, CommitAdds
      <3>4. QED
        BY <1>1, <3>1, <3>3
    <2>5. QED
      BY <2>3, <2>4 DEF Lifeless
  <1>3. CASE ~ \E q \in Requests, new \in Tokens : IssueCommit(q, new)
    <2>1. Fades
      BY <1>3, RowsFade
    <2>2. \A p \in Requests : ~Rotating(p, f)'
      BY <1>1, <2>1 DEF Rotating, Fades
    <2>3. QED
      BY <2>1, <2>2, FadingFamilies DEF Lifeless
  <1>4. QED
    BY <1>2, <1>3

----------------------------------------------------------------------------
(* The invariant is kept                                                   *)

LEMMA InitIInv == Init => IInv
  <1> SUFFICES ASSUME Init PROVE IInv
    OBVIOUS
  <1>1. TypeOK
    BY TypeInit
  <1>2. \A t \in Tokens : ~Exists(t) /\ row[t].family = None
    BY DEF Init, NoRow, Exists
  <1>3. \A q \in Requests : req[q].step = "idle"
    BY DEF Init, Idle
  <1>4. RowsAreRows /\ RequestsHaveTokens /\ RotatesAlone
    BY <1>2, <1>3 DEF RowsAreRows, RequestsHaveTokens, RotatesAlone, Issuing
  <1>5. AtMostOneLive /\ ClosedIsLifeless
    BY <1>2 DEF AtMostOneLive, LiveTokens, Family, Exists, ClosedIsLifeless, Init
  <1>6. PowerWasGranted
    BY <1>3 DEF PowerWasGranted, Init
  <1>7. QED
    BY <1>1, <1>4, <1>5, <1>6 DEF IInv

\* Rows exist, and requests are about them.
LEMMA RowsStep ==
    ASSUME TypeOK, TypeOK', RowsAreRows, RequestsHaveTokens, [Next]_vars
    PROVE  RowsAreRows' /\ RequestsHaveTokens'
  <1>1. CASE \E q \in Requests, new \in Tokens : IssueCommit(q, new)
    <2>1. PICK q \in Requests, new \in Tokens : IssueCommit(q, new)
      BY <1>1
    <2>2. \A t \in Tokens : Exists(t) => t # new /\ Exists(t)' /\ row'[t].family = row[t].family
                                         /\ row'[t].user = row[t].user
      BY <2>1, CommitAdds
    <2>3. ASSUME NEW t \in Tokens
          PROVE  IF Exists(t)' THEN /\ row'[t].family \in Tokens /\ row'[t].user \in Users
                                    /\ row'[row'[t].family].state # "absent"
                               ELSE row'[t].family = None
      <3>1. CASE t = new
        <4>1. /\ row'[new].family = Joined(q, new) /\ Joined(q, new) \in Tokens
              /\ row'[new].state = "live" /\ row'[new].user \in Users
          BY <2>1, CommitAdds
        <4>2. Joined(q, new) = new \/ Exists(Joined(q, new))
          BY <2>1, CommitAdds DEF Joined
        <4>3. QED
          BY <2>2, <3>1, <4>1, <4>2 DEF Exists
      <3>2. CASE t # new /\ Exists(t)
        BY <2>2, <3>2 DEF RowsAreRows, Exists
      <3>3. CASE t # new /\ ~Exists(t)
        BY <2>1, <3>3, CommitAdds DEF RowsAreRows, Exists
      <3>4. QED
        BY <3>1, <3>2, <3>3
    <2>4. RowsAreRows'
      BY <2>3 DEF RowsAreRows, Exists
    <2>5. \A p \in Requests : req'[p] = req[p] \/ req'[p] = Idle
      BY <2>1, CommitAdds DEF OneRequest
    <2>6. RequestsHaveTokens'
      BY <2>2, <2>5 DEF RequestsHaveTokens, Exists, Idle, TypeOK, RequestType
    <2>7. QED
      BY <2>4, <2>6
  <1>2. CASE ~ \E q \in Requests, new \in Tokens : IssueCommit(q, new)
    <2>1. Fades
      BY <1>2, RowsFade
    <2>2. RowsAreRows'
      BY <2>1, FadingKeepsRows
    <2>3. CASE req' = req
      <3>1. ASSUME NEW q \in Requests, req[q].step # "idle", req[q].token # None
            PROVE  row'[req[q].token].state # "absent"
        <4>1. req[q].token \in Tokens /\ row[req[q].token].state # "absent"
          BY <3>1 DEF RequestsHaveTokens, Exists, TypeOK, RequestType
        <4>2. QED
          BY <2>1, <4>1 DEF Fades, Exists
      <3>2. ASSUME NEW q \in Requests
            PROVE  /\ req'[q].step # "idle" /\ req'[q].token # None
                            => row'[req'[q].token].state # "absent"
                   /\ req'[q].step \in {"rotating", "closing"} => req'[q].token # None
                   /\ req'[q].step \in {"rotating", "issuing"} => req'[q].user \in Users
                   /\ req'[q].step = "issuing" => req'[q].claims \in Grants
        BY <2>3, <3>1 DEF RequestsHaveTokens
      <3>3. QED
        BY <2>2, <3>2 DEF RequestsHaveTokens, Exists
    <2>4. ASSUME NEW q \in Requests, NEW new \in RequestType, req' = [req EXCEPT ![q] = new],
                 new.step # "idle" /\ new.token # None => row[new.token].state # "absent",
                 new.step \in {"rotating", "closing"} => new.token # None,
                 new.step \in {"rotating", "issuing"} => new.user \in Users,
                 new.step = "issuing" => new.claims \in Grants
          PROVE  RequestsHaveTokens'
      <3>1. req'[q] = new /\ OneRequest(q)
        BY <2>4 DEF TypeOK, OneRequest
      <3>2. new.token \in Tokens \cup {None}
        BY DEF RequestType
      <3>3. QED
        BY <2>1, <2>4, <3>1, <3>2, RequestsFollow
    <2>5. ASSUME NEW q \in Requests, CloseFamily(q) \/ RequestDies(q)
          PROVE  RequestsHaveTokens'
      <3>1. Idle \in RequestType /\ Idle.step = "idle"
        BY DEF Idle, RequestType
      <3>2. QED
        BY <2>4, <2>5, <3>1 DEF CloseFamily, RequestDies
    <2>6. ASSUME NEW q \in Requests, NEW t \in Tokens, RefreshRead(q, t)
          PROVE  RequestsHaveTokens'
      <3> DEFINE new == [Idle EXCEPT !.step = "rotating", !.token = t, !.user = row[t].user]
      <3>1. req' = [req EXCEPT ![q] = new] /\ row[t].state = "live" /\ row[t].user \in Users
        BY <2>6 DEF RefreshRead, Begin, MayRotate, RowsAreRows, Exists
      <3>2. new \in RequestType /\ new.step = "rotating" /\ new.token = t /\ new.user = row[t].user
        BY <3>1 DEF RequestType, Idle
      <3>3. t # None
        BY NoneIsNeither
      <3>4. QED
        BY <2>4, <3>1, <3>2, <3>3
    <2>7. ASSUME NEW q \in Requests, NEW t \in Tokens, ReuseFound(q, t)
          PROVE  RequestsHaveTokens'
      <3> DEFINE new == [Idle EXCEPT !.step = "closing", !.token = t,
                                     !.sight = Family(row[t].family)]
      <3>1. req' = [req EXCEPT ![q] = new] /\ row[t].state = "revoked"
        BY <2>7 DEF ReuseFound
      <3>2. new \in RequestType /\ new.step = "closing" /\ new.token = t
        BY DEF RequestType, Idle, Family
      <3>3. t # None
        BY NoneIsNeither
      <3>4. QED
        BY <2>4, <3>1, <3>2, <3>3
    <2>8. ASSUME NEW q \in Requests, RefreshFlush(q) PROVE RequestsHaveTokens'
      <3> DEFINE new == [req[q] EXCEPT !.step = "issuing", !.claims = grant[req[q].user]]
      <3>1. /\ req' = [req EXCEPT ![q] = new] /\ req[q] \in RequestType
            /\ req[q].step = "rotating" /\ req[q].user \in Users /\ Exists(req[q].token)
        BY <2>8 DEF RefreshFlush, RequestsHaveTokens, TypeOK
      <3>2. grant[req[q].user] \in Grants
        BY <3>1 DEF TypeOK
      <3>3. /\ new \in RequestType /\ new.step = "issuing" /\ new.token = req[q].token
            /\ new.user = req[q].user /\ new.claims = grant[req[q].user]
        BY <3>1, <3>2 DEF RequestType
      <3>4. QED
        BY <2>4, <3>1, <3>2, <3>3 DEF Exists
    <2>9. ASSUME NEW q \in Requests, NEW u \in Users, Login(q, u) \/ VerifyMfa(q, u)
          PROVE  RequestsHaveTokens'
      <3> DEFINE new == [Idle EXCEPT !.step = "issuing", !.user = u, !.claims = grant[u]]
      <3>1. req' = [req EXCEPT ![q] = new] /\ grant[u] \in Grants
        BY <2>9 DEF Login, VerifyMfa, StartSession, TypeOK
      <3>2. /\ new \in RequestType /\ new.step = "issuing" /\ new.token = None
            /\ new.user = u /\ new.claims = grant[u]
        BY <3>1 DEF RequestType, Idle
      <3>3. QED
        BY <2>4, <3>1, <3>2
    <2>10. req' = req \/ (\E q \in Requests : CloseFamily(q) \/ RequestDies(q) \/ RefreshFlush(q)
                            \/ (\E t \in Tokens : RefreshRead(q, t) \/ ReuseFound(q, t))
                            \/ (\E u \in Users : Login(q, u) \/ VerifyMfa(q, u)))
      BY <1>2
      DEF Next, vars, Register, LoginChallenged, ConfirmMfa, ChallengeExpires, EnrollMfa,
          ChangeGrant, ChangeUser, Logout, RefreshExpires, AccessExpires
    <2>11. QED
      BY <2>2, <2>3, <2>5, <2>6, <2>7, <2>8, <2>9, <2>10
  <1>3. QED
    BY <1>1, <1>2

\* Rotations stay alone, and with them live tokens.
LEMMA RotationsStep ==
    ASSUME IInv, [Next]_vars
    PROVE  RotatesAlone' /\ AtMostOneLive'
  <1> USE DEF IInv
  <1>1. CASE \E q \in Requests, new \in Tokens : IssueCommit(q, new)
    <2>1. PICK q \in Requests, new \in Tokens : IssueCommit(q, new)
      BY <1>1
    <2>2. PICK j \in Tokens : j = Joined(q, new)
      BY <2>1, CommitAdds
    <2>3. /\ req[q].step = "issuing" /\ req'[q] = Idle
          /\ \A p \in Requests \ {q} : req'[p] = req[p]
          /\ doubled' = doubled
      <3>1. req[q].step = "issuing"
        BY <2>1 DEF IssueCommit
      <3>2. QED
        BY <2>1, <3>1, CommitAdds DEF OneRequest
    <2>4. j \notin doubled =>
            /\ LiveTokens(j)' \subseteq {new}
            /\ \A p \in Requests \ {q} : Issuing(p) => FamilyOf(p) # j
      <3>1. CASE req[q].token = None
        <4>1. Family(new) = {} /\ j = new
              /\ \A t \in Tokens : Exists(t) => row[t].family # new
          BY <2>1, <2>2, <3>1, CommitAdds, CommitStarts DEF Joined
        <4>2. LiveTokens(j)' \subseteq {new}
          BY <2>1, <2>2, <4>1, CommitFamilies DEF LiveTokens
        <4>3. \A p \in Requests : Issuing(p) => FamilyOf(p) # new
          BY <4>1 DEF Issuing, FamilyOf, RequestsHaveTokens, TypeOK, RequestType
        <4>4. QED
          BY <4>1, <4>2, <4>3
      <3>2. CASE req[q].token # None
        <4>1. Issuing(q) /\ j = FamilyOf(q)
          BY <2>2, <2>3, <3>2 DEF Issuing, Joined
        <4>2. j \notin doubled =>
                /\ LiveTokens(j) \subseteq {req[q].token}
                /\ \A p \in Requests : Issuing(p) /\ FamilyOf(p) = j => p = q
          BY <4>1 DEF RotatesAlone
        <4>3. LiveTokens(j)' \subseteq (LiveTokens(j) \ {req[q].token}) \cup {new}
          BY <2>1, <2>2, CommitFamilies
        <4>4. QED
          BY <4>2, <4>3
      <3>3. QED
        BY <3>1, <3>2
    <2>5. ASSUME NEW p \in Requests, Issuing(p)'
          PROVE  /\ p # q /\ Issuing(p) /\ req'[p].token = req[p].token
                 /\ FamilyOf(p)' = FamilyOf(p) /\ FamilyOf(p) \in Tokens
      <3>1. p # q
        BY <2>3, <2>5 DEF Issuing, Idle
      <3>2. Issuing(p) /\ req'[p].token = req[p].token
        BY <2>3, <2>5, <3>1 DEF Issuing
      <3>3. req[p].token \in Tokens /\ Exists(req[p].token)
        BY <3>2 DEF Issuing, RequestsHaveTokens, TypeOK, RequestType
      <3>4. row'[req[p].token].family = row[req[p].token].family
        BY <2>1, <3>3, CommitAdds
      <3>5. QED
        BY <3>1, <3>2, <3>3, <3>4 DEF FamilyOf, RowsAreRows
    <2>6. RotatesAlone'
      <3>1. ASSUME NEW p \in Requests, Issuing(p)', FamilyOf(p)' \notin doubled'
            PROVE  /\ LiveTokens(FamilyOf(p))' \subseteq {req'[p].token}
                   /\ \A o \in Requests : Issuing(o)' /\ FamilyOf(o)' = FamilyOf(p)' => o = p
        <4> DEFINE f == FamilyOf(p)
        <4>1. /\ p # q /\ Issuing(p) /\ req'[p].token = req[p].token /\ f \in Tokens
              /\ FamilyOf(p)' = f /\ f \notin doubled
          BY <2>3, <2>5, <3>1
        <4>2. f # j
          BY <2>4, <4>1
        <4>3. LiveTokens(f) \subseteq {req[p].token}
              /\ \A o \in Requests : Issuing(o) /\ FamilyOf(o) = f => o = p
          BY <4>1 DEF RotatesAlone
        <4>4. \A g \in Tokens : g # j => LiveTokens(g)' \subseteq LiveTokens(g)
          BY <2>1, <2>2, CommitFamilies
        <4>5. \A t : t \in LiveTokens(FamilyOf(p))' => t \in LiveTokens(f)
          BY <4>1, <4>2, <4>4 DEF LiveTokens, Family
        <4>6. \A o \in Requests : Issuing(o)' /\ FamilyOf(o)' = FamilyOf(p)' => o = p
          BY <2>5, <4>1, <4>3
        <4>7. QED
          BY <4>1, <4>3, <4>5, <4>6
      <3>2. QED
        BY <3>1 DEF RotatesAlone
    <2>7. AtMostOneLive'
      <3>1. ASSUME NEW f \in Tokens \ doubled, NEW s \in LiveTokens(f)', NEW t \in LiveTokens(f)'
            PROVE  s = t
        <4>1. CASE f = j
          BY <2>4, <3>1, <4>1
        <4>2. CASE f # j
          BY <2>1, <2>2, <3>1, <4>2, CommitFamilies DEF AtMostOneLive
        <4>3. QED
          BY <4>1, <4>2
      <3>2. QED
        BY <2>3, <3>1 DEF AtMostOneLive
    <2>8. QED
      BY <2>6, <2>7
  <1>2. CASE ~ \E q \in Requests, new \in Tokens : IssueCommit(q, new)
    <2>1. Fades
      BY <1>2, RowsFade
    <2>2. doubled \subseteq doubled'
      BY <1>2
      DEF Next, vars, history, RefreshRead, RefreshFlush, ReuseFound, CloseFamily, RequestDies,
          Login, VerifyMfa, Register, LoginChallenged, ConfirmMfa, ChallengeExpires, EnrollMfa,
          ChangeGrant, ChangeUser, Logout, RefreshExpires, AccessExpires
    <2>3. AtMostOneLive'
      BY <2>1, <2>2, FadingKeepsOneLive
    <2>4. CASE \E q \in Requests : RefreshFlush(q)
      <3>1. PICK q \in Requests : RefreshFlush(q)
        BY <2>4
      <3> DEFINE t0 == req[q].token
                 f0 == row[t0].family
      <3>2. /\ req[q].step = "rotating" /\ RowFree(t0)
            /\ t0 \in Tokens /\ Exists(t0) /\ t0 # None
            /\ row' = row /\ req'[q].step = "issuing" /\ req'[q].token = t0
            /\ \A p \in Requests \ {q} : req'[p] = req[p]
            /\ f0 \notin doubled' => row[t0].state = "live"
        BY <3>1 DEF RefreshFlush, RequestsHaveTokens, TypeOK, RequestType
      <3>3. f0 \in Tokens
        BY <3>2 DEF RowsAreRows
      <3>4. f0 \notin doubled' =>
                /\ LiveTokens(f0) \subseteq {t0}
                /\ \A p \in Requests : Issuing(p) => FamilyOf(p) # f0
        <4>1. SUFFICES ASSUME f0 \notin doubled'
                       PROVE  /\ LiveTokens(f0) \subseteq {t0}
                              /\ \A p \in Requests : Issuing(p) => FamilyOf(p) # f0
          OBVIOUS
        <4>2. t0 \in LiveTokens(f0) /\ f0 \in Tokens \ doubled
          BY <2>2, <3>2, <3>3, <4>1 DEF LiveTokens, Family
        <4>3. LiveTokens(f0) \subseteq {t0}
          BY <4>2 DEF AtMostOneLive
        <4>4. ASSUME NEW p \in Requests, Issuing(p), FamilyOf(p) = f0 PROVE FALSE
          <5>1. t0 = req[p].token
            BY <4>2, <4>4 DEF RotatesAlone
          <5>2. QED
            BY <3>2, <4>4, <5>1 DEF RowFree, Issuing
        <4>5. QED
          BY <4>3, <4>4
      <3>5. ASSUME NEW p \in Requests, Issuing(p)', FamilyOf(p)' \notin doubled'
            PROVE  /\ LiveTokens(FamilyOf(p))' \subseteq {req'[p].token}
                   /\ \A o \in Requests : Issuing(o)' /\ FamilyOf(o)' = FamilyOf(p)' => o = p
        <4>1. \A o \in Requests \ {q} : /\ Issuing(o)' <=> Issuing(o)
                                        /\ FamilyOf(o)' = FamilyOf(o)
          BY <3>2 DEF Issuing, FamilyOf
        <4>2. FamilyOf(q)' = f0
          BY <3>2 DEF FamilyOf
        <4>3. \A f : LiveTokens(f)' = LiveTokens(f)
          BY <3>2 DEF LiveTokens, Family
        <4>4. CASE p = q
          BY <3>2, <3>4, <3>5, <4>1, <4>2, <4>4 DEF LiveTokens, Family
        <4>5. CASE p # q
          <5>1. /\ Issuing(p) /\ FamilyOf(p)' = FamilyOf(p) /\ FamilyOf(p) \notin doubled
                /\ req'[p] = req[p]
            BY <2>2, <3>2, <3>5, <4>1, <4>5
          <5>2. FamilyOf(p) # f0
            BY <3>4, <3>5, <5>1
          <5>3. /\ LiveTokens(FamilyOf(p)) \subseteq {req[p].token}
                /\ \A o \in Requests : Issuing(o) /\ FamilyOf(o) = FamilyOf(p) => o = p
            BY <5>1 DEF RotatesAlone
          <5>4. \A o \in Requests : Issuing(o)' /\ FamilyOf(o)' = FamilyOf(p)' => o = p
            BY <4>1, <4>2, <5>1, <5>2, <5>3
          <5>5. LiveTokens(FamilyOf(p))' \subseteq {req'[p].token}
            BY <3>2, <5>1, <5>3 DEF LiveTokens, Family
          <5>6. QED
            BY <5>4, <5>5
        <4>6. QED
          BY <4>4, <4>5
      <3>6. RotatesAlone'
        BY <3>5 DEF RotatesAlone
      <3>7. QED
        BY <2>3, <3>6
    <2>5. CASE ~ \E q \in Requests : RefreshFlush(q)
      <3>1. \A p \in Requests : Issuing(p)' => Issuing(p) /\ req'[p].token = req[p].token
        BY <2>5, RequestsMove DEF Issuing
      <3>2. QED
        BY <2>1, <2>2, <2>3, <3>1, FadingKeepsRotations
    <2>6. QED
      BY <2>4, <2>5
  <1>3. QED
    BY <1>1, <1>2

\* What is closed stays without life, unless it was being rotated just then.
LEMMA ClosedStep ==
    ASSUME TypeOK, RowsAreRows, RequestsHaveTokens, ClosedIsLifeless, [Next]_vars
    PROVE  ClosedIsLifeless'
  <1>1. CASE \E q \in Requests : CloseFamily(q)
    <2>1. PICK q \in Requests : CloseFamily(q)
      BY <1>1
    <2>2. PICK f0 \in Tokens : f0 = row[req[q].token].family
      BY <2>1 DEF CloseFamily, RequestsHaveTokens, RowsAreRows, TypeOK, RequestType
    <2>3. /\ req[q].step = "closing" /\ req[q].token \in Tokens /\ Exists(req[q].token)
          /\ req[q].sight \in SUBSET Tokens
          /\ row' = [t \in Tokens |-> IF t \in req[q].sight THEN Spent(t) ELSE row[t]]
          /\ req' = [req EXCEPT ![q] = Idle]
          /\ closed' = closed \cup {f0} /\ late \subseteq late'
          /\ f0 \notin late' =>
                Family(f0) = req[q].sight /\ \A p \in Requests : ~Rotating(p, f0)
      BY <2>1, <2>2 DEF CloseFamily, Doomed, RequestsHaveTokens, TypeOK, RequestType
    <2>4. Fades
      BY <2>3, SpentIsRow DEF Fades, Exists
    <2>5. ASSUME f0 \notin late' PROVE Lifeless(f0)'
      <3>1. req[q].token \in Family(f0)
        BY <2>2, <2>3 DEF Family, Exists
      <3>2. Family(f0)' = Family(f0) /\ LiveTokens(f0)' \subseteq LiveTokens(f0)
        BY <2>4, FadingFamilies
      <3>3. \A t \in Family(f0) : row'[t].state # "live"
        BY <2>3, <2>5, SpentIsRow
      <3>4. LiveTokens(f0)' = {}
        BY <3>2, <3>3 DEF LiveTokens
      <3>5. \A p \in Requests : ~Rotating(p, f0)'
        <4>1. ASSUME NEW p \in Requests, Rotating(p, f0)' PROVE FALSE
          <5>1. p # q
            BY <2>3, <4>1 DEF Rotating, Idle, TypeOK
          <5>2. req'[p] = req[p]
            BY <2>3, <5>1 DEF TypeOK
          <5>3. req[p].token \in Tokens
            BY <4>1, <5>2 DEF Rotating, TypeOK, RequestType
          <5>4. Rotating(p, f0)
            BY <2>4, <4>1, <5>2, <5>3 DEF Rotating, Fades
          <5>5. QED
            BY <2>3, <2>5, <5>4
        <4>2. QED
          BY <4>1
      <3>6. QED
        BY <3>1, <3>2, <3>4, <3>5 DEF Lifeless
    <2>6. ASSUME NEW f \in closed' \ late' PROVE Lifeless(f)'
      <3>1. CASE f = f0
        BY <2>5, <2>6, <3>1
      <3>2. CASE f # f0
        <4>1. f \in closed \ late /\ f \in Tokens
          BY <2>3, <2>6, <3>2 DEF TypeOK
        <4>2. QED
          BY <4>1, LifelessStays DEF ClosedIsLifeless
      <3>3. QED
        BY <3>1, <3>2
    <2>7. QED
      BY <2>6 DEF ClosedIsLifeless
  <1>2. CASE ~ \E q \in Requests : CloseFamily(q)
    <2>1. UNCHANGED <<closed, late>>
      BY <1>2
      DEF Next, vars, history, RefreshRead, RefreshFlush, ReuseFound, IssueCommit, RequestDies,
          Login, VerifyMfa, Register, LoginChallenged, ConfirmMfa, ChallengeExpires, EnrollMfa,
          ChangeGrant, ChangeUser, Logout, RefreshExpires, AccessExpires
    <2>2. ASSUME NEW f \in closed \ late PROVE Lifeless(f)'
      BY <2>2, LifelessStays DEF ClosedIsLifeless, TypeOK
    <2>3. QED
      BY <2>1, <2>2 DEF ClosedIsLifeless
  <1>3. QED
    BY <1>1, <1>2

\* Powers are copied from those who have them, and who had them is not forgotten.
LEMMA PowerStep ==
    ASSUME TypeOK, RequestsHaveTokens, PowerWasGranted, [Next]_vars
    PROVE  PowerWasGranted'
  <1> USE DEF accounts, history
  <1>1. ASSUME UNCHANGED <<grant, empowered>>, access' \subseteq access,
               \A p \in Requests : req'[p].step = "issuing" =>
                    \/ req'[p] = req[p]
                    \/ req'[p].user \in Users /\ req'[p].claims = grant[req'[p].user]
        PROVE  PowerWasGranted'
    <2>1. \A u \in Users : Powerful(grant'[u]) => u \in empowered'
      BY <1>1 DEF PowerWasGranted
    <2>2. \A p \in Requests :
            req'[p].step = "issuing" /\ Powerful(req'[p].claims) => req'[p].user \in empowered'
      BY <1>1 DEF PowerWasGranted
    <2>3. \A a \in access' : Powerful(a.claims) => a.user \in empowered'
      BY <1>1 DEF PowerWasGranted
    <2>4. QED
      BY <2>1, <2>2, <2>3 DEF PowerWasGranted
  <1>2. ASSUME NEW q \in Requests, NEW t \in Tokens, RefreshRead(q, t) \/ ReuseFound(q, t)
        PROVE  PowerWasGranted'
    <2>1. req'[q].step # "issuing" /\ \A p \in Requests \ {q} : req'[p] = req[p]
      BY <1>2 DEF RefreshRead, Begin, ReuseFound, Idle, TypeOK
    <2>2. QED
      BY <1>1, <1>2, <2>1 DEF RefreshRead, ReuseFound
  <1>3. ASSUME NEW q \in Requests, RefreshFlush(q) PROVE PowerWasGranted'
    <2>1. /\ req'[q].user \in Users /\ req'[q].claims = grant[req'[q].user]
          /\ \A p \in Requests \ {q} : req'[p] = req[p]
      BY <1>3 DEF RefreshFlush, RequestsHaveTokens, TypeOK, RequestType
    <2>2. QED
      BY <1>1, <1>3, <2>1 DEF RefreshFlush
  <1>4. ASSUME NEW q \in Requests, NEW t \in Tokens, IssueCommit(q, t) PROVE PowerWasGranted'
    <2>1. /\ req[q].step = "issuing" /\ UNCHANGED <<grant, empowered>>
          /\ access' = access \cup {[user |-> req[q].user, claims |-> req[q].claims]}
          /\ req'[q].step # "issuing" /\ \A p \in Requests \ {q} : req'[p] = req[p]
      BY <1>4 DEF IssueCommit, Idle, TypeOK
    <2>2. \A a \in access' : Powerful(a.claims) => a.user \in empowered'
      BY <2>1 DEF PowerWasGranted
    <2>3. \A p \in Requests :
            req'[p].step = "issuing" /\ Powerful(req'[p].claims) => req'[p].user \in empowered'
      BY <2>1 DEF PowerWasGranted
    <2>4. \A u \in Users : Powerful(grant'[u]) => u \in empowered'
      BY <2>1 DEF PowerWasGranted
    <2>5. QED
      BY <2>2, <2>3, <2>4 DEF PowerWasGranted
  <1>5. ASSUME NEW q \in Requests, CloseFamily(q) \/ RequestDies(q) PROVE PowerWasGranted'
    <2>1. req'[q].step # "issuing" /\ \A p \in Requests \ {q} : req'[p] = req[p]
      BY <1>5 DEF CloseFamily, RequestDies, Idle, TypeOK
    <2>2. QED
      BY <1>1, <1>5, <2>1 DEF CloseFamily, RequestDies
  <1>6. ASSUME NEW q \in Requests, NEW u \in Users, Login(q, u) \/ VerifyMfa(q, u)
        PROVE  PowerWasGranted'
    <2>1. /\ req'[q].user = u /\ req'[q].claims = grant[u]
          /\ \A p \in Requests \ {q} : req'[p] = req[p]
      BY <1>6 DEF Login, VerifyMfa, StartSession, Idle, TypeOK
    <2>2. QED
      BY <1>1, <1>6, <2>1 DEF Login, VerifyMfa
  <1>7. ASSUME NEW u \in Users, NEW G \in Grants, grant' = [grant EXCEPT ![u] = G],
               empowered \subseteq empowered', Powerful(G) => u \in empowered',
               UNCHANGED <<access, req>>
        PROVE  PowerWasGranted'
    <2>1. \A v \in Users : Powerful(grant'[v]) => v \in empowered'
      BY <1>7 DEF PowerWasGranted, TypeOK
    <2>2. QED
      BY <1>7, <2>1 DEF PowerWasGranted
  <1>8. ASSUME NEW u \in Users, NEW G \in Grants, Register(u) \/ ChangeGrant(u, G)
        PROVE  PowerWasGranted'
    BY <1>7, <1>8 DEF Register, ChangeGrant
  <1>9. ASSUME NEW u \in Users, Register(u) PROVE PowerWasGranted'
    BY <1>7, <1>9 DEF Register
  <1>10. ASSUME NEW u \in Users,
                \/ LoginChallenged(u) \/ ConfirmMfa(u) \/ ChallengeExpires(u)
                \/ \E s \in Secrets : EnrollMfa(u, s)
                \/ \E life \in {"live", "deleted"}, on \in BOOLEAN : ChangeUser(u, life, on)
         PROVE  PowerWasGranted'
    BY <1>1, <1>10 DEF LoginChallenged, ConfirmMfa, ChallengeExpires, EnrollMfa, ChangeUser
  <1>11. ASSUME NEW t \in Tokens, Logout(t) \/ RefreshExpires(t) PROVE PowerWasGranted'
    BY <1>1, <1>11 DEF Logout, RefreshExpires
  <1>12. ASSUME NEW a \in access, AccessExpires(a) PROVE PowerWasGranted'
    BY <1>1, <1>12 DEF AccessExpires
  <1>13. CASE UNCHANGED vars
    BY <1>1, <1>13 DEF vars
  <1>14. QED
    BY <1>2, <1>3, <1>4, <1>5, <1>6, <1>8, <1>9, <1>10, <1>11, <1>12, <1>13 DEF Next

LEMMA IInvStep == IInv /\ [Next]_vars => IInv'
  <1> SUFFICES ASSUME IInv, [Next]_vars PROVE IInv'
    OBVIOUS
  <1>1. TypeOK'
    BY TypeStep DEF IInv
  <1>2. RowsAreRows' /\ RequestsHaveTokens'
    BY <1>1, RowsStep DEF IInv
  <1>3. RotatesAlone' /\ AtMostOneLive'
    BY RotationsStep
  <1>4. ClosedIsLifeless'
    BY ClosedStep DEF IInv
  <1>5. PowerWasGranted'
    BY PowerStep DEF IInv
  <1>6. QED
    BY <1>1, <1>2, <1>3, <1>4, <1>5 DEF IInv

----------------------------------------------------------------------------
(* The codes of the endpoints                                              *)

\* An endpoint that changes something asks for a code that opens no listing.
LEMMA WritesAskForPower ==
    ASSUME NEW op \in Operations \ Reads
    PROVE  Code(op) \notin ReadCodes
  <1>1. ASSUME op \in DOMAIN UserCodes PROVE UserCodes[op] \notin ReadCodes
    BY <1>1 DEF UserCodes, Reads, ReadCodes
  <1>2. ASSUME op \in DOMAIN RoleCodes PROVE RoleCodes[op] \notin ReadCodes
    BY <1>2 DEF RoleCodes, Reads, ReadCodes
  <1>3. ASSUME op \in DOMAIN DepartmentCodes PROVE DepartmentCodes[op] \notin ReadCodes
    BY <1>3 DEF DepartmentCodes, Reads, ReadCodes
  <1>4. ASSUME op \in DOMAIN DesignationCodes PROVE DesignationCodes[op] \notin ReadCodes
    BY <1>4 DEF DesignationCodes, Reads, ReadCodes
  <1>5. QED
    BY <1>1, <1>2, <1>3, <1>4 DEF Code, Operations

----------------------------------------------------------------------------
(* Theorems                                                                *)

\* The inductive invariant holds throughout, for any users, requests and grants.
THEOREM SessionsInvariance == Spec => []IInv
  BY InitIInv, IInvStep, PTL DEF Spec

\* A family has at most one live refresh token, unless one of its tokens was used
\* twice at a time.
THEOREM OneTokenGoesOn == Spec => []OneLiveToken
  <1>1. ASSUME AtMostOneLive, NEW f \in Tokens \ doubled
        PROVE  Cardinality(LiveTokens(f)) <= 1
    <2>1. CASE LiveTokens(f) = {}
      BY <2>1, FS_EmptySet
    <2>2. CASE LiveTokens(f) # {}
      <3>1. PICK t : t \in LiveTokens(f)
        BY <2>2
      <3>2. LiveTokens(f) = {t}
        BY <1>1, <3>1 DEF AtMostOneLive
      <3>3. QED
        BY <3>2, FS_Singleton
    <2>3. QED
      BY <2>1, <2>2
  <1>2. IInv => OneLiveToken
    BY <1>1 DEF IInv, OneLiveToken
  <1>3. QED
    BY <1>2, SessionsInvariance, PTL

\* A used token that comes back ends its whole family, unless the family was being
\* rotated at that moment.
THEOREM ReuseEndsFamily == Spec => []ReuseClosesFamily
  <1>1. IInv => ReuseClosesFamily
    BY DEF IInv, ClosedIsLifeless, Lifeless, ReuseClosesFamily
  <1>2. QED
    BY <1>1, SessionsInvariance, PTL

\* A session that has ended, in whatever way, is not revived.
THEOREM EndedSessionsStayEnded == Spec => DeadFamilyStaysDead
  <1>1. ASSUME IInv, [Next]_vars, NEW f \in Tokens, Family(f) # {}, LiveTokens(f) = {},
               \A q \in Requests : ~Rotating(q, f)
        PROVE  LiveTokens(f)' = {} /\ \A q \in Requests : ~Rotating(q, f)'
    <2>1. Lifeless(f)
      BY <1>1 DEF Lifeless
    <2>2. Lifeless(f)'
      BY <1>1, <2>1, LifelessStays DEF IInv
    <2>3. QED
      BY <2>2 DEF Lifeless
  <1>2. IInv /\ [Next]_vars =>
            \A f \in Tokens :
                (Family(f) # {} /\ LiveTokens(f) = {} /\ \A q \in Requests : ~Rotating(q, f))
                    => LiveTokens(f)' = {} /\ \A q \in Requests : ~Rotating(q, f)'
    BY <1>1
  <1>3. QED
    BY <1>2, SessionsInvariance, PTL DEF Spec, DeadFamilyStaysDead

\* Whoever was never granted more than reading changes nothing, with any token.
THEOREM ReadersChangeNothing == Spec => []ReadersNeverWrite
  <1>1. ASSUME IInv, NEW a \in access, NEW op \in Operations \ Reads, MayServe(a, op)
        PROVE  a.user \in empowered
    <2>1. Powerful(a.claims)
      BY <1>1, WritesAskForPower DEF MayServe, Powerful
    <2>2. QED
      BY <1>1, <2>1 DEF IInv, PowerWasGranted
  <1>2. IInv => ReadersNeverWrite
    BY <1>1 DEF ReadersNeverWrite
  <1>3. QED
    BY <1>2, SessionsInvariance, PTL
=============================================================================
