----------------------- MODULE RefreshSessionsProofs -----------------------
(***************************************************************************)
(* The invariants of RefreshSessions for every set of accounts, sessions   *)
(* and concurrent requests.                                                *)
(*                                                                         *)
(* None of them is inductive alone, because a save brings back rows from a *)
(* list that was read at any earlier time.  The inductive invariant speaks *)
(* of all the tables there are: refresh_sessions itself, and what every    *)
(* pending request has read and is going to write.  They agree pairwise on *)
(* what never changes (TablesInv); a list differs from what was read only  *)
(* by revocations and by a new row whose family is nowhere else (ListsInv);*)
(* and, until an update is lost, every family is one chain that is dead    *)
(* once it has been ended (ChainsInv).                                     *)
(***************************************************************************)
EXTENDS RefreshSessions, TLAPS

Tables == {rows} \cup {pending[r].read : r \in Request} \cup {pending[r].list : r \in Request}

(* A successor exists, in the same account and family, and its predecessor is over. *)
Chain(t) ==
    \A s \in DOMAIN t : t[s].next # Null =>
        /\ t[s].revoked
        /\ t[s].next \in DOMAIN t \ {s}
        /\ t[t[s].next].user = t[s].user
        /\ t[t[s].next].family = t[s].family

FamiliesIn(t, ids) == \A s \in DOMAIN t : t[s].family \in ids

(* What two versions of the table cannot disagree about: the family of a session, the
   account of a family, and who was replaced by a given successor. *)
Agree(t, u) ==
    \A a \in DOMAIN t, b \in DOMAIN u :
        /\ a = b => t[a].family = u[b].family
        /\ t[a].family = u[b].family => t[a].user = u[b].user
        /\ t[a].next = u[b].next /\ t[a].next # Null => a = b

TablesInv ==
    /\ \A t \in Tables : Chain(t) /\ FamiliesIn(t, issued)
    /\ \A t, u \in Tables : Agree(t, u)

Added(p) == DOMAIN p.list \ DOMAIN p.read

(* The list is what was read, with some rows revoked and perhaps a row added. *)
Derived(p) ==
    /\ DOMAIN p.read \subseteq DOMAIN p.list
    /\ \A s \in DOMAIN p.read : p.list[s] = p.read[s] \/ p.list[s] = Revoked(p.read[s])

(* Nobody else knows the family of a row that a login is about to add. *)
Alone(r) ==
    \A s \in Added(pending[r]) :
        /\ pending[r].list[s].family = s
        /\ pending[r].list[s].next = Null
        /\ s \notin ended
        /\ \A x \in DOMAIN rows : rows[x].family # s
        /\ \A q \in Request \ {r} :
               \A x \in DOMAIN pending[q].list : pending[q].list[x].family # s

ListsInv == \A r \in Request : Derived(pending[r]) /\ Alone(r)

OneTip ==
    \A s, t \in DOMAIN rows :
        /\ rows[s].next = Null /\ rows[t].next = Null
        /\ rows[s].family = rows[t].family
        => s = t

EndedDead == \A s \in DOMAIN rows : rows[s].family \in ended => rows[s].revoked

ChainsInv == /\ ended \subseteq issued
             /\ ~lost => OneTip /\ EndedDead

(* A table over a set of ids, and the types of the variables with requests as records. *)
Table(ids) == UNION {[S -> Row] : S \in SUBSET ids}

Typed ==
    /\ status \in [User -> Status]
    /\ issued \subseteq Session
    /\ rows \in Table(issued)
    /\ expired \subseteq issued
    /\ pending \in [Request -> [phase : {"idle", "authenticated", "saving"},
                                user : User \cup {Null},
                                read : Table(issued), list : Table(issued)]]
    /\ \A r \in Request : pending[r].phase = "authenticated" => pending[r].user \in User
    /\ audit \in {Null} \cup ({"refresh_concurrent_rejected", "refresh_reuse_or_invalid"} \X Session)
    /\ lost \in BOOLEAN
    /\ ended \subseteq Session

IInv == Typed /\ TablesInv /\ ListsInv /\ ChainsInv

-----------------------------------------------------------------------------
(* Lemmas about tables: what the operators the handlers are built from preserve. *)

(* A table is a function from issued ids to rows. *)
LEMMA TableMember ==
    ASSUME NEW ids, NEW t
    PROVE  t \in Table(ids) <=> DOMAIN t \subseteq ids /\ t \in [DOMAIN t -> Row]
<1>1. ASSUME t \in Table(ids) PROVE DOMAIN t \subseteq ids /\ t \in [DOMAIN t -> Row]
    <2>1. PICK S \in SUBSET ids : t \in [S -> Row]  BY <1>1 DEF Table
    <2> QED  BY <2>1
<1>2. ASSUME DOMAIN t \subseteq ids, t \in [DOMAIN t -> Row] PROVE t \in Table(ids)
    BY <1>2 DEF Table
<1> QED  BY <1>1, <1>2

(* More issued ids, more tables. *)
LEMMA TableMonotone ==
    ASSUME NEW ids, NEW more, ids \subseteq more
    PROVE  Table(ids) \subseteq Table(more)
BY TableMember

(* The table of a fresh database, and of an idle request, is a table over any ids. *)
LEMMA EmptyTable == ASSUME NEW ids PROVE Empty \in Table(ids) /\ DOMAIN Empty = {}
BY TableMember DEF Empty

(* Revoking rows keeps a table a table, with the same domain. *)
LEMMA RevokeTable ==
    ASSUME NEW ids, NEW t \in Table(ids), NEW R
    PROVE  /\ Revoke(t, R) \in Table(ids)
           /\ DOMAIN Revoke(t, R) = DOMAIN t
           /\ \A s \in DOMAIN t :
                  /\ t[s] \in Row
                  /\ Revoke(t, R)[s].user = t[s].user
                  /\ Revoke(t, R)[s].family = t[s].family
                  /\ Revoke(t, R)[s].next = t[s].next
                  /\ (Revoke(t, R)[s].revoked <=> t[s].revoked \/ s \in R)
                  /\ Revoke(t, R)[s] = t[s] \/ Revoke(t, R)[s] = Revoked(t[s])
<1>1. DOMAIN t \subseteq ids /\ t \in [DOMAIN t -> Row]  BY TableMember
<1>2. \A s \in DOMAIN t : /\ t[s] \in Row
                          /\ Revoked(t[s]) \in Row
                          /\ Revoked(t[s]).user = t[s].user
                          /\ Revoked(t[s]).family = t[s].family
                          /\ Revoked(t[s]).next = t[s].next
                          /\ Revoked(t[s]).revoked = TRUE
    BY <1>1 DEF Row, Revoked
<1>3. DOMAIN Revoke(t, R) = DOMAIN t  BY DEF Revoke
<1>4. \A s \in DOMAIN t : Revoke(t, R)[s] = IF s \in R THEN Revoked(t[s]) ELSE t[s]
    BY DEF Revoke
<1>5. Revoke(t, R) \in [DOMAIN t -> Row]  BY <1>1, <1>2 DEF Revoke
<1>6. \A s \in DOMAIN t : t[s].revoked \in BOOLEAN  BY <1>2 DEF Row
<1> QED  BY <1>1, <1>2, <1>3, <1>4, <1>5, <1>6, TableMember

(* An upsert is a table whose rows are those of the list, and the table's where the list
   has none. *)
LEMMA UpsertTable ==
    ASSUME NEW ids, NEW t \in Table(ids), NEW l \in Table(ids)
    PROVE  /\ Upsert(t, l) \in Table(ids)
           /\ DOMAIN Upsert(t, l) = DOMAIN t \cup DOMAIN l
           /\ \A s \in DOMAIN l : Upsert(t, l)[s] = l[s] /\ l[s] \in Row
           /\ \A s \in DOMAIN t \ DOMAIN l : Upsert(t, l)[s] = t[s] /\ t[s] \in Row
<1>1. /\ DOMAIN t \subseteq ids /\ t \in [DOMAIN t -> Row]
      /\ DOMAIN l \subseteq ids /\ l \in [DOMAIN l -> Row]
    BY TableMember
<1>2. Upsert(t, l) \in [DOMAIN t \cup DOMAIN l -> Row]  BY <1>1 DEF Upsert
<1> QED  BY <1>1, <1>2, TableMember DEF Upsert

(* Agreement of two versions of the table has no direction. *)
LEMMA AgreeSymmetric ==
    ASSUME NEW t, NEW u, Agree(t, u)
    PROVE  Agree(u, t)
BY DEF Agree

(* Revoking rows disturbs neither the chains nor the agreement with another version. *)
LEMMA RevokeChain ==
    ASSUME NEW ids, NEW t \in Table(ids), NEW R, Chain(t)
    PROVE  Chain(Revoke(t, R))
<1> DEFINE w == Revoke(t, R)
<1>1. /\ DOMAIN w = DOMAIN t
      /\ \A s \in DOMAIN t : /\ w[s].user = t[s].user
                             /\ w[s].family = t[s].family
                             /\ w[s].next = t[s].next
                             /\ (w[s].revoked <=> t[s].revoked \/ s \in R)
    BY RevokeTable
<1> HIDE DEF w
<1>2. Chain(w)  BY <1>1 DEF Chain
<1> QED  BY <1>2 DEF w

(* A version with some rows revoked agrees with whatever the version before agreed with. *)
LEMMA RevokeAgree ==
    ASSUME NEW ids, NEW t \in Table(ids), NEW R, NEW u, Agree(t, u)
    PROVE  Agree(Revoke(t, R), u)
<1> DEFINE w == Revoke(t, R)
<1>1. /\ DOMAIN w = DOMAIN t
      /\ \A s \in DOMAIN t : /\ w[s].user = t[s].user
                             /\ w[s].family = t[s].family
                             /\ w[s].next = t[s].next
    BY RevokeTable
<1> HIDE DEF w
<1>2. Agree(w, u)  BY <1>1 DEF Agree
<1> QED  BY <1>2 DEF w

(* Versions that agree can be merged by an upsert. *)
LEMMA UpsertChain ==
    ASSUME NEW ids, NEW t \in Table(ids), NEW l \in Table(ids),
           Chain(t), Chain(l), Agree(t, l)
    PROVE  Chain(Upsert(t, l))
<1> DEFINE w == Upsert(t, l)
<1>0. /\ DOMAIN w = DOMAIN t \cup DOMAIN l
      /\ \A s \in DOMAIN l : w[s] = l[s]
      /\ \A s \in DOMAIN t \ DOMAIN l : w[s] = t[s]
    BY DEF Upsert
<1> HIDE DEF w
<1>1. SUFFICES ASSUME NEW s \in DOMAIN w, w[s].next # Null
               PROVE  /\ w[s].revoked
                      /\ w[s].next \in DOMAIN w \ {s}
                      /\ w[w[s].next].user = w[s].user
                      /\ w[w[s].next].family = w[s].family
    <2>1. Chain(w)  BY <1>1 DEF Chain
    <2> QED  BY <2>1 DEF w
<1>2. CASE s \in DOMAIN l
    <2>1. w[s] = l[s]  BY <1>0, <1>2
    <2>2. l[s].revoked /\ l[s].next \in DOMAIN l \ {s} /\ l[l[s].next].user = l[s].user
          /\ l[l[s].next].family = l[s].family
        BY <1>1, <1>2, <2>1 DEF Chain
    <2>3. w[l[s].next] = l[l[s].next]  BY <1>0, <2>2
    <2> QED  BY <1>0, <2>1, <2>2, <2>3
<1>3. CASE s \in DOMAIN t \ DOMAIN l
    <2> DEFINE n == t[s].next
    <2>1. w[s] = t[s]  BY <1>0, <1>3
    <2>2. n \in DOMAIN t \ {s} /\ t[s].revoked /\ t[n].user = t[s].user /\ t[n].family = t[s].family
        BY <1>1, <1>3, <2>1 DEF Chain
    <2>3. w[n].family = t[n].family /\ w[n].user = t[n].user
        <3>1. CASE n \in DOMAIN l
            <4>1. t[n].family = l[n].family  BY <2>2, <3>1 DEF Agree
            <4>2. t[n].user = l[n].user  BY <2>2, <3>1, <4>1 DEF Agree
            <4> QED  BY <1>0, <3>1, <4>1, <4>2
        <3>2. CASE n \notin DOMAIN l
            BY <1>0, <2>2, <3>2
        <3> QED  BY <3>1, <3>2
    <2> QED  BY <1>0, <2>1, <2>2, <2>3
<1> QED  BY <1>0, <1>1, <1>2, <1>3

(* An upsert of two versions that both agree with a third agrees with it as well. *)
LEMMA UpsertAgree ==
    ASSUME NEW ids, NEW t \in Table(ids), NEW l \in Table(ids), NEW u,
           Agree(t, u), Agree(l, u)
    PROVE  Agree(Upsert(t, l), u)
<1> DEFINE w == Upsert(t, l)
<1>1. /\ DOMAIN w = DOMAIN t \cup DOMAIN l
      /\ \A s \in DOMAIN l : w[s] = l[s]
      /\ \A s \in DOMAIN t \ DOMAIN l : w[s] = t[s]
    BY DEF Upsert
<1> HIDE DEF w
<1>2. Agree(w, u)  BY <1>1 DEF Agree
<1> QED  BY <1>2 DEF w

(* An upsert has no families but those of the two versions. *)
LEMMA UpsertFamilies ==
    ASSUME NEW ids, NEW t \in Table(ids), NEW l \in Table(ids), NEW F,
           FamiliesIn(t, F), FamiliesIn(l, F)
    PROVE  FamiliesIn(Upsert(t, l), F)
<1> DEFINE w == Upsert(t, l)
<1>1. /\ DOMAIN w = DOMAIN t \cup DOMAIN l
      /\ \A s \in DOMAIN l : w[s] = l[s]
      /\ \A s \in DOMAIN t \ DOMAIN l : w[s] = t[s]
    BY DEF Upsert
<1> HIDE DEF w
<1>2. FamiliesIn(w, F)  BY <1>1 DEF FamiliesIn
<1> QED  BY <1>2 DEF w

-----------------------------------------------------------------------------
(* Type correctness. *)

PendingOver(ids) == [phase : {"idle", "authenticated", "saving"}, user : User \cup {Null},
                     read : Table(ids), list : Table(ids)]

(* An idle request is well typed. *)
LEMMA IdleType ==
    ASSUME NEW ids
    PROVE  Idle \in PendingOver(ids) /\ Idle.read = Empty /\ Idle.list = Empty
BY EmptyTable DEF Idle, PendingOver

(* The pending requests stay well typed when more ids are issued. *)
LEMMA PendingMonotone ==
    ASSUME NEW ids, NEW more, ids \subseteq more
    PROVE  PendingOver(ids) \subseteq PendingOver(more)
<1>1. Table(ids) \subseteq Table(more)  BY TableMonotone
<1> QED  BY <1>1 DEF PendingOver

(* The table of one new row, and the table with that row added. *)
LEMMA NewRowTable ==
    ASSUME NEW ids, NEW t \in Table(ids), NEW u \in User, NEW s \in Session
    PROVE  /\ [x \in {s} |-> NewRow(u, s)] \in Table(ids \cup {s})
           /\ Upsert(t, [x \in {s} |-> NewRow(u, s)]) \in Table(ids \cup {s})
<1>1. NewRow(u, s) \in Row  BY DEF NewRow, Row
<1>2. [x \in {s} |-> NewRow(u, s)] \in Table(ids \cup {s})  BY <1>1, TableMember
<1>3. t \in Table(ids \cup {s})  BY TableMonotone
<1> QED  BY <1>2, <1>3, UpsertTable

(* The two rows a rotation writes. *)
RotatedRows(s, n) == [x \in {s, n} |-> IF x = n THEN NewRow(rows[s].user, rows[s].family)
                                       ELSE [Revoked(rows[s]) EXCEPT !.next = n]]

(* A rotation is the upsert of its two rows, and gives a table again. *)
LEMMA RotatedTable ==
    ASSUME Typed, NEW s \in DOMAIN rows, NEW n \in Session \ issued
    PROVE  /\ rows \in Table(issued \cup {n})
           /\ RotatedRows(s, n) \in Table(issued \cup {n})
           /\ Rotated(s, n) = Upsert(rows, RotatedRows(s, n))
           /\ Rotated(s, n) \in Table(issued \cup {n})
<1>1. DOMAIN rows \subseteq issued /\ rows[s] \in Row  BY TableMember DEF Typed
<1>2. /\ NewRow(rows[s].user, rows[s].family) \in Row
      /\ [Revoked(rows[s]) EXCEPT !.next = n] \in Row
    BY <1>1 DEF NewRow, Revoked, Row
<1>3. RotatedRows(s, n) \in Table(issued \cup {n})
    BY <1>1, <1>2, TableMember DEF RotatedRows
<1>4. rows \in Table(issued \cup {n})  BY TableMonotone DEF Typed
<1>5. Rotated(s, n) = Upsert(rows, RotatedRows(s, n))  BY DEF Rotated, RotatedRows
<1>6. Upsert(rows, RotatedRows(s, n)) \in Table(issued \cup {n})  BY <1>3, <1>4, UpsertTable
<1> QED  BY <1>3, <1>4, <1>5, <1>6

(* Every step of every handler keeps the types. *)
LEMMA TypeStep == Typed /\ [Next]_vars => Typed'
<1> SUFFICES ASSUME Typed, [Next]_vars PROVE Typed'
    OBVIOUS
<1>t. /\ rows \in Table(issued)
      /\ DOMAIN rows \subseteq issued
      /\ issued \subseteq Session
      /\ \A s \in DOMAIN rows : rows[s] \in Row
    BY TableMember DEF Typed
<1>p. /\ pending \in [Request -> PendingOver(issued)]
      /\ \A r \in Request : pending[r].phase = "authenticated" => pending[r].user \in User
    BY DEF Typed, PendingOver
(* A step that changes one request only. *)
<1>a. ASSUME NEW r \in Request, NEW p \in PendingOver(issued'), issued \subseteq issued',
             p.phase = "authenticated" => p.user \in User,
             pending' = [pending EXCEPT ![r] = p]
      PROVE  /\ pending' \in [Request -> PendingOver(issued')]
             /\ \A q \in Request : pending'[q].phase = "authenticated" => pending'[q].user \in User
    <2>1. pending \in [Request -> PendingOver(issued')]  BY <1>p, <1>a, PendingMonotone
    <2> QED  BY <1>a, <1>p, <2>1
<1>b. ASSUME NEW r \in Request, NEW l \in Table(issued'), issued \subseteq issued',
             ReadAndChange(r, l)
      PROVE  /\ pending' \in [Request -> PendingOver(issued')]
             /\ \A q \in Request : pending'[q].phase = "authenticated" => pending'[q].user \in User
    <2> DEFINE p == [pending[r] EXCEPT !.phase = "saving", !.read = rows, !.list = l]
    <2>1. pending[r] \in PendingOver(issued')  BY <1>p, <1>b, PendingMonotone
    <2>2. rows \in Table(issued')  BY <1>t, <1>b, TableMonotone
    <2>3. p \in PendingOver(issued') /\ p.phase = "saving"  BY <1>b, <2>1, <2>2 DEF PendingOver
    <2>4. pending' = [pending EXCEPT ![r] = p]  BY <1>b DEF ReadAndChange
    <2> QED  BY <1>a, <1>b, <2>3, <2>4
<1>1. ASSUME NEW r \in Request, NEW u \in User, Authenticate(r, u) PROVE Typed'
    <2> DEFINE p == [Idle EXCEPT !.phase = "authenticated", !.user = u]
    <2>1. p \in PendingOver(issued') /\ p.user \in User
        BY IdleType DEF PendingOver
    <2>2. pending' = [pending EXCEPT ![r] = p] /\ issued' = issued  BY <1>1 DEF Authenticate
    <2>3. pending' \in [Request -> PendingOver(issued')]  BY <1>a, <2>1, <2>2
    <2>4. \A q \in Request : pending'[q].phase = "authenticated" => pending'[q].user \in User
        BY <1>a, <2>1, <2>2
    <2> QED  BY <1>1, <2>3, <2>4 DEF Authenticate, Typed, PendingOver
<1>2. ASSUME NEW r \in Request, NEW s \in Session, ReadForLogin(r, s) PROVE Typed'
    <2> DEFINE l == Upsert(rows, [x \in {s} |-> NewRow(pending[r].user, s)])
    <2>1. pending[r].user \in User  BY <1>2, <1>p DEF ReadForLogin
    <2>2. issued' = issued \cup {s} /\ rows' = rows  BY <1>2 DEF ReadForLogin
    <2>3. l \in Table(issued')  BY <1>t, <2>1, <2>2, NewRowTable
    <2>4. rows' \in Table(issued')  BY <1>t, <2>2, TableMonotone
    <2>5. ReadAndChange(r, l)  BY <1>2 DEF ReadForLogin
    <2> HIDE DEF l
    <2> QED  BY <1>2, <1>b, <2>2, <2>3, <2>4, <2>5 DEF ReadForLogin, Typed, PendingOver
<1>3. ASSUME NEW r \in Request, NEW R, ReadAndChange(r, Revoke(rows, R)),
             UNCHANGED <<status, rows, expired, issued, audit, lost, ended>>
      PROVE Typed'
    <2>1. Revoke(rows, R) \in Table(issued')  BY <1>t, <1>3, RevokeTable
    <2> QED  BY <1>3, <1>b, <2>1 DEF Typed, PendingOver
<1>4. ASSUME NEW r \in Request, pending' = [pending EXCEPT ![r] = Idle], issued' = issued,
             rows' \in Table(issued), lost' \in BOOLEAN, ended' \subseteq Session,
             UNCHANGED <<status, expired, audit>>
      PROVE Typed'
    <2>1. Idle \in PendingOver(issued') /\ Idle.phase = "idle"  BY IdleType DEF Idle
    <2> QED  BY <1>4, <1>a, <2>1 DEF Typed, PendingOver
<1>5. ASSUME NEW r \in Request, Save(r) PROVE Typed'
    <2> DEFINE p == pending[r]
    <2>1. p.read \in Table(issued) /\ p.list \in Table(issued)  BY <1>p DEF PendingOver
    <2>2. rows' \in Table(issued)  BY <1>t, <1>5, <2>1, UpsertTable DEF Save
    <2>3. Families(p.read, Revoking(p)) \subseteq Session
        BY <2>1, TableMember DEF Families, Revoking, Row
    <2> QED  BY <1>4, <1>5, <2>2, <2>3 DEF Save, Typed
<1>6. ASSUME NEW r \in Request, Abort(r) PROVE Typed'
    BY <1>4, <1>6 DEF Abort, Typed
<1>7. ASSUME UNCHANGED pending, issued \subseteq issued', issued' \subseteq Session,
             rows' \in Table(issued'), status' \in [User -> Status], expired' \subseteq issued',
             audit' \in {Null} \cup ({"refresh_concurrent_rejected", "refresh_reuse_or_invalid"} \X Session),
             lost' = lost, ended' \subseteq Session
      PROVE Typed'
    <2>1. pending' \in [Request -> PendingOver(issued')]  BY <1>p, <1>7, PendingMonotone
    <2> QED  BY <1>p, <1>7, <2>1 DEF Typed, PendingOver
<1>8. ASSUME NEW s \in Session, NEW n \in Session, RefreshRotate(s, n) PROVE Typed'
    <2>1. rows' \in Table(issued')  BY <1>8, RotatedTable DEF RefreshRotate
    <2> QED  BY <1>7, <1>8, <2>1 DEF RefreshRotate, Typed
<1>9. ASSUME NEW s \in Session, RefreshConcurrent(s) PROVE Typed'
    BY <1>7, <1>9 DEF RefreshConcurrent, Typed
<1>10. ASSUME NEW s \in Session, RefreshReuse(s) PROVE Typed'
    <2>1. rows' \in Table(issued') /\ rows[s].family \in Session
        BY <1>t, <1>10, RevokeTable DEF RefreshReuse, Row
    <2> QED  BY <1>7, <1>10, <2>1 DEF RefreshReuse, Typed
<1>11. ASSUME NEW s \in Session, Expire(s) PROVE Typed'
    BY <1>7, <1>11, <1>t DEF Expire, Typed
<1>12. ASSUME NEW u \in User, RevokeUserSessions(u) PROVE Typed'
    <2>1. rows' \in Table(issued') /\ Families(rows, OwnedBy(rows, u)) \subseteq Session
        BY <1>t, <1>12, RevokeTable DEF RevokeUserSessions, Families, OwnedBy, Row
    <2> QED  BY <1>7, <1>12, <2>1 DEF RevokeUserSessions, Typed
<1>13. ASSUME NEW u \in User, NEW s \in Session, RedeemInvitation(u, s) PROVE Typed'
    <2>1. rows' \in Table(issued')  BY <1>t, <1>13, NewRowTable DEF RedeemInvitation
    <2> QED  BY <1>7, <1>13, <2>1 DEF RedeemInvitation, Typed
<1>14. ASSUME NEW u \in User, DeleteUser(u) PROVE Typed'
    <2>1. rows' \in Table(issued')  BY <1>t, <1>14, TableMember DEF DeleteUser
    <2> QED  BY <1>7, <1>14, <2>1 DEF DeleteUser, Typed, Status
<1>15. ASSUME NEW u \in User, ChangeStatus(u) \/ RestoreUser(u) PROVE Typed'
    BY <1>7, <1>15 DEF ChangeStatus, RestoreUser, Typed, Status
<1>16. CASE UNCHANGED vars
    BY <1>7, <1>16 DEF Typed, vars
<1>17. ASSUME NEW r \in Request, RequestStep(r) PROVE Typed'
    <2>1. ASSUME ReadForLogoutAll(r) PROVE Typed'
        BY <1>3, <2>1 DEF ReadForLogoutAll
    <2>2. ASSUME NEW s \in Session, ReadForSessionDelete(r, s) \/ ReadForLogout(r, s) PROVE Typed'
        BY <1>3, <2>2 DEF ReadForSessionDelete, ReadForLogout
    <2> QED  BY <1>1, <1>2, <1>5, <1>6, <1>17, <2>1, <2>2 DEF RequestStep
<1> QED
    BY <1>8, <1>9, <1>10, <1>11, <1>12, <1>13, <1>14, <1>15, <1>16, <1>17
       DEF Next, RefreshStep, AccountStep

(* Type correctness of every reachable state. *)
THEOREM TypeCorrect == Spec => []TypeOK
<1>1. Init => Typed
    <2> SUFFICES ASSUME Init PROVE Typed
        OBVIOUS
    <2>1. pending \in [Request -> PendingOver(issued)]  BY IdleType DEF Init
    <2>2. \A r \in Request : pending[r].phase = "idle"  BY DEF Init, Idle
    <2>3. rows \in Table(issued)  BY EmptyTable DEF Init
    <2> QED  BY <2>1, <2>2, <2>3 DEF Init, Typed, PendingOver, Status
<1>2. Typed => TypeOK
    BY TableMember DEF Typed, TypeOK, IsTable
<1> QED  BY <1>1, <1>2, TypeStep, PTL DEF Spec

-----------------------------------------------------------------------------
(* All the tables there are, and how they evolve. *)

(* The table and the lists of the pending requests are tables over the issued ids. *)
LEMMA TablesTyped ==
    ASSUME Typed
    PROVE  /\ rows \in Tables
           /\ \A r \in Request : pending[r].read \in Tables /\ pending[r].list \in Tables
           /\ \A t \in Tables : /\ t \in Table(issued)
                                /\ DOMAIN t \subseteq issued
                                /\ \A s \in DOMAIN t : t[s] \in Row
<1>1. \A t \in Tables : t \in Table(issued)  BY DEF Typed, Tables
<1> QED  BY <1>1, TableMember DEF Tables

(* The tables after a step: those before it, the one it makes, and the empty one of a
   request that ends. *)
LEMMA TablesOfPending ==
    ASSUME Typed, NEW r \in Request, NEW p, NEW T,
           pending' = [pending EXCEPT ![r] = p],
           p.read \in Tables \cup {T, Empty}, p.list \in Tables \cup {T, Empty},
           rows' \in Tables \cup {T}
    PROVE  Tables' \subseteq Tables \cup {T, Empty}
<1>1. \A q \in Request : pending'[q] = IF q = r THEN p ELSE pending[q]  BY DEF Typed
<1> QED  BY <1>1 DEF Tables

(* A step that adds one version keeps the versions well formed, if the new one is a chain
   that agrees with all the others. *)
LEMMA TablesPreserved ==
    ASSUME Typed, TablesInv, NEW T, Tables' \subseteq Tables \cup {T, Empty},
           issued \subseteq issued', Chain(T), FamiliesIn(T, issued'),
           \A t \in Tables : Agree(T, t),
           Agree(T, T)
    PROVE  TablesInv'
<1>0. DOMAIN Empty = {}  BY EmptyTable
<1>1. Chain(Empty) /\ FamiliesIn(Empty, issued') /\ \A t : Agree(Empty, t) /\ Agree(t, Empty)
    BY <1>0 DEF Chain, FamiliesIn, Agree
<1>2. \A t \in Tables : Agree(t, T)  BY AgreeSymmetric
<1>3. \A t \in Tables \cup {T, Empty} : Chain(t) /\ FamiliesIn(t, issued')
    BY <1>1 DEF TablesInv, FamiliesIn
<1>4. \A t, u \in Tables \cup {T, Empty} : Agree(t, u)
    BY <1>1, <1>2 DEF TablesInv
<1> QED  BY <1>3, <1>4 DEF TablesInv

(* A new row in a family of its own agrees with every table, and so does a table with it. *)
LEMMA NewRowAgrees ==
    ASSUME Typed, TablesInv, NEW u \in User, NEW s \in Session \ issued,
           NEW W, W = Upsert(rows, [x \in {s} |-> NewRow(u, s)])
    PROVE  /\ Chain(W) /\ FamiliesIn(W, issued \cup {s})
           /\ \A t \in Tables : Agree(W, t)
           /\ Agree(W, W)
<1> DEFINE D == [x \in {s} |-> NewRow(u, s)]
<1>1. D \in Table(issued \cup {s}) /\ rows \in Table(issued \cup {s})
    BY NewRowTable, TableMonotone DEF Typed
<1>2. DOMAIN D = {s} /\ D[s].user = u /\ D[s].family = s /\ D[s].next = Null
    BY DEF NewRow
<1> HIDE DEF D
<1>3. \A t \in Tables : \A x \in DOMAIN t : x # s /\ t[x].family # s
    BY TablesTyped DEF TablesInv, FamiliesIn
<1>4. \A t \in Tables : Agree(D, t)  BY <1>2, <1>3 DEF Agree
<1>5. Chain(D) /\ Agree(D, D) /\ FamiliesIn(D, issued \cup {s})
    BY <1>2 DEF Chain, Agree, FamiliesIn
<1>6. /\ rows \in Tables /\ Chain(rows) /\ FamiliesIn(rows, issued \cup {s})
      /\ \A t \in Tables : Agree(rows, t)
    BY TablesTyped DEF TablesInv, FamiliesIn
<1>7. Agree(rows, D) /\ Agree(D, rows)  BY <1>4, <1>6, AgreeSymmetric
<1>8. Chain(Upsert(rows, D))  BY <1>1, <1>5, <1>6, <1>7, UpsertChain
<1>9. FamiliesIn(Upsert(rows, D), issued \cup {s})  BY <1>1, <1>5, <1>6, UpsertFamilies
<1>10. \A t \in Tables : Agree(Upsert(rows, D), t)  BY <1>1, <1>4, <1>6, UpsertAgree
<1>11. Agree(Upsert(rows, D), D)  BY <1>1, <1>5, <1>7, UpsertAgree
<1>12. Agree(Upsert(rows, D), Upsert(rows, D))
    <2>1. Agree(D, Upsert(rows, D)) /\ Agree(rows, Upsert(rows, D))
        BY <1>6, <1>10, <1>11, AgreeSymmetric
    <2> QED  BY <1>1, <2>1, UpsertAgree
<1> QED  BY <1>8, <1>9, <1>10, <1>12 DEF D

(* A rotation gives a chain that agrees with every list that is still to be saved: what
   makes rotation safe against stale saves. *)
LEMMA RotatedAgrees ==
    ASSUME Typed, TablesInv, NEW s \in DOMAIN rows, NEW n \in Session \ issued,
           NEW W, W = Rotated(s, n)
    PROVE  /\ Chain(W) /\ FamiliesIn(W, issued \cup {n})
           /\ \A t \in Tables : Agree(W, t)
           /\ Agree(W, W)
<1> DEFINE D == RotatedRows(s, n)
<1>0. rows \in Tables /\ rows[s] \in Row /\ s \in issued /\ s # n /\ n # Null
    BY TablesTyped, NullAssumption
<1>1. /\ rows \in Table(issued \cup {n}) /\ D \in Table(issued \cup {n})
      /\ W = Upsert(rows, D)
    BY RotatedTable
<1>2. /\ DOMAIN D = {s, n}
      /\ D[s].user = rows[s].user /\ D[s].family = rows[s].family
      /\ D[s].revoked /\ D[s].next = n
      /\ D[n].user = rows[s].user /\ D[n].family = rows[s].family
      /\ D[n].next = Null
    BY <1>0 DEF RotatedRows, NewRow, Revoked, Row
<1> HIDE DEF D
<1>3. \A t \in Tables : \A x \in DOMAIN t : x # n /\ t[x].next # n
    <2>1. \A t \in Tables : DOMAIN t \subseteq issued /\ Chain(t)  BY TablesTyped DEF TablesInv
    <2> QED  BY <1>0, <2>1 DEF Chain
<1>4. \A t \in Tables : Agree(D, t)
    <2> SUFFICES ASSUME NEW t \in Tables PROVE Agree(D, t)
        OBVIOUS
    <2>1. Agree(rows, t)  BY <1>0 DEF TablesInv
    <2>2. \A b \in DOMAIN t : /\ s = b => rows[s].family = t[b].family
                              /\ rows[s].family = t[b].family => rows[s].user = t[b].user
        BY <2>1 DEF Agree
    <2> QED  BY <1>2, <1>3, <2>2 DEF Agree
<1>5. Chain(D) /\ Agree(D, D) /\ FamiliesIn(D, issued \cup {n})
    <2>1. rows[s].family \in issued  BY <1>0 DEF TablesInv, FamiliesIn
    <2> QED  BY <1>0, <1>2, <2>1 DEF Chain, Agree, FamiliesIn
<1>6. /\ Chain(rows) /\ FamiliesIn(rows, issued \cup {n})
      /\ \A t \in Tables : Agree(rows, t)
    BY <1>0 DEF TablesInv, FamiliesIn
<1>7. Agree(rows, D) /\ Agree(D, rows)  BY <1>0, <1>4, AgreeSymmetric
<1>8. Chain(W)  BY <1>1, <1>5, <1>6, <1>7, UpsertChain
<1>9. FamiliesIn(W, issued \cup {n})  BY <1>1, <1>5, <1>6, UpsertFamilies
<1>10. \A t \in Tables : Agree(W, t)  BY <1>1, <1>4, <1>6, UpsertAgree
<1>11. Agree(W, D)  BY <1>1, <1>5, <1>7, UpsertAgree
<1>12. Agree(W, W)
    <2>1. Agree(D, W) /\ Agree(rows, W)  BY <1>0, <1>10, <1>11, AgreeSymmetric
    <2> QED  BY <1>1, <2>1, UpsertAgree
<1> QED  BY <1>8, <1>9, <1>10, <1>12

(* A revocation of any rows gives a chain that agrees with every list still to be saved. *)
LEMMA RevokedAgrees ==
    ASSUME Typed, TablesInv, NEW R, NEW W, W = Revoke(rows, R)
    PROVE  /\ Chain(W) /\ FamiliesIn(W, issued)
           /\ \A t \in Tables : Agree(W, t)
           /\ Agree(W, W)
<1>1. rows \in Tables /\ rows \in Table(issued)  BY TablesTyped
<1>2. Chain(W)  BY <1>1, RevokeChain DEF TablesInv
<1>3. \A t \in Tables : Agree(W, t)  BY <1>1, RevokeAgree DEF TablesInv
<1>4. Agree(rows, W)  BY <1>1, <1>3, AgreeSymmetric
<1>5. Agree(W, W)  BY <1>1, <1>4, RevokeAgree
<1>6. FamiliesIn(W, issued)
    <2>1. DOMAIN W = DOMAIN rows /\ \A s \in DOMAIN rows : W[s].family = rows[s].family
        BY <1>1, RevokeTable
    <2> QED  BY <1>1, <2>1 DEF TablesInv, FamiliesIn
<1> QED  BY <1>2, <1>3, <1>5, <1>6

(* Every step keeps all versions of the table well formed and in agreement. *)
LEMMA TablesStep == Typed /\ TablesInv /\ [Next]_vars => TablesInv'
<1> SUFFICES ASSUME Typed, TablesInv, [Next]_vars PROVE TablesInv'
    OBVIOUS
<1>t. rows \in Tables /\ rows \in Table(issued)  BY TablesTyped
<1>r. \A t \in Tables : Chain(t) /\ FamiliesIn(t, issued) /\ Agree(rows, t) /\ Agree(t, t)
    BY <1>t DEF TablesInv
(* A step that leaves the set of tables as it is, but for requests that end. *)
<1>a. ASSUME NEW r \in Request, NEW p, pending' = [pending EXCEPT ![r] = p],
             p.read = Empty, p.list = Empty, rows' = rows, issued' = issued
      PROVE  TablesInv'
    <2>1. Tables' \subseteq Tables \cup {rows, Empty}  BY <1>a, <1>t, TablesOfPending
    <2> QED  BY <1>a, <1>r, <1>t, <2>1, TablesPreserved
(* A request that has read the table and changed the list to l. *)
<1>b. ASSUME NEW r \in Request, NEW l, ReadAndChange(r, l), rows' = rows,
             issued \subseteq issued', Chain(l), FamiliesIn(l, issued'),
             \A t \in Tables : Agree(l, t),
             Agree(l, l)
      PROVE  TablesInv'
    <2> DEFINE p == [pending[r] EXCEPT !.phase = "saving", !.read = rows, !.list = l]
    <2>1. p.read = rows /\ p.list = l  BY DEF Typed
    <2>2. pending' = [pending EXCEPT ![r] = p]  BY <1>b DEF ReadAndChange
    <2> HIDE DEF p
    <2>3. Tables' \subseteq Tables \cup {l, Empty}
        BY <1>b, <1>t, <2>1, <2>2, TablesOfPending
    <2> QED  BY <1>b, <2>3, TablesPreserved
(* A transaction. *)
<1>c. ASSUME UNCHANGED pending, issued \subseteq issued', Chain(rows'), FamiliesIn(rows', issued'),
             \A t \in Tables : Agree(rows', t),
             Agree(rows', rows')
      PROVE  TablesInv'
    <2>1. Tables' \subseteq Tables \cup {rows', Empty}  BY <1>c DEF Tables
    <2> QED  BY <1>c, <2>1, TablesPreserved
<1>1. ASSUME NEW r \in Request, NEW u \in User, Authenticate(r, u) PROVE TablesInv'
    <2> DEFINE p == [Idle EXCEPT !.phase = "authenticated", !.user = u]
    <2>1. p.read = Empty /\ p.list = Empty  BY DEF Idle
    <2> HIDE DEF p
    <2>2. pending' = [pending EXCEPT ![r] = p]  BY <1>1 DEF Authenticate, p
    <2> QED  BY <1>1, <1>a, <2>1, <2>2 DEF Authenticate
<1>2. ASSUME NEW r \in Request, NEW s \in Session, ReadForLogin(r, s) PROVE TablesInv'
    <2> DEFINE l == Upsert(rows, [x \in {s} |-> NewRow(pending[r].user, s)])
    <2>1. pending[r].user \in User /\ s \in Session \ issued  BY <1>2 DEF ReadForLogin, Typed
    <2>2. /\ Chain(l) /\ FamiliesIn(l, issued \cup {s})
          /\ \A t \in Tables : Agree(l, t)
          /\ Agree(l, l)
        BY <2>1, NewRowAgrees
    <2>3. ReadAndChange(r, l) /\ issued' = issued \cup {s} /\ rows' = rows
        BY <1>2 DEF ReadForLogin
    <2> HIDE DEF l
    <2> QED  BY <1>b, <2>2, <2>3
<1>3. ASSUME NEW r \in Request, NEW R, ReadAndChange(r, Revoke(rows, R)),
             UNCHANGED <<rows, issued>>
      PROVE TablesInv'
    <2> DEFINE l == Revoke(rows, R)
    <2>1. /\ Chain(l) /\ FamiliesIn(l, issued)
          /\ \A t \in Tables : Agree(l, t)
          /\ Agree(l, l)
        BY RevokedAgrees
    <2>2. ReadAndChange(r, l) /\ issued' = issued /\ rows' = rows  BY <1>3
    <2> HIDE DEF l
    <2> QED  BY <1>b, <2>1, <2>2
<1>4. ASSUME NEW r \in Request, Save(r) PROVE TablesInv'
    <2> DEFINE l == pending[r].list
               W == Upsert(rows, l)
    <2>1. l \in Tables /\ l \in Table(issued)  BY TablesTyped
    <2>2. Chain(W)  BY <1>t, <1>r, <2>1, UpsertChain
    <2>3. FamiliesIn(W, issued)  BY <1>t, <1>r, <2>1, UpsertFamilies
    <2>4. \A t \in Tables : Agree(l, t)  BY <2>1 DEF TablesInv
    <2>5. \A t \in Tables : Agree(W, t)  BY <1>t, <1>r, <2>1, <2>4, UpsertAgree
    <2>6. Agree(rows, W) /\ Agree(l, W)  BY <1>t, <2>1, <2>5, AgreeSymmetric
    <2>7. Agree(W, W)  BY <1>t, <2>1, <2>6, UpsertAgree
    <2>8. rows' = W /\ issued' = issued /\ pending' = [pending EXCEPT ![r] = Idle]
        BY <1>4 DEF Save
    <2> HIDE DEF W
    <2>9. Tables' \subseteq Tables \cup {W, Empty}
        BY <2>8, IdleType, TablesOfPending
    <2> QED  BY <2>2, <2>3, <2>5, <2>7, <2>8, <2>9, TablesPreserved
<1>5. ASSUME NEW r \in Request, Abort(r) PROVE TablesInv'
    BY <1>5, <1>a, IdleType DEF Abort
<1>6. ASSUME NEW r \in Request, RequestStep(r) PROVE TablesInv'
    <2>1. ASSUME ReadForLogoutAll(r) PROVE TablesInv'
        BY <1>3, <2>1 DEF ReadForLogoutAll
    <2>2. ASSUME NEW s \in Session, ReadForSessionDelete(r, s) \/ ReadForLogout(r, s)
          PROVE TablesInv'
        BY <1>3, <2>2 DEF ReadForSessionDelete, ReadForLogout
    <2> QED  BY <1>1, <1>2, <1>4, <1>5, <1>6, <2>1, <2>2 DEF RequestStep
<1>7. ASSUME NEW s \in Session, NEW n \in Session, RefreshRotate(s, n) PROVE TablesInv'
    <2>1. s \in DOMAIN rows /\ n \in Session \ issued /\ rows' = Rotated(s, n)
          /\ issued' = issued \cup {n} /\ UNCHANGED pending
        BY <1>7 DEF RefreshRotate
    <2>2. /\ Chain(rows') /\ FamiliesIn(rows', issued \cup {n})
          /\ \A t \in Tables : Agree(rows', t)
          /\ Agree(rows', rows')
        BY <2>1, RotatedAgrees
    <2> QED  BY <1>c, <2>1, <2>2
<1>8. ASSUME NEW R, rows' = Revoke(rows, R), UNCHANGED <<pending, issued>> PROVE TablesInv'
    <2>1. /\ Chain(rows') /\ FamiliesIn(rows', issued)
          /\ \A t \in Tables : Agree(rows', t)
          /\ Agree(rows', rows')
        BY <1>8, RevokedAgrees
    <2> QED  BY <1>8, <1>c, <2>1
<1>9. ASSUME NEW u \in User, NEW s \in Session, RedeemInvitation(u, s) PROVE TablesInv'
    <2>1. /\ s \in Session \ issued /\ issued' = issued \cup {s} /\ UNCHANGED pending
          /\ rows' = Upsert(rows, [x \in {s} |-> NewRow(u, s)])
        BY <1>9 DEF RedeemInvitation
    <2>2. /\ Chain(rows') /\ FamiliesIn(rows', issued \cup {s})
          /\ \A t \in Tables : Agree(rows', t)
          /\ Agree(rows', rows')
        BY <2>1, NewRowAgrees
    <2> QED  BY <1>c, <2>1, <2>2
<1>10. ASSUME NEW u \in User, DeleteUser(u) PROVE TablesInv'
    <2>1. /\ rows' = [s \in DOMAIN rows \ OwnedBy(rows, u) |-> rows[s]]
          /\ UNCHANGED <<pending, issued>>
        BY <1>10 DEF DeleteUser
    <2>2. Chain(rows')
        <3>1. \A s \in DOMAIN rows \ OwnedBy(rows, u) : rows[s].next # Null =>
                  /\ rows[s].revoked
                  /\ rows[s].next \in DOMAIN rows \ {s}
                  /\ rows[s].next \notin OwnedBy(rows, u)
                  /\ rows[rows[s].next].user = rows[s].user
                  /\ rows[rows[s].next].family = rows[s].family
            BY <1>t, <1>r DEF Chain, OwnedBy
        <3> QED  BY <2>1, <3>1 DEF Chain
    <2>3. FamiliesIn(rows', issued)  BY <1>t, <1>r, <2>1 DEF FamiliesIn
    <2>4. \A t \in Tables : Agree(rows', t)  BY <1>r, <2>1 DEF Agree
    <2>5. Agree(rows', rows')  BY <1>t, <1>r, <2>1 DEF Agree
    <2> QED  BY <1>c, <2>1, <2>2, <2>3, <2>4, <2>5
<1>11. ASSUME UNCHANGED <<rows, pending, issued>> PROVE TablesInv'
    BY <1>11, <1>c, <1>t, <1>r
<1> QED
    BY <1>6, <1>7, <1>8, <1>9, <1>10, <1>11
       DEF Next, RefreshStep, AccountStep, vars, RefreshConcurrent, RefreshReuse, Expire,
           RevokeUserSessions, ChangeStatus, RestoreUser

-----------------------------------------------------------------------------
(* What the pending requests are going to write. *)

(* Every step keeps what the pending requests may write: as long as their read is not stale,
   their save is a sign-in or a revocation of the current table. *)
LEMMA ListsStep ==
    Typed /\ TablesInv /\ ListsInv /\ ended \subseteq issued /\ [Next]_vars => ListsInv'
<1> SUFFICES ASSUME Typed, TablesInv, ListsInv, ended \subseteq issued, [Next]_vars
             PROVE  ListsInv'
    OBVIOUS
<1>t. /\ rows \in Table(issued) /\ DOMAIN rows \subseteq issued
      /\ \A x \in DOMAIN rows : rows[x] \in Row /\ rows[x].family \in issued
      /\ \A q \in Request :
             /\ DOMAIN pending[q].list \subseteq issued
             /\ \A x \in DOMAIN pending[q].list : pending[q].list[x].family \in issued
             /\ \A x \in DOMAIN pending[q].read : pending[q].read[x] \in Row
    BY TablesTyped DEF TablesInv, FamiliesIn
<1>e. DOMAIN Empty = {}  BY EmptyTable
(* The families of a list are those of what was read, and those of the rows it adds. *)
<1>f. \A q \in Request : \A x \in DOMAIN pending[q].read :
          x \in DOMAIN pending[q].list /\ pending[q].list[x].family = pending[q].read[x].family
    <2>1. \A row \in Row : Revoked(row).family = row.family  BY DEF Row, Revoked
    <2> QED  BY <1>t, <2>1 DEF ListsInv, Derived
<1>q. \A q \in Request : \A s \in Added(pending[q]) :
          s \notin ended /\ \A x \in DOMAIN rows : rows[x].family # s
    BY DEF ListsInv, Alone
<1>a. ASSUME NEW r \in Request, NEW p, pending' = [pending EXCEPT ![r] = p],
             p.read = Empty, p.list = Empty,
             \A q \in Request \ {r} : \A s \in Added(pending[q]) :
                 s \notin ended' /\ \A x \in DOMAIN rows' : rows'[x].family # s
      PROVE  ListsInv'
    <2>1. \A q \in Request : pending'[q] = IF q = r THEN p ELSE pending[q]  BY <1>a DEF Typed
    <2>2. Derived(p) /\ Added(p) = {}  BY <1>a, <1>e DEF Derived, Added
    <2>3. \A q \in Request : Derived(pending'[q])  BY <2>1, <2>2 DEF ListsInv
    <2>4. ASSUME NEW q \in Request, NEW s \in Added(pending'[q])
          PROVE  /\ pending'[q].list[s].family = s
                 /\ pending'[q].list[s].next = Null
                 /\ s \notin ended'
                 /\ \A x \in DOMAIN rows' : rows'[x].family # s
                 /\ \A o \in Request \ {q} :
                        \A x \in DOMAIN pending'[o].list : pending'[o].list[x].family # s
        <3>1. q # r /\ pending'[q] = pending[q]  BY <2>1, <2>2, <2>4
        <3> QED  BY <1>a, <1>e, <2>1, <2>4, <3>1 DEF ListsInv, Alone
    <2> QED  BY <2>3, <2>4 DEF ListsInv, Alone
<1>b. ASSUME NEW r \in Request, NEW l, ReadAndChange(r, l), rows' = rows, ended' = ended,
             DOMAIN rows \subseteq DOMAIN l,
             \A s \in DOMAIN rows : l[s] = rows[s] \/ l[s] = Revoked(rows[s]),
             \A s \in DOMAIN l \ DOMAIN rows : s \notin issued /\ l[s].family = s /\ l[s].next = Null
      PROVE  ListsInv'
    <2> DEFINE p == [pending[r] EXCEPT !.phase = "saving", !.read = rows, !.list = l]
    <2>1. p.read = rows /\ p.list = l  BY DEF Typed
    <2>2. pending' = [pending EXCEPT ![r] = p]  BY <1>b DEF ReadAndChange
    <2> HIDE DEF p
    <2>3. \A q \in Request : pending'[q] = IF q = r THEN p ELSE pending[q]  BY <2>2 DEF Typed
    <2>4. Derived(p)  BY <1>b, <2>1 DEF Derived
    <2>5. \A q \in Request : Derived(pending'[q])  BY <2>3, <2>4 DEF ListsInv
    <2>6. \A x \in DOMAIN rows : l[x].family = rows[x].family
        <3>1. \A row \in Row : Revoked(row).family = row.family  BY DEF Row, Revoked
        <3> QED  BY <1>b, <1>t, <3>1
    <2>7. ASSUME NEW q \in Request, NEW s \in Added(pending'[q])
          PROVE  /\ pending'[q].list[s].family = s
                 /\ pending'[q].list[s].next = Null
                 /\ s \notin ended'
                 /\ \A x \in DOMAIN rows' : rows'[x].family # s
                 /\ \A o \in Request \ {q} :
                        \A x \in DOMAIN pending'[o].list : pending'[o].list[x].family # s
        <3>1. CASE q = r
            <4>1. s \in DOMAIN l \ DOMAIN rows  BY <2>1, <2>3, <2>7, <3>1 DEF Added
            <4>2. l[s].family = s /\ l[s].next = Null /\ s \notin issued  BY <1>b, <4>1
            <4> QED  BY <1>b, <1>t, <2>1, <2>3, <3>1, <4>2
        <3>2. CASE q # r
            <4>1. s \in Added(pending[q]) /\ pending'[q] = pending[q]  BY <2>3, <2>7, <3>2
            <4>2. s \in issued  BY <1>t, <4>1 DEF Added
            <4>3. \A x \in DOMAIN l : l[x].family # s
                BY <1>b, <2>6, <4>1, <4>2 DEF ListsInv, Alone
            <4> QED  BY <1>b, <2>1, <2>3, <4>1, <4>3 DEF ListsInv, Alone
        <3> QED  BY <3>1, <3>2
    <2> QED  BY <2>5, <2>7 DEF ListsInv, Alone
<1>c. ASSUME UNCHANGED pending,
             \A x \in DOMAIN rows' : \/ rows'[x].family \notin issued
                                     \/ \E y \in DOMAIN rows : rows'[x].family = rows[y].family,
             \A f \in ended' \ ended : \E y \in DOMAIN rows : f = rows[y].family
      PROVE  ListsInv'
    <2>1. \A q \in Request : \A s \in Added(pending[q]) :
              /\ s \in issued
              /\ \A y \in DOMAIN rows : rows[y].family # s
              /\ s \notin ended
        BY <1>t DEF Added, ListsInv, Alone
    <2>2. \A q \in Request : \A s \in Added(pending[q]) :
              s \notin ended' /\ \A x \in DOMAIN rows' : rows'[x].family # s
        BY <1>c, <2>1
    <2> QED  BY <1>c, <2>2 DEF ListsInv, Alone, Derived, Added
<1>1. ASSUME NEW r \in Request, NEW u \in User, Authenticate(r, u) PROVE ListsInv'
    <2> DEFINE p == [Idle EXCEPT !.phase = "authenticated", !.user = u]
    <2>1. p.read = Empty /\ p.list = Empty  BY DEF Idle
    <2>2. pending' = [pending EXCEPT ![r] = p]  BY <1>1 DEF Authenticate
    <2> HIDE DEF p
    <2>3. rows' = rows /\ ended' = ended  BY <1>1 DEF Authenticate
    <2> QED  BY <1>a, <1>q, <2>1, <2>2, <2>3
<1>2. ASSUME NEW r \in Request, NEW s \in Session, ReadForLogin(r, s) PROVE ListsInv'
    <2> DEFINE l == Upsert(rows, [x \in {s} |-> NewRow(pending[r].user, s)])
    <2>1. s \notin issued /\ ReadAndChange(r, l) /\ rows' = rows /\ ended' = ended
        BY <1>2 DEF ReadForLogin
    <2>2. /\ DOMAIN l = DOMAIN rows \cup {s}
          /\ \A x \in DOMAIN rows \ {s} : l[x] = rows[x]
          /\ l[s].family = s /\ l[s].next = Null
        BY DEF Upsert, NewRow
    <2> HIDE DEF l
    <2> QED  BY <1>b, <1>t, <2>1, <2>2
<1>3. ASSUME NEW r \in Request, NEW R, ReadAndChange(r, Revoke(rows, R)),
             UNCHANGED <<rows, ended>>
      PROVE ListsInv'
    <2> DEFINE l == Revoke(rows, R)
    <2>1. DOMAIN l = DOMAIN rows /\ \A x \in DOMAIN rows : l[x] = rows[x] \/ l[x] = Revoked(rows[x])
        BY <1>t, RevokeTable
    <2>2. ReadAndChange(r, l) /\ rows' = rows /\ ended' = ended  BY <1>3
    <2> HIDE DEF l
    <2> QED  BY <1>b, <2>1, <2>2
<1>4. ASSUME NEW r \in Request, Save(r) PROVE ListsInv'
    <2> DEFINE l == pending[r].list
    <2>1. /\ DOMAIN rows' = DOMAIN rows \cup DOMAIN l
          /\ \A x \in DOMAIN l : rows'[x] = l[x]
          /\ \A x \in DOMAIN rows \ DOMAIN l : rows'[x] = rows[x]
        BY <1>4 DEF Save, Upsert
    <2>2. \A f \in ended' \ ended : \E x \in DOMAIN pending[r].read : f = pending[r].read[x].family
        BY <1>4 DEF Save, Families, Revoking
    <2>3. ASSUME NEW q \in Request \ {r}, NEW s \in Added(pending[q])
          PROVE  s \notin ended' /\ \A x \in DOMAIN rows' : rows'[x].family # s
        <3>1. /\ s \notin ended
              /\ \A x \in DOMAIN rows : rows[x].family # s
              /\ \A x \in DOMAIN l : l[x].family # s
            BY <2>3 DEF ListsInv, Alone
        <3> QED  BY <1>f, <2>1, <2>2, <3>1
    <2>4. pending' = [pending EXCEPT ![r] = Idle]  BY <1>4 DEF Save
    <2> QED  BY <1>a, <2>3, <2>4, IdleType
<1>5. ASSUME NEW r \in Request, Abort(r) PROVE ListsInv'
    <2>1. pending' = [pending EXCEPT ![r] = Idle] /\ rows' = rows /\ ended' = ended
        BY <1>5 DEF Abort
    <2> QED  BY <1>a, <1>q, <2>1, IdleType
<1>6. ASSUME NEW r \in Request, RequestStep(r) PROVE ListsInv'
    <2>1. ASSUME ReadForLogoutAll(r) PROVE ListsInv'
        BY <1>3, <2>1 DEF ReadForLogoutAll
    <2>2. ASSUME NEW s \in Session, ReadForSessionDelete(r, s) \/ ReadForLogout(r, s)
          PROVE ListsInv'
        BY <1>3, <2>2 DEF ReadForSessionDelete, ReadForLogout
    <2> QED  BY <1>1, <1>2, <1>4, <1>5, <1>6, <2>1, <2>2 DEF RequestStep
<1>7. ASSUME NEW s \in Session, NEW n \in Session, RefreshRotate(s, n) PROVE ListsInv'
    <2>1. /\ s \in DOMAIN rows /\ UNCHANGED <<pending, ended>>
          /\ rows' = Upsert(rows, RotatedRows(s, n))
        BY <1>7 DEF RefreshRotate, Rotated, RotatedRows
    <2>2. /\ DOMAIN RotatedRows(s, n) = {s, n}
          /\ \A x \in {s, n} : RotatedRows(s, n)[x].family = rows[s].family
        BY <1>t, <2>1 DEF RotatedRows, NewRow, Revoked, Row
    <2>3. \A x \in DOMAIN rows' : \E y \in DOMAIN rows : rows'[x].family = rows[y].family
        BY <2>1, <2>2 DEF Upsert
    <2> QED  BY <1>c, <2>1, <2>3
<1>8. ASSUME NEW R, rows' = Revoke(rows, R), UNCHANGED pending,
             \A f \in ended' \ ended : \E y \in DOMAIN rows : f = rows[y].family
      PROVE ListsInv'
    <2>1. DOMAIN rows' = DOMAIN rows /\ \A x \in DOMAIN rows : rows'[x].family = rows[x].family
        BY <1>8, <1>t, RevokeTable
    <2> QED  BY <1>c, <1>8, <2>1
<1>9. ASSUME NEW s \in Session, RefreshReuse(s) PROVE ListsInv'
    BY <1>8, <1>9 DEF RefreshReuse
<1>10. ASSUME NEW u \in User, RevokeUserSessions(u) PROVE ListsInv'
    BY <1>8, <1>10 DEF RevokeUserSessions, Families, OwnedBy
<1>11. ASSUME NEW u \in User, NEW s \in Session, RedeemInvitation(u, s) PROVE ListsInv'
    <2>1. /\ s \notin issued /\ UNCHANGED <<pending, ended>>
          /\ rows' = Upsert(rows, [x \in {s} |-> NewRow(u, s)])
        BY <1>11 DEF RedeemInvitation
    <2>2. \A x \in DOMAIN rows' : \/ rows'[x].family = s
                                  \/ \E y \in DOMAIN rows : rows'[x].family = rows[y].family
        BY <2>1 DEF Upsert, NewRow
    <2> QED  BY <1>c, <2>1, <2>2
<1>12. ASSUME NEW u \in User, DeleteUser(u) PROVE ListsInv'
    BY <1>12, <1>c DEF DeleteUser
<1>13. ASSUME UNCHANGED <<rows, pending, ended>> PROVE ListsInv'
    BY <1>13, <1>c
<1> QED
    BY <1>6, <1>7, <1>9, <1>10, <1>11, <1>12, <1>13
       DEF Next, RefreshStep, AccountStep, vars, RefreshConcurrent, Expire, ChangeStatus,
           RestoreUser

-----------------------------------------------------------------------------
(* One chain for each family, dead once it has been ended, until an update is lost. *)

(* A live session has no successor. *)
LEMMA LiveIsTip ==
    ASSUME Typed, TablesInv
    PROVE  \A s \in DOMAIN rows : ~rows[s].revoked => rows[s].next = Null
BY TablesTyped DEF TablesInv, Chain

(* Every step keeps one chain per family, and no live token in an ended family, until an
   update is lost. *)
LEMMA ChainsStep ==
    Typed /\ TablesInv /\ ListsInv /\ ChainsInv /\ [Next]_vars => ChainsInv'
<1> SUFFICES ASSUME Typed, TablesInv, ListsInv, ChainsInv, [Next]_vars
             PROVE  ChainsInv'
    OBVIOUS
<1>t. /\ rows \in Table(issued) /\ rows \in Tables /\ DOMAIN rows \subseteq issued
      /\ \A x \in DOMAIN rows : rows[x] \in Row /\ rows[x].family \in issued
    BY TablesTyped DEF TablesInv, FamiliesIn
<1>u. /\ \A x, y \in DOMAIN rows : rows[x].family = rows[y].family => rows[x].user = rows[y].user
      /\ \A x \in DOMAIN rows : ~rows[x].revoked => rows[x].next = Null
    BY <1>t, LiveIsTip DEF TablesInv, Agree
(* Steps that leave the sessions alone. *)
<1>a. ASSUME UNCHANGED <<rows, lost, ended>>, issued \subseteq issued' PROVE ChainsInv'
    BY <1>a DEF ChainsInv, OneTip, EndedDead
(* Transactional revocations: whatever family is ended has all its live rows revoked. *)
<1>b. ASSUME NEW R, rows' = Revoke(rows, R), lost' = lost, issued' = issued,
             \A f \in ended' \ ended : \E y \in DOMAIN rows : f = rows[y].family,
             \A x \in DOMAIN rows : rows[x].family \in ended' \ ended => x \in R
      PROVE  ChainsInv'
    <2>1. /\ DOMAIN rows' = DOMAIN rows
          /\ \A x \in DOMAIN rows : /\ rows'[x].family = rows[x].family
                                    /\ rows'[x].next = rows[x].next
                                    /\ (rows'[x].revoked <=> rows[x].revoked \/ x \in R)
        BY <1>b, <1>t, RevokeTable
    <2>2. ended' \subseteq issued'  BY <1>b, <1>t DEF ChainsInv
    <2>3. ~lost' => OneTip'  BY <1>b, <2>1 DEF ChainsInv, OneTip
    <2>4. ~lost' => EndedDead'  BY <1>b, <2>1 DEF ChainsInv, EndedDead
    <2> QED  BY <2>2, <2>3, <2>4 DEF ChainsInv
<1>1. ASSUME NEW r \in Request, NEW s \in Session, ReadForLogin(r, s) PROVE ChainsInv'
    BY <1>1, <1>a DEF ReadForLogin
<1>2. ASSUME NEW r \in Request, Save(r) PROVE ChainsInv'
    <2> DEFINE p == pending[r]
    <2>1. /\ DOMAIN rows' = DOMAIN rows \cup DOMAIN p.list
          /\ \A x \in DOMAIN p.list : rows'[x] = p.list[x]
          /\ \A x \in DOMAIN rows \ DOMAIN p.list : rows'[x] = rows[x]
          /\ issued' = issued
        BY <1>2 DEF Save, Upsert
    <2>2. p.read \in Tables /\ p.list \in Tables /\ Derived(p) /\ Alone(r)
        BY TablesTyped DEF ListsInv
    <2>3. ended' \subseteq issued'
        <3>1. ended' = ended \cup Families(p.read, Revoking(p))  BY <1>2 DEF Save
        <3>2. \A x \in DOMAIN p.read : p.read[x].family \in issued
            BY <2>2 DEF TablesInv, FamiliesIn
        <3> QED  BY <2>1, <3>1, <3>2 DEF ChainsInv, Families, Revoking
    <2>4. ASSUME ~lost' PROVE OneTip' /\ EndedDead'
        <3>1. /\ ~lost
              /\ \A x \in DOMAIN p.read : x \in DOMAIN rows /\ rows[x] = p.read[x]
            BY <1>2, <2>4 DEF Save, Stale
        (* What the save does to the rows that were there, and which rows it adds. *)
        <3>2. \A x \in DOMAIN rows :
                  /\ rows'[x].family = rows[x].family
                  /\ rows'[x].next = rows[x].next
                  /\ rows[x].revoked => rows'[x].revoked
                  /\ x \in Revoking(p) => ~rows[x].revoked /\ rows'[x].revoked
            <4>0. \A row \in Row : /\ Revoked(row).family = row.family
                                   /\ Revoked(row).next = row.next
                                   /\ Revoked(row).revoked
                                   /\ row.revoked => Revoked(row) = row
                BY DEF Row, Revoked
            <4> TAKE x \in DOMAIN rows
            <4>1. CASE x \in DOMAIN p.read
                <5>1. rows[x] = p.read[x] /\ rows'[x] = p.list[x] /\ rows[x] \in Row
                      /\ (p.list[x] = p.read[x] \/ p.list[x] = Revoked(p.read[x]))
                    BY <1>t, <2>1, <2>2, <3>1, <4>1 DEF Derived
                <5>2. x \in Revoking(p) => rows'[x] = Revoked(rows[x]) /\ rows'[x] # rows[x]
                    BY <5>1 DEF Revoking
                <5> QED  BY <4>0, <5>1, <5>2
            <4>2. CASE x \in DOMAIN p.list \ DOMAIN p.read
                <5>1. p.list[x].family = x /\ rows[x].family # x  BY <2>2, <4>2 DEF Alone, Added
                <5>2. Agree(p.list, rows)  BY <1>t, <2>2 DEF TablesInv
                <5>3. p.list[x].family = rows[x].family  BY <4>2, <5>2 DEF Agree
                <5> QED  BY <5>1, <5>3
            <4>3. CASE x \notin DOMAIN p.list
                <5>1. rows'[x] = rows[x]  BY <2>1, <4>3
                <5>2. x \notin Revoking(p)  BY <2>2, <4>3 DEF Revoking, Derived
                <5> QED  BY <5>1, <5>2
            <4> QED  BY <4>1, <4>2, <4>3
        <3>3. \A x \in DOMAIN rows' \ DOMAIN rows :
                  /\ rows'[x].family = x
                  /\ x \notin ended
                  /\ \A y \in DOMAIN rows : rows[y].family # x
            BY <2>1, <2>2, <3>1 DEF Alone, Added
        <3>4. OneTip'
            <4>1. OneTip  BY <3>1 DEF ChainsInv
            <4> QED  BY <3>2, <3>3, <4>1 DEF OneTip
        <3>5. EndedDead'
            <4>1. \A f \in ended' \ ended : \E y \in Revoking(p) : f = rows[y].family
                BY <1>2, <3>1 DEF Save, Families, Revoking
            <4>2. Revoking(p) \subseteq DOMAIN rows  BY <3>1 DEF Revoking
            <4> SUFFICES ASSUME NEW x \in DOMAIN rows', rows'[x].family \in ended'
                         PROVE  rows'[x].revoked
                BY DEF EndedDead
            <4>3. x \in DOMAIN rows  BY <3>3, <4>1, <4>2
            <4>4. CASE rows[x].family \in ended
                BY <3>1, <3>2, <4>3, <4>4 DEF ChainsInv, EndedDead
            <4>5. CASE rows[x].family \notin ended
                <5>1. PICK y \in Revoking(p) : rows[x].family = rows[y].family
                    BY <3>2, <4>1, <4>3, <4>5
                <5>2. ~rows[y].revoked /\ rows'[y].revoked  BY <3>2, <4>2
                <5>3. CASE rows[x].revoked  BY <3>2, <4>3, <5>3
                <5>4. CASE ~rows[x].revoked
                    <6>1. x = y
                        BY <1>u, <3>1, <4>2, <4>3, <5>1, <5>2, <5>4 DEF ChainsInv, OneTip
                    <6> QED  BY <5>2, <6>1
                <5> QED  BY <5>3, <5>4
            <4> QED  BY <4>4, <4>5
        <3> QED  BY <3>4, <3>5
    <2> QED  BY <2>3, <2>4 DEF ChainsInv
<1>3. ASSUME NEW r \in Request, RequestStep(r) PROVE ChainsInv'
    <2>1. ASSUME NEW u \in User, Authenticate(r, u) PROVE ChainsInv'
        BY <1>a, <2>1 DEF Authenticate
    <2>2. ASSUME NEW s \in Session, ReadForSessionDelete(r, s) \/ ReadForLogout(r, s)
          PROVE ChainsInv'
        BY <1>a, <2>2 DEF ReadForSessionDelete, ReadForLogout
    <2>3. ASSUME ReadForLogoutAll(r) \/ Abort(r) PROVE ChainsInv'
        BY <1>a, <2>3 DEF ReadForLogoutAll, Abort
    <2> QED  BY <1>1, <1>2, <1>3, <2>1, <2>2, <2>3 DEF RequestStep
<1>4. ASSUME NEW s \in Session, NEW n \in Session, RefreshRotate(s, n) PROVE ChainsInv'
    <2>1. /\ s \in DOMAIN rows /\ ~rows[s].revoked /\ n \notin issued
          /\ rows' = Upsert(rows, RotatedRows(s, n))
          /\ issued' = issued \cup {n} /\ lost' = lost /\ ended' = ended
        BY <1>4 DEF RefreshRotate, Invalid, Rotated, RotatedRows
    <2>2. /\ DOMAIN RotatedRows(s, n) = {s, n} /\ s # n
          /\ RotatedRows(s, n)[s].next = n /\ n # Null
          /\ RotatedRows(s, n)[s].revoked
          /\ \A x \in {s, n} : RotatedRows(s, n)[x].family = rows[s].family
        BY <1>t, <1>4, <2>1, NullAssumption DEF RotatedRows, NewRow, Revoked, Row
    <2>3. /\ DOMAIN rows' = DOMAIN rows \cup {n}
          /\ rows'[s].next = n /\ rows'[s].revoked
          /\ rows'[s].family = rows[s].family /\ rows'[n].family = rows[s].family
          /\ \A x \in DOMAIN rows \ {s} : rows'[x] = rows[x] /\ x # n
        BY <1>t, <2>1, <2>2 DEF Upsert
    <2>4. ended' \subseteq issued'  BY <2>1 DEF ChainsInv
    <2>5. ASSUME ~lost' PROVE OneTip' /\ EndedDead'
        <3>1. \A x \in DOMAIN rows \ {s} : rows[x].next = Null => rows[x].family # rows[s].family
            BY <1>u, <2>1, <2>5 DEF ChainsInv, OneTip
        <3>2. rows[s].family \notin ended  BY <2>1, <2>5 DEF ChainsInv, EndedDead
        <3>3. OneTip'  BY <2>1, <2>2, <2>3, <2>5, <3>1 DEF ChainsInv, OneTip
        <3>4. EndedDead'  BY <2>1, <2>3, <2>5, <3>2 DEF ChainsInv, EndedDead
        <3> QED  BY <3>3, <3>4
    <2> QED  BY <2>4, <2>5 DEF ChainsInv
<1>5. ASSUME NEW s \in Session, RefreshReuse(s) PROVE ChainsInv'
    <2>1. s \in DOMAIN rows /\ rows' = Revoke(rows, InFamily(rows, rows[s].family))
          /\ ended' = ended \cup {rows[s].family} /\ lost' = lost /\ issued' = issued
        BY <1>5 DEF RefreshReuse
    <2> QED  BY <1>b, <2>1 DEF InFamily
<1>6. ASSUME NEW u \in User, RevokeUserSessions(u) PROVE ChainsInv'
    <2>1. rows' = Revoke(rows, OwnedBy(rows, u)) /\ lost' = lost /\ issued' = issued
          /\ ended' = ended \cup Families(rows, OwnedBy(rows, u))
        BY <1>6 DEF RevokeUserSessions
    <2>2. \A f \in ended' \ ended : \E y \in OwnedBy(rows, u) : f = rows[y].family
        BY <2>1 DEF Families
    <2>3. \A x \in DOMAIN rows : rows[x].family \in ended' \ ended => x \in OwnedBy(rows, u)
        BY <1>u, <2>2 DEF OwnedBy
    <2>4. \A f \in ended' \ ended : \E y \in DOMAIN rows : f = rows[y].family
        BY <2>2 DEF OwnedBy
    <2> QED  BY <1>b, <2>1, <2>3, <2>4
<1>7. ASSUME NEW u \in User, NEW s \in Session, RedeemInvitation(u, s) PROVE ChainsInv'
    <2>1. /\ s \notin issued /\ issued' = issued \cup {s} /\ lost' = lost /\ ended' = ended
          /\ DOMAIN rows' = DOMAIN rows \cup {s}
          /\ rows'[s].family = s
          /\ \A x \in DOMAIN rows : rows'[x] = rows[x]
        BY <1>7, <1>t DEF RedeemInvitation, Upsert, NewRow
    <2> QED  BY <1>t, <2>1 DEF ChainsInv, OneTip, EndedDead
<1>8. ASSUME NEW u \in User, DeleteUser(u) PROVE ChainsInv'
    BY <1>8 DEF DeleteUser, ChainsInv, OneTip, EndedDead
<1>9. ASSUME NEW u \in User, ChangeStatus(u) \/ RestoreUser(u) PROVE ChainsInv'
    BY <1>9, <1>a DEF ChangeStatus, RestoreUser
<1>10. ASSUME NEW s \in Session, RefreshConcurrent(s) \/ Expire(s) PROVE ChainsInv'
    BY <1>10, <1>a DEF RefreshConcurrent, Expire
<1>11. CASE UNCHANGED vars
    BY <1>11, <1>a DEF vars
<1> QED
    BY <1>3, <1>4, <1>5, <1>6, <1>7, <1>8, <1>9, <1>10, <1>11
       DEF Next, RefreshStep, AccountStep

-----------------------------------------------------------------------------
(* The theorems. *)

(* The inductive invariant of the session table and its writers. *)
THEOREM InductiveInvariant == Spec => []IInv
<1>1. Init => IInv
    <2> SUFFICES ASSUME Init PROVE IInv
        OBVIOUS
    <2>0. DOMAIN Empty = {}  BY EmptyTable
    <2>1. Typed
        <3>1. pending \in [Request -> PendingOver(issued)]  BY IdleType DEF Init
        <3>2. \A r \in Request : pending[r].phase = "idle"  BY DEF Init, Idle
        <3>3. rows \in Table(issued)  BY EmptyTable DEF Init
        <3> QED  BY <3>1, <3>2, <3>3 DEF Init, Typed, PendingOver, Status
    <2>2. \A r \in Request : pending[r].read = Empty /\ pending[r].list = Empty
        BY IdleType DEF Init
    <2>3. Tables = {Empty} /\ rows = Empty  BY <2>2 DEF Init, Tables
    <2>4. TablesInv  BY <2>0, <2>3 DEF TablesInv, Chain, FamiliesIn, Agree
    <2>5. ListsInv  BY <2>0, <2>2, <2>3 DEF ListsInv, Derived, Alone, Added
    <2>6. ChainsInv  BY <2>0, <2>3 DEF Init, ChainsInv, OneTip, EndedDead
    <2> QED  BY <2>1, <2>4, <2>5, <2>6 DEF IInv
<1>2. IInv /\ [Next]_vars => IInv'
    <2> SUFFICES ASSUME IInv, [Next]_vars PROVE IInv'
        OBVIOUS
    <2>1. Typed'  BY TypeStep DEF IInv
    <2>2. TablesInv'  BY TablesStep DEF IInv
    <2>3. ListsInv'  BY ListsStep DEF IInv, ChainsInv
    <2>4. ChainsInv'  BY ChainsStep DEF IInv
    <2> QED  BY <2>1, <2>2, <2>3, <2>4 DEF IInv
<1> QED  BY <1>1, <1>2, PTL DEF Spec

(* The rotation chain survives every stale save. *)
THEOREM RotationChain == Spec => []ChainOK
<1>1. IInv => ChainOK
    <2> SUFFICES ASSUME IInv PROVE ChainOK
        OBVIOUS
    <2>1. rows \in Tables /\ Chain(rows) /\ Agree(rows, rows)
        BY TablesTyped DEF IInv, TablesInv
    <2> QED  BY <2>1 DEF ChainOK, Chain, Agree
<1> QED  BY <1>1, InductiveInvariant, PTL

(* Until an update is lost, a family has at most one live refresh token. *)
THEOREM OneLiveToken == Spec => []OneLivePerFamily
<1>1. IInv => OneLivePerFamily
    BY LiveIsTip DEF IInv, ChainsInv, OneTip, OneLivePerFamily, Live
<1> QED  BY <1>1, InductiveInvariant, PTL

(* Until an update is lost, signing out, resetting and reuse end a family for good. *)
THEOREM EndedFamilies == Spec => []EndedStaysEnded
<1>1. IInv => EndedStaysEnded
    BY DEF IInv, ChainsInv, EndedDead, EndedStaysEnded, Live
<1> QED  BY <1>1, InductiveInvariant, PTL

(* A family grows only by the rotation of its live token. *)
THEOREM FamilyGrowth == Spec => GrowsOnlyByRotation
<1> DEFINE Growth ==
        \A n \in DOMAIN rows' \ issued :
            rows'[n].family # n =>
                \E s \in DOMAIN rows :
                    /\ rows[s].family = rows'[n].family
                    /\ ~rows[s].revoked /\ s \notin expired /\ status[rows[s].user] = "ACTIVE"
                    /\ rows'[s].revoked /\ rows'[s].next = n
<1>1. IInv /\ [Next]_vars => [Growth]_vars
    <2> SUFFICES ASSUME IInv, Next, NEW n \in DOMAIN rows' \ issued, rows'[n].family # n
                 PROVE  \E s \in DOMAIN rows :
                            /\ rows[s].family = rows'[n].family
                            /\ ~rows[s].revoked /\ s \notin expired
                            /\ status[rows[s].user] = "ACTIVE"
                            /\ rows'[s].revoked /\ rows'[s].next = n
        OBVIOUS
    <2>t. /\ DOMAIN rows \subseteq issued
          /\ \A s \in DOMAIN rows : rows[s] \in Row
          /\ \A r \in Request : DOMAIN pending[r].list \subseteq issued
        BY TablesTyped DEF IInv
    <2>1. ASSUME DOMAIN rows' \subseteq DOMAIN rows PROVE FALSE
        BY <2>1, <2>t
    <2>2. ASSUME NEW r \in Request, Save(r) PROVE FALSE
        BY <2>2, <2>t DEF Save, Upsert
    <2>3. ASSUME NEW u \in User, NEW s \in Session, RedeemInvitation(u, s) PROVE FALSE
        BY <2>3, <2>t DEF RedeemInvitation, Upsert, NewRow
    <2>4. \E s, m \in Session : RefreshRotate(s, m)
        BY <2>1, <2>2, <2>3
           DEF Next, RequestStep, RefreshStep, AccountStep, Authenticate, ReadForLogin,
               ReadForSessionDelete, ReadForLogout, ReadForLogoutAll, Abort,
               RefreshConcurrent, RefreshReuse, Expire, RevokeUserSessions, DeleteUser,
               ChangeStatus, RestoreUser, Revoke
    <2>5. PICK s, m \in Session : RefreshRotate(s, m)  BY <2>4
    <2>6. /\ s \in DOMAIN rows /\ ~Invalid(s) /\ m \notin issued
          /\ rows' = Upsert(rows, RotatedRows(s, m))
        BY <2>5 DEF RefreshRotate, Rotated, RotatedRows
    <2>7. /\ DOMAIN RotatedRows(s, m) = {s, m} /\ s # m
          /\ RotatedRows(s, m)[s].next = m /\ RotatedRows(s, m)[s].revoked
          /\ RotatedRows(s, m)[m].family = rows[s].family
        BY <2>t, <2>6 DEF RotatedRows, NewRow, Revoked, Row
    <2>8. n = m /\ rows'[m].family = rows[s].family /\ rows'[s].next = m /\ rows'[s].revoked
        BY <2>t, <2>6, <2>7 DEF Upsert
    <2> QED  BY <2>6, <2>8 DEF Invalid
<1>2. QED  BY <1>1, InductiveInvariant, PTL DEF Spec, GrowsOnlyByRotation

(* Until an update is lost, the family revocation on reuse finds at most the token that
   was presented. *)
THEOREM IdleFamilyRevocation == Spec => FamilyRevocationIsIdle
<1> DEFINE Idleness ==
        \A s \in DOMAIN rows :
            ~lost /\ RefreshReuse(s) => InFamily(rows, rows[s].family) \cap Live(rows) \subseteq {s}
<1>1. IInv => Idleness
    <2> SUFFICES ASSUME IInv, NEW s \in DOMAIN rows, ~lost, RefreshReuse(s),
                        NEW x \in DOMAIN rows, rows[x].family = rows[s].family, ~rows[x].revoked
                 PROVE  x = s
        BY DEF InFamily, Live
    <2>1. rows[x].next = Null  BY LiveIsTip DEF IInv
    <2>2. OneTip  BY DEF IInv, ChainsInv
    <2>3. rows[s].next = Null
        BY LiveIsTip DEF IInv, RefreshReuse, Concurrent
    <2> QED  BY <2>1, <2>2, <2>3 DEF OneTip
<1>2. QED  BY <1>1, InductiveInvariant, PTL DEF Spec, FamilyRevocationIsIdle
=============================================================================
