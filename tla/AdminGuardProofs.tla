-------------------------- MODULE AdminGuardProofs --------------------------
(***************************************************************************)
(* Proofs about AdminGuard, for any accounts, requests, logins and number  *)
(* of recovery codes.                                                      *)
(*                                                                         *)
(* The argument: at most one guarded transaction runs; nobody else changes *)
(* its target's row, except that a lock may run out; and as long as no     *)
(* unguarded write has taken a recoverable administrator away, the others  *)
(* only add to the recoverable ones.  So the count stays good until the    *)
(* commit.                                                                 *)
(***************************************************************************)
EXTENDS AdminGuard, FiniteSetTheorems, TLAPS

R == Recoverable(users, codes)

(* The advisory lock. *)
OneTransaction == \A q, r \in Request : InTransaction(q) /\ InTransaction(r) => q = r

Inv == TypeOK /\ OneTransaction /\ GuardHolds /\ DecisionStands

-----------------------------------------------------------------------------
(* Lemmas about operations. *)

(* The parts of an operation. *)
LEMMA OperationParts ==
    ASSUME NEW op \in Operation
    PROVE  /\ op[1] \in {"patch", "delete", "unlock", "reset_mfa", "revoke_sessions"}
           /\ op[1] = "patch" => op[2] \in Role /\ op[3] \in Status
BY OperationAssumption DEF GuardedOperation

(* An operation leaves a row a row. *)
LEMMA ChangedRow ==
    ASSUME NEW op \in Operation, NEW row \in Row
    PROVE  Changed(row, op) \in Row
BY OperationParts DEF Changed, Row, Status

(* The recoverable administrators are accounts, finitely many. *)
LEMMA RecoverableFinite ==
    ASSUME TypeOK
    PROVE  R \subseteq User /\ IsFiniteSet(R)
<1>1. R \subseteq User  BY DEF R, Recoverable, TypeOK
<1> QED  BY <1>1, UserAssumption, FS_Subset

(* Of two recoverable administrators one is not the target. *)
LEMMA TwoLeaveOne ==
    ASSUME TypeOK, NEW t, Cardinality(R) >= 2
    PROVE  R \ {t} # {}
<1>1. ASSUME R \subseteq {t} PROVE FALSE
    <2>1. Cardinality({t}) = 1 /\ IsFiniteSet({t})  BY FS_Singleton
    <2>2. Cardinality(R) \in Nat /\ Cardinality(R) <= 1  BY <1>1, <2>1, RecoverableFinite, FS_Subset, FS_CardinalityType
    <2> QED  BY <2>2
<1> QED  BY <1>1

(* An operation touches nobody but its target. *)
LEMMA OthersKept ==
    ASSUME TypeOK, NEW op \in Operation, NEW t \in DOMAIN users
    PROVE  /\ R \ {t} \subseteq Recoverable(UsersAfter(op, t), CodesAfter(op, t))
           /\ Recoverable(UsersAfter(op, t), CodesAfter(op, t)) \subseteq R \cup {t}
BY DEF R, Recoverable, UsersAfter, CodesAfter, TypeOK

(* Committing an operation that was allowed leaves a recoverable administrator. *)
LEMMA AllowedLeavesOne ==
    ASSUME TypeOK, NEW op \in Operation, NEW t \in DOMAIN users, Allowed(op, t), R # {}
    PROVE  Recoverable(UsersAfter(op, t), CodesAfter(op, t)) # {}
<1>1. CASE ~Counted(op, t)
    <2>1. users[t].role # "ADMIN"  BY <1>1 DEF Counted
    <2>2. R \ {t} = R  BY <2>1 DEF R, Recoverable
    <2> QED  BY <2>2, OthersKept
<1>2. CASE Counted(op, t) /\ op[1] = "revoke_sessions"
    <2>1. Cardinality(R) >= 2  BY <1>2 DEF Allowed, R
    <2> QED  BY <2>1, TwoLeaveOne, OthersKept
<1>3. CASE Counted(op, t) /\ op[1] # "revoke_sessions"
    BY <1>3 DEF Allowed
<1> QED  BY <1>1, <1>2, <1>3

(* The decision survives a step that takes no recoverable administrator away and leaves the
   target's row as it was, but perhaps for a lock that has run out. *)
LEMMA DecisionKept ==
    ASSUME TypeOK, TypeOK', NEW op \in Operation, NEW t \in DOMAIN users, Allowed(op, t),
           R # {}, R \subseteq R', t \in DOMAIN users',
           users'[t] \in {users[t], [users[t] EXCEPT !.locked = FALSE]}
    PROVE  Allowed(op, t)'
<1>t. users[t] \in Row /\ users'[t].role = users[t].role  BY DEF TypeOK, Row
<1>1. Counted(op, t)' = Counted(op, t)  BY <1>t DEF Counted
<1>2. CASE op[1] = "revoke_sessions" /\ Counted(op, t)
    <2>1. Cardinality(R) >= 2  BY <1>2 DEF Allowed, R
    <2>2. IsFiniteSet(R')
        <3>1. R' \subseteq User  BY DEF R, Recoverable, TypeOK
        <3> QED  BY <3>1, UserAssumption, FS_Subset
    <2>3. Cardinality(R) \in Nat /\ Cardinality(R') \in Nat /\ Cardinality(R) <= Cardinality(R')
        BY <2>2, RecoverableFinite, FS_Subset, FS_CardinalityType
    <2>4. Cardinality(R') >= 2  BY <2>1, <2>3
    <2> QED  BY <1>2, <2>4 DEF Allowed, R
<1>3. CASE op[1] # "revoke_sessions" /\ Counted(op, t)
    <2>1. PICK x : x \in Recoverable(UsersAfter(op, t), CodesAfter(op, t))
        BY <1>3 DEF Allowed
    <2>2. SUFFICES Recoverable(UsersAfter(op, t), CodesAfter(op, t))' # {}
        BY <1>3 DEF Allowed
    <2>3. R' \ {t} \subseteq Recoverable(UsersAfter(op, t), CodesAfter(op, t))'
        BY DEF R, Recoverable, UsersAfter, CodesAfter, TypeOK
    <2>4. CASE R \ {t} # {}
        BY <2>3, <2>4
    <2>5. CASE R = {t}
        <3>1. x = t  BY <2>1, <2>5, OthersKept
        <3>2. t \in R /\ t \in R'  BY <2>5
        <3>3. users'[t] = users[t]
            <4>1. users[t].locked = FALSE  BY <3>2, <1>t DEF R, Recoverable, Row
            <4> QED  BY <4>1, <1>t DEF Row
        <3>4. op[1] # "delete" /\ op[1] # "reset_mfa"
            <4>1. op[1] # "delete"
                BY <2>1, <3>1 DEF Recoverable, UsersAfter
            <4>2. ASSUME op[1] = "reset_mfa" PROVE FALSE
                <5>1. CodesAfter(op, t)[t] = 0  BY <4>2 DEF CodesAfter, TypeOK
                <5> QED  BY <2>1, <3>1, <5>1 DEF Recoverable
            <4> QED  BY <4>1, <4>2
        <3>5. /\ t \in DOMAIN UsersAfter(op, t)' /\ CodesAfter(op, t)' = codes'
              /\ UsersAfter(op, t)'[t] = Changed(users[t], op)
            BY <3>3, <3>4 DEF UsersAfter, CodesAfter
        <3>6. UsersAfter(op, t)[t] = Changed(users[t], op)  BY <3>4 DEF UsersAfter
        <3>7. codes'[t] > 0  BY <3>2 DEF R, Recoverable
        <3> HIDE DEF R
        <3> QED  BY <2>1, <3>1, <3>5, <3>6, <3>7 DEF Recoverable
    <2> QED  BY <2>4, <2>5
<1> QED  BY <1>1, <1>2, <1>3 DEF Allowed

-----------------------------------------------------------------------------
(* Type correctness. *)

RequestOK(q, ids) ==
    \/ q \in {NoRequest, [NoRequest EXCEPT !.phase = "authorised"]}
    \/ /\ q.phase \in {"locked", "decided"}
       /\ q = [phase |-> q.phase, op |-> q.op, target |-> q.target, rows |-> q.rows]
       /\ q.op \in Operation
       /\ q.target \in ids \cap q.rows
       /\ q.rows \subseteq User

RequestsOK == DOMAIN request = Request /\ \A r \in Request : RequestOK(request[r], DOMAIN users)

RowsOK ==
    /\ DOMAIN users \subseteq created /\ created \subseteq User
    /\ users \in [DOMAIN users -> Row]
    /\ codes \in [User -> 0 .. CodeCount]
    /\ \A u \in User \ DOMAIN users : codes[u] = 0

LoginsOK ==
    /\ DOMAIN login = Login
    /\ \A l \in Login : login[l] # Null =>
          DOMAIN login[l] \subseteq created /\ login[l] \in [DOMAIN login[l] -> Row]

(* The type invariant by its parts. *)
LEMMA TypeParts ==
    /\ TypeOK <=> RowsOK /\ RequestsOK /\ LoginsOK /\ bypassed \in BOOLEAN
    /\ TypeOK' <=> RowsOK' /\ RequestsOK' /\ LoginsOK' /\ bypassed' \in BOOLEAN
BY DEF TypeOK, RowsOK, RequestsOK, LoginsOK, RequestOK, InTransaction

(* A new account is a row. *)
LEMMA NewAccountRow ==
    ASSUME NEW role \in Role, NEW v \in BOOLEAN
    PROVE  NewAccount(role, v) \in Row
BY DEF NewAccount, Row, Status

(* Every step of every handler keeps the types. *)
LEMMA TypeStep == TypeOK /\ OneTransaction /\ [Next]_vars => TypeOK'
<1> SUFFICES ASSUME RowsOK, RequestsOK, LoginsOK, bypassed \in BOOLEAN, OneTransaction, [Next]_vars
             PROVE  RowsOK' /\ RequestsOK' /\ LoginsOK' /\ bypassed' \in BOOLEAN
    BY TypeParts
(* A step that leaves the requests alone and deletes no account. *)
<1>a. ASSUME UNCHANGED request, DOMAIN users \subseteq DOMAIN users' PROVE RequestsOK'
    BY <1>a DEF RequestsOK, RequestOK
(* A step that changes one request only. *)
<1>b. ASSUME NEW r \in Request, NEW q, request' = [request EXCEPT ![r] = q],
             RequestOK(q, DOMAIN users), UNCHANGED <<users, codes, created, login, bypassed>>
      PROVE  RowsOK' /\ RequestsOK' /\ LoginsOK' /\ bypassed' \in BOOLEAN
    <2>1. RequestsOK'  BY <1>b DEF RequestsOK
    <2> QED  BY <1>b, <2>1 DEF RowsOK, LoginsOK
(* A step that changes one row, and perhaps codes. *)
<1>c. ASSUME NEW u \in DOMAIN users, NEW row \in Row, users' = [users EXCEPT ![u] = row],
             codes' \in [User -> 0 .. CodeCount], \A x \in User \ DOMAIN users : codes'[x] = 0,
             UNCHANGED created
      PROVE  RowsOK' /\ DOMAIN users' = DOMAIN users
    BY <1>c DEF RowsOK
<1>1. ASSUME NEW r \in Request, Authorise(r)
      PROVE  RowsOK' /\ RequestsOK' /\ LoginsOK' /\ bypassed' \in BOOLEAN
    <2>1. request[r] = NoRequest  BY <1>1 DEF Authorise, RequestsOK, RequestOK, NoRequest
    <2>2. request' = [request EXCEPT ![r] = [NoRequest EXCEPT !.phase = "authorised"]]
        BY <1>1, <2>1 DEF Authorise
    <2> QED  BY <1>1, <1>b, <2>2 DEF Authorise, RequestOK
<1>2. ASSUME NEW r \in Request, NEW op \in Operation, NEW u \in User, LockMembership(r, op, u)
      PROVE  RowsOK' /\ RequestsOK' /\ LoginsOK' /\ bypassed' \in BOOLEAN
    <2> DEFINE q == [phase |-> "locked", op |-> op, target |-> u, rows |-> Administrators \cup {u}]
    <2>1. Administrators \subseteq User /\ u \in DOMAIN users
        BY <1>2 DEF LockMembership, LockRows, Administrators, RowsOK
    <2>2. RequestOK(q, DOMAIN users)  BY <2>1 DEF RequestOK
    <2>3. request' = [request EXCEPT ![r] = q]  BY <1>2 DEF LockMembership, LockRows
    <2> QED  BY <1>2, <1>b, <2>2, <2>3 DEF LockMembership, LockRows
<1>3. ASSUME NEW r \in Request, Decide(r)
      PROVE  RowsOK' /\ RequestsOK' /\ LoginsOK' /\ bypassed' \in BOOLEAN
    <2> DEFINE q == [request[r] EXCEPT !.phase = "decided"]
    <2>1. RequestOK(request[r], DOMAIN users) /\ request[r].phase = "locked"
        BY <1>3 DEF Decide, RequestsOK
    <2>2. RequestOK(q, DOMAIN users)  BY <2>1 DEF RequestOK, NoRequest
    <2>3. request' = [request EXCEPT ![r] = q]  BY <1>3 DEF Decide
    <2> QED  BY <1>3, <1>b, <2>2, <2>3 DEF Decide
<1>4. ASSUME NEW r \in Request, Commit(r)
      PROVE  RowsOK' /\ RequestsOK' /\ LoginsOK' /\ bypassed' \in BOOLEAN
    <2> DEFINE op == request[r].op
               t == request[r].target
    <2>1. RequestOK(request[r], DOMAIN users) /\ request[r].phase = "decided" /\ InTransaction(r)
        BY <1>4 DEF Commit, RequestsOK, InTransaction
    <2>2. op \in Operation /\ t \in DOMAIN users /\ t \in User
        BY <2>1 DEF RequestOK, NoRequest, RowsOK
    <2>3. users' = UsersAfter(op, t) /\ codes' = CodesAfter(op, t)  BY <1>4 DEF Commit
    <2> HIDE DEF op, t
    <2>4. Changed(users[t], op) \in Row  BY <2>2, ChangedRow DEF RowsOK
    <2>5. RowsOK'
        <3>1. /\ DOMAIN users' = IF op[1] = "delete" THEN DOMAIN users \ {t} ELSE DOMAIN users
              /\ users' \in [DOMAIN users' -> Row]
            BY <2>2, <2>3, <2>4 DEF UsersAfter, RowsOK
        <3>2. /\ codes' \in [User -> 0 .. CodeCount]
              /\ \A u \in User \ DOMAIN users' : codes'[u] = 0
            BY <2>2, <2>3, <3>1, CodeCountAssumption DEF CodesAfter, RowsOK
        <3> QED  BY <1>4, <3>1, <3>2 DEF Commit, RowsOK
    <2>6. RequestsOK'
        <3>1. \A q \in Request \ {r} : RequestOK(request[q], DOMAIN users')
            BY <2>1 DEF RequestsOK, RequestOK, OneTransaction, InTransaction
        <3> QED  BY <1>4, <3>1 DEF Commit, RequestsOK, RequestOK
    <2> QED  BY <1>4, <2>5, <2>6 DEF Commit, LoginsOK
<1>5. ASSUME NEW r \in Request, RollBack(r)
      PROVE  RowsOK' /\ RequestsOK' /\ LoginsOK' /\ bypassed' \in BOOLEAN
    BY <1>5, <1>b DEF RollBack, RequestOK
<1>6. ASSUME NEW l \in Login, NEW u \in User, LoginRead(l, u)
      PROVE  RowsOK' /\ RequestsOK' /\ LoginsOK' /\ bypassed' \in BOOLEAN
    <2>1. [users EXCEPT ![u].status = "LOCKED", ![u].locked = TRUE] \in [DOMAIN users -> Row]
        BY <1>6 DEF LoginRead, RowsOK, Row, Status
    <2>2. LoginsOK'  BY <1>6, <2>1 DEF LoginRead, LoginsOK, RowsOK
    <2> QED  BY <1>6, <1>a, <2>2 DEF LoginRead, RowsOK
<1>7. ASSUME NEW l \in Login, NEW u \in User, SignUpRead(l, u)
      PROVE  RowsOK' /\ RequestsOK' /\ LoginsOK' /\ bypassed' \in BOOLEAN
    <2>1. NewAccount("USER", FALSE) \in Row  BY NewAccountRow DEF Role
    <2>2. LoginsOK'  BY <1>7, <2>1 DEF SignUpRead, LoginsOK, RowsOK
    <2> QED  BY <1>7, <1>a, <2>2 DEF SignUpRead, RowsOK
<1>8. ASSUME NEW l \in Login, LoginSave(l)
      PROVE  RowsOK' /\ RequestsOK' /\ LoginsOK' /\ bypassed' \in BOOLEAN
    <2>1. RowsOK'  BY <1>8 DEF LoginSave, LoginsOK, RowsOK
    <2>2. LoginsOK' /\ bypassed' \in BOOLEAN  BY <1>8 DEF LoginSave, LoginsOK, Bypass
    <2> QED  BY <1>8, <1>a, <2>1, <2>2 DEF LoginSave
<1>9. ASSUME NEW u \in User, ConsumeCode(u)
      PROVE  RowsOK' /\ RequestsOK' /\ LoginsOK' /\ bypassed' \in BOOLEAN
    <2>1. RowsOK'  BY <1>9, CodeCountAssumption DEF ConsumeCode, RowsOK, Administrators
    <2> QED  BY <1>9, <1>a, <2>1 DEF ConsumeCode, LoginsOK, Bypass
<1>10. ASSUME NEW u \in User, ConfirmSetup(u)
       PROVE  RowsOK' /\ RequestsOK' /\ LoginsOK' /\ bypassed' \in BOOLEAN
    <2>1. u \in DOMAIN users /\ users[u] \in Row  BY <1>10 DEF ConfirmSetup, Administrators, RowsOK
    <2>2. [users[u] EXCEPT !.enrolled = TRUE] \in Row  BY <2>1 DEF Row
    <2>3. users' = [users EXCEPT ![u] = [users[u] EXCEPT !.enrolled = TRUE]]
        BY <1>10 DEF ConfirmSetup
    <2>4. codes' \in [User -> 0 .. CodeCount] /\ \A x \in User \ DOMAIN users : codes'[x] = 0
        BY <1>10, <2>1, CodeCountAssumption DEF ConfirmSetup, RowsOK
    <2>5. RowsOK'  BY <1>10, <1>c, <2>1, <2>2, <2>3, <2>4 DEF ConfirmSetup
    <2> QED  BY <1>10, <1>a, <2>3, <2>5 DEF ConfirmSetup, LoginsOK
<1>11. ASSUME NEW u \in User, VerifyEmail(u)
       PROVE  RowsOK' /\ RequestsOK' /\ LoginsOK' /\ bypassed' \in BOOLEAN
    <2> DEFINE row == [users[u] EXCEPT !.verified = TRUE,
                           !.status = IF @ = "PENDING_VERIFICATION" THEN "ACTIVE" ELSE @]
    <2>1. u \in DOMAIN users /\ users[u] \in Row  BY <1>11 DEF VerifyEmail, RowsOK
    <2>2. row \in Row  BY <2>1 DEF Row, Status
    <2>3. users' = [users EXCEPT ![u] = row]  BY <1>11, <2>1 DEF VerifyEmail, RowsOK, Row
    <2> HIDE DEF row
    <2>4. RowsOK'  BY <1>11, <1>c, <2>1, <2>2, <2>3 DEF VerifyEmail, RowsOK
    <2> QED  BY <1>11, <1>a, <2>3, <2>4 DEF VerifyEmail, LoginsOK
<1>15. ASSUME NEW u \in User, ResetPassword(u)
       PROVE  RowsOK' /\ RequestsOK' /\ LoginsOK' /\ bypassed' \in BOOLEAN
    <2>1. RowsOK'  BY <1>15 DEF ResetPassword, RowsOK, Row
    <2> QED  BY <1>15, <1>a, <2>1 DEF ResetPassword, LoginsOK
<1>12. ASSUME NEW u \in User, NEW role \in Role, CreateAccount(u, role)
       PROVE  RowsOK' /\ RequestsOK' /\ LoginsOK' /\ bypassed' \in BOOLEAN
    <2>1. NewAccount(role, TRUE) \in Row  BY NewAccountRow
    <2>2. RowsOK'  BY <1>12, <2>1 DEF CreateAccount, RowsOK
    <2> QED  BY <1>12, <1>a, <2>2 DEF CreateAccount, LoginsOK, RowsOK
<1>13. ASSUME NEW u \in User, LockPeriodEnds(u)
       PROVE  RowsOK' /\ RequestsOK' /\ LoginsOK' /\ bypassed' \in BOOLEAN
    <2>1. RowsOK'  BY <1>13 DEF LockPeriodEnds, RowsOK, Row
    <2>2. LoginsOK'
        <3>1. ASSUME NEW f, f \in [DOMAIN f -> Row], u \in DOMAIN f
              PROVE  [f EXCEPT ![u].locked = FALSE] \in [DOMAIN f -> Row]
            BY <3>1 DEF Row
        <3>2. ASSUME NEW l \in Login, login'[l] # Null
              PROVE  DOMAIN login'[l] \subseteq created' /\ login'[l] \in [DOMAIN login'[l] -> Row]
            <4>1. login[l] # Null /\ created' = created  BY <1>13, <3>2 DEF LockPeriodEnds
            <4>2. DOMAIN login[l] \subseteq created /\ login[l] \in [DOMAIN login[l] -> Row]
                BY <4>1 DEF LoginsOK
            <4> QED  BY <1>13, <3>1, <4>1, <4>2 DEF LockPeriodEnds
        <3> QED  BY <1>13, <3>2 DEF LockPeriodEnds, LoginsOK
    <2> QED  BY <1>13, <1>a, <2>1, <2>2 DEF LockPeriodEnds
<1>14. CASE UNCHANGED vars
    BY <1>14, <1>a DEF vars, RowsOK, LoginsOK
<1> QED
    BY <1>1, <1>2, <1>3, <1>4, <1>5, <1>6, <1>7, <1>8, <1>9, <1>10, <1>11, <1>12, <1>13, <1>14, <1>15
       DEF Next, GuardedStep, LoginStep, AccountStep

-----------------------------------------------------------------------------
(* The guard. *)

(* The advisory lock: two transactions never overlap. *)
LEMMA LockStep == TypeOK /\ OneTransaction /\ [Next]_vars => OneTransaction'
<1> SUFFICES ASSUME TypeOK, OneTransaction, [Next]_vars
             PROVE  OneTransaction'
    OBVIOUS
<1>d. DOMAIN request = Request  BY DEF TypeOK
<1>a. ASSUME NEW r \in Request, NEW q, request' = [request EXCEPT ![r] = q],
             InTransaction(r) \/ q.phase \notin {"locked", "decided"}
      PROVE  OneTransaction'
    BY <1>a, <1>d DEF OneTransaction, InTransaction
<1>b. ASSUME UNCHANGED request PROVE OneTransaction'
    BY <1>b DEF OneTransaction, InTransaction
<1>1. ASSUME NEW r \in Request, Authorise(r) PROVE OneTransaction'
    <2>1. request' = [request EXCEPT ![r] = [@ EXCEPT !.phase = "authorised"]]
        BY <1>1 DEF Authorise
    <2>2. [request[r] EXCEPT !.phase = "authorised"].phase \notin {"locked", "decided"}
        <3>1. "phase" \in DOMAIN request[r]
            BY <1>1 DEF Authorise, TypeOK, InTransaction, NoRequest
        <3> QED  BY <3>1
    <2> QED  BY <1>a, <2>1, <2>2
<1>2. ASSUME NEW r \in Request, NEW op \in Operation, NEW u \in User, LockMembership(r, op, u)
      PROVE  OneTransaction'
    BY <1>2, <1>d DEF LockMembership, LockRows, OneTransaction, InTransaction
<1>3. ASSUME NEW r \in Request, Decide(r) PROVE OneTransaction'
    BY <1>3, <1>a DEF Decide, InTransaction
<1>4. ASSUME NEW r \in Request, Commit(r) \/ RollBack(r) PROVE OneTransaction'
    BY <1>4, <1>a DEF Commit, RollBack, NoRequest
<1>5. ASSUME NEW l \in Login, LoginStep(l) PROVE OneTransaction'
    BY <1>5, <1>b DEF LoginStep, LoginRead, SignUpRead, LoginSave
<1>6. ASSUME NEW u \in User, AccountStep(u) PROVE OneTransaction'
    BY <1>6, <1>b DEF AccountStep, ConsumeCode, ConfirmSetup, VerifyEmail, CreateAccount,
                      ResetPassword, LockPeriodEnds
<1>7. CASE UNCHANGED vars
    BY <1>7, <1>b DEF vars
<1> QED  BY <1>1, <1>2, <1>3, <1>4, <1>5, <1>6, <1>7 DEF Next, GuardedStep

(* Until the guard is bypassed, what is not a commit takes nobody away from the recoverable
   administrators. *)
LEMMA OnlyCommitsRemove ==
    ASSUME TypeOK, [Next]_vars, ~bypassed'
    PROVE  ~bypassed /\ (R \subseteq R' \/ \E r \in Request : Commit(r))
<1>t. /\ users \in [DOMAIN users -> Row] /\ codes \in [User -> 0 .. CodeCount]
      /\ DOMAIN users \subseteq created /\ created \subseteq User
    BY DEF TypeOK
<1>a. ASSUME UNCHANGED <<users, codes, bypassed>>
      PROVE  ~bypassed /\ R \subseteq R'
    BY <1>a DEF R, Recoverable
<1>1. ASSUME NEW r \in Request, GuardedStep(r)
      PROVE  ~bypassed /\ (R \subseteq R' \/ \E q \in Request : Commit(q))
    BY <1>1, <1>a DEF GuardedStep, Authorise, LockMembership, LockRows, Decide, Commit, RollBack
<1>2. ASSUME NEW l \in Login, LoginStep(l)
      PROVE  ~bypassed /\ R \subseteq R'
    BY <1>2, <1>a DEF LoginStep, LoginRead, SignUpRead, LoginSave, Bypass, R
<1>3. ASSUME NEW u \in User, ConsumeCode(u) PROVE ~bypassed /\ R \subseteq R'
    BY <1>3 DEF ConsumeCode, Bypass, R
<1>4. ASSUME NEW u \in User, ConfirmSetup(u) PROVE ~bypassed /\ R \subseteq R'
    <2>1. ASSUME NEW x \in R PROVE x \in R'
        <3>1. x \in DOMAIN users' /\ x \in User /\ codes'[x] > 0
            BY <1>4, <1>t, <2>1, CodeCountAssumption DEF ConfirmSetup, R, Recoverable
        <3>2. /\ users'[x].role = users[x].role /\ users'[x].status = users[x].status
              /\ users'[x].verified = users[x].verified /\ users'[x].locked = users[x].locked
              /\ users'[x].enrolled
            BY <1>4, <1>t, <2>1 DEF ConfirmSetup, R, Recoverable, Row
        <3> QED  BY <3>1, <3>2, <2>1 DEF R, Recoverable
    <2> QED  BY <1>4, <2>1 DEF ConfirmSetup
<1>5. ASSUME NEW u \in User, VerifyEmail(u) PROVE ~bypassed /\ R \subseteq R'
    <2>1. u \notin R  BY <1>5 DEF VerifyEmail, R, Recoverable
    <2> QED  BY <1>5, <2>1 DEF VerifyEmail, R, Recoverable
<1>6. ASSUME NEW u \in User, NEW role \in Role, CreateAccount(u, role)
      PROVE  ~bypassed /\ R \subseteq R'
    BY <1>6, <1>t DEF CreateAccount, R, Recoverable
<1>7. ASSUME NEW u \in User, ResetPassword(u) \/ LockPeriodEnds(u)
      PROVE  ~bypassed /\ R \subseteq R'
    BY <1>7, <1>t DEF ResetPassword, LockPeriodEnds, R, Recoverable, Row
<1>8. CASE UNCHANGED vars
    BY <1>8, <1>a DEF vars
<1> QED  BY <1>1, <1>2, <1>3, <1>4, <1>5, <1>6, <1>7, <1>8 DEF Next, AccountStep

(* While a transaction holds a row, only a lock that runs out changes it. *)
LEMMA TargetKept ==
    ASSUME TypeOK, [Next]_vars, NEW r \in Request, InTransaction(r),
           \A q \in Request : ~Commit(q)
    PROVE  /\ request[r].target \in DOMAIN users'
           /\ users'[request[r].target] \in {users[request[r].target],
                                             [users[request[r].target] EXCEPT !.locked = FALSE]}
<1> SUFFICES ASSUME NEW t, t = request[r].target
             PROVE  t \in DOMAIN users' /\ users'[t] \in {users[t], [users[t] EXCEPT !.locked = FALSE]}
    OBVIOUS
<1>1. t \in DOMAIN users /\ t \in request[r].rows
    BY DEF TypeOK, InTransaction, NoRequest
<1>2. RowLocked(t)  BY <1>1 DEF RowLocked
<1>3. t \in created /\ users[t] \in Row  BY <1>1 DEF TypeOK
<1>a. ASSUME UNCHANGED users
      PROVE  t \in DOMAIN users' /\ users'[t] \in {users[t], [users[t] EXCEPT !.locked = FALSE]}
    BY <1>1, <1>a
<1>4. ASSUME NEW q \in Request, GuardedStep(q)
      PROVE  t \in DOMAIN users' /\ users'[t] \in {users[t], [users[t] EXCEPT !.locked = FALSE]}
    BY <1>4, <1>a DEF GuardedStep, Authorise, LockMembership, LockRows, Decide, RollBack
<1>5. ASSUME NEW l \in Login, LoginStep(l)
      PROVE  t \in DOMAIN users' /\ users'[t] \in {users[t], [users[t] EXCEPT !.locked = FALSE]}
    BY <1>1, <1>2, <1>5, <1>a DEF LoginStep, LoginRead, SignUpRead, LoginSave
<1>6. ASSUME NEW u \in User, AccountStep(u)
      PROVE  t \in DOMAIN users' /\ users'[t] \in {users[t], [users[t] EXCEPT !.locked = FALSE]}
    <2>1. CASE ConsumeCode(u)
        BY <2>1, <1>a DEF ConsumeCode
    <2>2. CASE ConfirmSetup(u) \/ VerifyEmail(u) \/ ResetPassword(u)
        <3>1. u # t  BY <1>2, <2>2 DEF ConfirmSetup, VerifyEmail, ResetPassword
        <3> QED  BY <1>1, <2>2, <3>1 DEF ConfirmSetup, VerifyEmail, ResetPassword
    <2>3. ASSUME NEW role \in Role, CreateAccount(u, role)
          PROVE  t \in DOMAIN users' /\ users'[t] \in {users[t], [users[t] EXCEPT !.locked = FALSE]}
        BY <1>1, <1>3, <2>3 DEF CreateAccount
    <2>4. CASE LockPeriodEnds(u)
        BY <1>1, <1>3, <2>4 DEF LockPeriodEnds, Row
    <2> QED  BY <1>6, <2>1, <2>2, <2>3, <2>4 DEF AccountStep
<1>7. CASE UNCHANGED vars
    BY <1>7, <1>a DEF vars
<1> QED  BY <1>4, <1>5, <1>6, <1>7 DEF Next

(* Every step keeps a recoverable administrator, and the decisions that are to be committed,
   until the guard is bypassed. *)
LEMMA GuardStep ==
    Inv /\ TypeOK' /\ OneTransaction' /\ [Next]_vars => GuardHolds' /\ DecisionStands'
<1> SUFFICES ASSUME Inv, TypeOK', OneTransaction', [Next]_vars, ~bypassed'
             PROVE  /\ R' # {}
                    /\ \A r \in Request : request'[r].phase = "decided" =>
                           Allowed(request[r].op, request[r].target)'
    BY DEF GuardHolds, DecisionStands, R
<1>1. /\ TypeOK /\ OneTransaction /\ ~bypassed /\ R # {}
      /\ R \subseteq R' \/ \E r \in Request : Commit(r)
    BY OnlyCommitsRemove DEF Inv, GuardHolds, R
<1>2. ASSUME NEW r \in Request, InTransaction(r)
      PROVE  request[r].op \in Operation /\ request[r].target \in DOMAIN users
    BY <1>1, <1>2 DEF TypeOK, InTransaction, NoRequest
<1>3. ASSUME NEW r \in Request, Commit(r)
      PROVE  /\ R' # {}
             /\ \A q \in Request : request'[q].phase # "decided"
    <2>1. InTransaction(r) /\ request[r].phase = "decided"  BY <1>3 DEF Commit, InTransaction
    <2>2. Allowed(request[r].op, request[r].target)
        BY <1>1, <2>1 DEF Inv, DecisionStands
    <2>3. R' = Recoverable(UsersAfter(request[r].op, request[r].target),
                           CodesAfter(request[r].op, request[r].target))
        BY <1>3 DEF Commit, R
    <2>4. R' # {}  BY <1>1, <1>2, <2>1, <2>2, <2>3, AllowedLeavesOne
    <2>5. \A q \in Request \ {r} : ~InTransaction(q)  BY <1>1, <2>1 DEF OneTransaction
    <2>6. \A q \in Request : request'[q].phase # "decided"
        BY <1>1, <1>3, <2>5 DEF Commit, InTransaction, NoRequest, TypeOK
    <2> QED  BY <2>4, <2>6
<1>4. ASSUME \A q \in Request : ~Commit(q), NEW r \in Request, request'[r].phase = "decided"
      PROVE  Allowed(request[r].op, request[r].target)'
    <2>1. /\ InTransaction(r) /\ Allowed(request[r].op, request[r].target)
          /\ request'[r].op = request[r].op /\ request'[r].target = request[r].target
        <3>1. ASSUME UNCHANGED request
              PROVE  /\ InTransaction(r) /\ Allowed(request[r].op, request[r].target)
                     /\ request'[r].op = request[r].op /\ request'[r].target = request[r].target
            BY <1>1, <1>4, <3>1 DEF Inv, DecisionStands, InTransaction
        <3>2. ASSUME NEW q \in Request, q # r, request'[r] = request[r]
              PROVE  /\ InTransaction(r) /\ Allowed(request[r].op, request[r].target)
                     /\ request'[r].op = request[r].op /\ request'[r].target = request[r].target
            BY <1>1, <1>4, <3>2 DEF Inv, DecisionStands, InTransaction
        <3>3. ASSUME NEW q \in Request, GuardedStep(q)
              PROVE  /\ InTransaction(r) /\ Allowed(request[r].op, request[r].target)
                     /\ request'[r].op = request[r].op /\ request'[r].target = request[r].target
            <4>1. DOMAIN request = Request /\ "phase" \in DOMAIN request[r]
                BY <1>1 DEF TypeOK, InTransaction, NoRequest
            <4>2. CASE q # r
                BY <1>4, <3>2, <3>3, <4>1, <4>2 DEF GuardedStep, Authorise, LockMembership, LockRows, Decide, RollBack
            <4>3. CASE q = r
                <5>1. Decide(r)
                    BY <1>4, <3>3, <4>1, <4>3
                       DEF GuardedStep, Authorise, LockMembership, LockRows, RollBack, NoRequest
                <5> QED  BY <5>1, <4>1 DEF Decide, InTransaction
            <4> QED  BY <4>2, <4>3
        <3>4. ASSUME NEW l \in Login, LoginStep(l) PROVE UNCHANGED request
            BY <3>4 DEF LoginStep, LoginRead, SignUpRead, LoginSave
        <3>5. ASSUME NEW u \in User, AccountStep(u) PROVE UNCHANGED request
            BY <3>5 DEF AccountStep, ConsumeCode, ConfirmSetup, VerifyEmail, CreateAccount,
                        ResetPassword, LockPeriodEnds
        <3>6. CASE UNCHANGED vars
            BY <3>1, <3>6 DEF vars
        <3> QED  BY <3>1, <3>3, <3>4, <3>5, <3>6 DEF Next
    <2> SUFFICES ASSUME NEW op, NEW t, op = request[r].op, t = request[r].target
                 PROVE  Allowed(request[r].op, request[r].target)'
        OBVIOUS
    <2>2. op \in Operation /\ t \in DOMAIN users /\ Allowed(op, t)  BY <1>2, <2>1
    <2>3. t \in DOMAIN users' /\ users'[t] \in {users[t], [users[t] EXCEPT !.locked = FALSE]}
        BY <1>1, <1>4, <2>1, TargetKept
    <2>4. Allowed(op, t)'  BY <1>1, <1>4, <2>2, <2>3, DecisionKept
    <2>5. request'[r].op = op /\ request'[r].target = t  BY <2>1
    <2> QED  BY <2>4, <2>5 DEF Allowed
<1>5. ASSUME \A q \in Request : ~Commit(q) PROVE R' # {}
    BY <1>1, <1>5
<1> QED  BY <1>3, <1>4, <1>5

-----------------------------------------------------------------------------
(* The theorems. *)

(* The inductive invariant. *)
THEOREM InductiveInvariant == Spec => []Inv
<1>1. Init => Inv
    <2> SUFFICES ASSUME Init PROVE Inv
        OBVIOUS
    <2>1. \A r \in Request : request[r] = NoRequest /\ ~InTransaction(r)
        BY DEF Init, NoRequest, InTransaction
    <2>2. RowsOK
        <3>1. NewAccount("USER", TRUE) \in Row /\ [NewAccount("ADMIN", TRUE) EXCEPT !.enrolled = TRUE] \in Row
            BY NewAccountRow DEF Role, Row
        <3>2. users \in [DOMAIN users -> Row] /\ DOMAIN users \subseteq User
            BY <3>1 DEF Init
        <3> QED  BY <3>2, CodeCountAssumption DEF Init, RowsOK, Administrators
    <2>3. RequestsOK /\ LoginsOK  BY <2>1 DEF Init, RequestsOK, RequestOK, LoginsOK
    <2>4. TypeOK  BY <2>2, <2>3, TypeParts DEF Init
    <2>5. \A r \in Request : request[r].phase # "decided"  BY <2>1 DEF NoRequest
    <2> QED  BY <2>1, <2>4, <2>5 DEF Inv, Init, OneTransaction, GuardHolds, DecisionStands
<1>2. Inv /\ [Next]_vars => Inv'
    BY TypeStep, LockStep, GuardStep DEF Inv
<1> QED  BY <1>1, <1>2, PTL DEF Spec

(* Types, in every reachable state. *)
THEOREM TypeCorrect == Spec => []TypeOK
<1>1. Inv => TypeOK  BY DEF Inv
<1> QED  BY <1>1, InductiveInvariant, PTL

(* The final-administrator invariant: the guarded operations never take the last recoverable
   administrator away. *)
THEOREM FinalAdministrator == Spec => []GuardHolds
<1>1. Inv => GuardHolds  BY DEF Inv
<1> QED  BY <1>1, InductiveInvariant, PTL

(* What was counted before the commit still holds at the commit. *)
THEOREM NoStaleDecision == Spec => []DecisionStands
<1>1. Inv => DecisionStands  BY DEF Inv
<1> QED  BY <1>1, InductiveInvariant, PTL

(* Revoking an administrator's sessions leaves another one to act. *)
THEOREM SessionRevocation == Spec => RevocationLeavesAnother
<1>1. Inv /\ [Next]_vars =>
          [\A r \in Request :
               Commit(r) /\ ~bypassed /\ request[r].op[1] = "revoke_sessions" /\ request[r].target \in Administrators
                   => Recoverable(users', codes') \ {request[r].target} # {}]_vars
    <2> SUFFICES ASSUME Inv, NEW r \in Request, Commit(r), ~bypassed,
                        request[r].op[1] = "revoke_sessions", request[r].target \in Administrators
                 PROVE  Recoverable(users', codes') \ {request[r].target} # {}
        OBVIOUS
    <2> DEFINE op == request[r].op
               t == request[r].target
    <2>1. Allowed(op, t) /\ op \in Operation /\ t \in DOMAIN users /\ TypeOK
        <3>1. TypeOK /\ Allowed(op, t) /\ InTransaction(r)
            BY DEF Commit, Inv, DecisionStands, InTransaction
        <3>2. op \in Operation /\ t \in DOMAIN users
            BY <3>1 DEF TypeOK, InTransaction, NoRequest
        <3> QED  BY <3>1, <3>2
    <2>2. Counted(op, t) /\ op[1] = "revoke_sessions"  BY DEF Counted, Administrators
    <2>3. users' = UsersAfter(op, t) /\ codes' = CodesAfter(op, t)  BY DEF Commit
    <2> HIDE DEF op, t
    <2>4. Cardinality(R) >= 2  BY <2>1, <2>2 DEF Allowed, R
    <2>5. R \ {t} # {}  BY <2>1, <2>4, TwoLeaveOne
    <2>6. R \ {t} \subseteq Recoverable(users', codes')  BY <2>1, <2>3, OthersKept
    <2> QED  BY <2>5, <2>6 DEF t
<1> QED  BY <1>1, InductiveInvariant, PTL DEF Spec, RevocationLeavesAnother
=============================================================================
