----------------------------- MODULE AdminGuard -----------------------------
(***************************************************************************)
(* The final-administrator guard.  Administrator routes change roles,      *)
(* status, MFA and accounts in transactions that take an advisory lock,    *)
(* lock the administrators' rows and count, before they commit, how many   *)
(* administrators could still recover the system.                          *)
(*                                                                         *)
(* The rest of the control plane writes the same rows without the guard:   *)
(* a login saves the whole users table it read, a recovery code is used,   *)
(* MFA is enrolled, an e-mail is verified, an account is created.          *)
(***************************************************************************)
EXTENDS Naturals, FiniteSets

CONSTANTS
    User,       \* account ids
    Request,    \* administrator requests in flight at the same time
    Login,      \* logins and sign-ups in flight at the same time
    Operation,  \* the guarded operations in use
    CodeCount,  \* recovery codes that an enrolment hands out
    Null        \* nothing read yet

Role == {"USER", "ADMIN"}
Status == {"ACTIVE", "DISABLED", "LOCKED", "PENDING_VERIFICATION"}

(* PATCH sends a role and a status, either of which may be the present one. *)
GuardedOperation ==
    ({"patch"} \X Role \X Status)
        \cup {<<"delete">>, <<"unlock">>, <<"reset_mfa">>, <<"revoke_sessions">>}

ASSUME UserAssumption == IsFiniteSet(User)
ASSUME OperationAssumption == Operation \subseteq GuardedOperation
ASSUME CodeCountAssumption == CodeCount \in Nat \ {0}

VARIABLES
    users,      \* the users table: a function on the ids in it
    codes,      \* unused recovery codes of each account
    created,    \* ids ever inserted: random, never drawn twice
    request,    \* the administrator requests
    login,      \* the users table each login or sign-up is going to save
    bypassed    \* history: an unguarded write has taken a recoverable administrator away

vars == <<users, codes, created, request, login, bypassed>>

Row == [role : Role, status : Status, verified : BOOLEAN, enrolled : BOOLEAN, locked : BOOLEAN]

(* recoverableAdministratorCount counts these; locked means locked_until > now(). *)
Recoverable(us, cs) ==
    {u \in DOMAIN us : /\ us[u].role = "ADMIN" /\ us[u].status = "ACTIVE"
                       /\ us[u].verified /\ us[u].enrolled /\ ~us[u].locked
                       /\ cs[u] > 0}

NewAccount(role, verified) ==
    [role |-> role, status |-> "ACTIVE", verified |-> verified, enrolled |-> FALSE, locked |-> FALSE]

Administrators == {u \in DOMAIN users : users[u].role = "ADMIN"}

NoRequest == [phase |-> "idle", op |-> <<>>, target |-> Null, rows |-> {}]

InTransaction(r) == request[r].phase \in {"locked", "decided"}

(* Some transaction holds the row of u. *)
RowLocked(u) == \E r \in Request : InTransaction(r) /\ u \in request[r].rows

(* An id of no row has neither codes nor a record. *)
Init ==
    /\ users \in UNION {[U -> {NewAccount("USER", TRUE),
                               [NewAccount("ADMIN", TRUE) EXCEPT !.enrolled = TRUE]}] : U \in SUBSET User}
    /\ codes = [u \in User |-> IF u \in Administrators THEN CodeCount ELSE 0]
    /\ created = DOMAIN users
    /\ Recoverable(users, codes) # {}
    /\ request = [r \in Request |-> NoRequest]
    /\ login = [l \in Login |-> Null]
    /\ bypassed = FALSE

(* Whether an unguarded write to the given tables takes a recoverable administrator away. *)
Bypass(us, cs) == bypassed' = (bypassed \/ ~(Recoverable(users, codes) \subseteq Recoverable(us, cs)))

-----------------------------------------------------------------------------
(* Guarded operations. *)

(* requireRecentAdmin: checked once, before the transaction. *)
Authorise(r) ==
    /\ request[r].phase = "idle"
    /\ \E a \in Administrators : users[a].status = "ACTIVE"
    /\ request' = [request EXCEPT ![r].phase = "authorised"]
    /\ UNCHANGED <<users, codes, created, login, bypassed>>

LockRows(r, op, u, ids) ==
    /\ request[r].phase = "authorised"
    /\ u \in DOMAIN users
    /\ \A x \in ids : ~RowLocked(x)
    /\ request' = [request EXCEPT ![r] = [phase |-> "locked", op |-> op, target |-> u, rows |-> ids]]
    /\ UNCHANGED <<users, codes, created, login, bypassed>>

(* Mutant: a route that locks its target and forgets lockAdministratorMembership. *)
LockTargetOnly(r, op, u) == LockRows(r, op, u, {u})

(* The advisory lock is free; the administrators' rows and the target's are locked. *)
LockMembership(r, op, u) ==
    /\ \A q \in Request : ~InTransaction(q)
    /\ LockRows(r, op, u, Administrators \cup {u})

(* What the statements of an operation do to its target's row, and to its codes. *)
Changed(row, op) ==
    CASE op[1] = "patch" -> [row EXCEPT !.role = op[2], !.status = op[3]]
      [] op[1] = "unlock" -> [row EXCEPT !.status = "ACTIVE", !.locked = FALSE]
      [] op[1] = "reset_mfa" -> [row EXCEPT !.enrolled = FALSE]
      [] OTHER -> row

UsersAfter(op, u) ==
    IF op[1] = "delete" THEN [x \in DOMAIN users \ {u} |-> users[x]]
    ELSE [x \in DOMAIN users |-> IF x = u THEN Changed(users[u], op) ELSE users[x]]

CodesAfter(op, u) == IF op[1] \in {"delete", "reset_mfa"} THEN [codes EXCEPT ![u] = 0] ELSE codes

(* Mutant: PATCH looks at the role it has written, not at the one before. *)
CountedByRoleWritten(op, u) ==
    IF op[1] = "patch" THEN op[2] = "ADMIN" ELSE users[u].role = "ADMIN"

(* The count is taken when the target is, or becomes, an administrator. *)
Counted(op, u) == users[u].role = "ADMIN" \/ (op[1] = "patch" /\ op[2] = "ADMIN")

(* Mutant: revoke-sessions asks for one recoverable administrator like the others. *)
AllowedWithOne(op, u) ==
    Counted(op, u) => Recoverable(UsersAfter(op, u), CodesAfter(op, u)) # {}

(* Revoking an administrator's sessions asks for two, the others for one. *)
Allowed(op, u) ==
    Counted(op, u) =>
        IF op[1] = "revoke_sessions" THEN Cardinality(Recoverable(users, codes)) >= 2
        ELSE Recoverable(UsersAfter(op, u), CodesAfter(op, u)) # {}

(* The changes are made, and counted, inside the transaction. *)
Decide(r) ==
    /\ request[r].phase = "locked"
    /\ Allowed(request[r].op, request[r].target)
    /\ request' = [request EXCEPT ![r].phase = "decided"]
    /\ UNCHANGED <<users, codes, created, login, bypassed>>

Commit(r) ==
    /\ request[r].phase = "decided"
    /\ users' = UsersAfter(request[r].op, request[r].target)
    /\ codes' = CodesAfter(request[r].op, request[r].target)
    /\ request' = [request EXCEPT ![r] = NoRequest]
    /\ UNCHANGED <<created, login, bypassed>>

(* FINAL_ADMINISTRATOR_REQUIRED, an unknown user, a database error, the end of the process. *)
RollBack(r) ==
    /\ request[r].phase # "idle"
    /\ request' = [request EXCEPT ![r] = NoRequest]
    /\ UNCHANGED <<users, codes, created, login, bypassed>>

-----------------------------------------------------------------------------
(* Unguarded writers of the same rows. *)

(* A login reads the whole table.  Success changes nothing counted here; the fifth failure
   locks the account, whatever its status was. *)
LoginRead(l, u) ==
    /\ login[l] = Null
    /\ u \in DOMAIN users
    /\ \/ login' = [login EXCEPT ![l] = users]
       \/ login' = [login EXCEPT ![l] = [users EXCEPT ![u].status = "LOCKED", ![u].locked = TRUE]]
    /\ UNCHANGED <<users, codes, created, request, bypassed>>

(* createUser appends an unverified account to the table it read. *)
SignUpRead(l, u) ==
    /\ login[l] = Null
    /\ u \notin created
    /\ created' = created \cup {u}
    /\ login' = [login EXCEPT ![l] = [x \in DOMAIN users \cup {u} |->
                     IF x = u THEN NewAccount("USER", FALSE) ELSE users[x]]]
    /\ UNCHANGED <<users, codes, request, bypassed>>

(* saveUsers upserts every row of the list, and waits for the rows that are locked. *)
LoginSave(l) ==
    /\ login[l] # Null
    /\ \A u \in DOMAIN login[l] : ~RowLocked(u)
    /\ users' = [u \in DOMAIN users \cup DOMAIN login[l] |->
                     IF u \in DOMAIN login[l] THEN login[l][u] ELSE users[u]]
    /\ Bypass(users', codes)
    /\ login' = [login EXCEPT ![l] = Null]
    /\ UNCHANGED <<codes, created, request>>

(* A signed-in administrator's recovery code; a code being deleted is waited for. *)
ConsumeCode(u) ==
    /\ u \in Administrators
    /\ users[u].status = "ACTIVE"
    /\ codes[u] > 0
    /\ ~\E r \in Request : /\ request[r].phase = "decided" /\ request[r].target = u
                           /\ request[r].op[1] \in {"delete", "reset_mfa"}
    /\ codes' = [codes EXCEPT ![u] = @ - 1]
    /\ Bypass(users, codes')
    /\ UNCHANGED <<users, created, request, login>>

(* confirmSetup, for the administrator signed in: new codes, and the enrolment. *)
ConfirmSetup(u) ==
    /\ u \in Administrators
    /\ users[u].status = "ACTIVE"
    /\ ~RowLocked(u)
    /\ users' = [users EXCEPT ![u].enrolled = TRUE]
    /\ codes' = [codes EXCEPT ![u] = CodeCount]
    /\ UNCHANGED <<created, request, login, bypassed>>

VerifyEmail(u) ==
    /\ u \in DOMAIN users
    /\ ~RowLocked(u)
    /\ ~users[u].verified
    /\ users' = [users EXCEPT ![u].verified = TRUE,
                              ![u].status = IF @ = "PENDING_VERIFICATION" THEN "ACTIVE" ELSE @]
    /\ UNCHANGED <<codes, created, request, login, bypassed>>

(* An invitation is redeemed, or scripts/admin-create.mjs is run. *)
CreateAccount(u, role) ==
    /\ u \notin created
    /\ users' = [x \in DOMAIN users \cup {u} |-> IF x = u THEN NewAccount(role, TRUE) ELSE users[x]]
    /\ created' = created \cup {u}
    /\ UNCHANGED <<codes, request, login, bypassed>>

(* A password reset clears the lock and leaves the status. *)
ResetPassword(u) ==
    /\ u \in DOMAIN users
    /\ ~RowLocked(u)
    /\ users' = [users EXCEPT ![u].locked = FALSE]
    /\ UNCHANGED <<codes, created, request, login, bypassed>>

(* locked_until passes, in every copy of the row there is. *)
LockPeriodEnds(u) ==
    /\ u \in DOMAIN users
    /\ users[u].locked
    /\ users' = [users EXCEPT ![u].locked = FALSE]
    /\ login' = [l \in Login |-> IF login[l] # Null /\ u \in DOMAIN login[l]
                                   THEN [login[l] EXCEPT ![u].locked = FALSE] ELSE login[l]]
    /\ UNCHANGED <<codes, created, request, bypassed>>

GuardedStep(r) ==
    \/ Authorise(r)
    \/ \E op \in Operation, u \in User : LockMembership(r, op, u)
    \/ Decide(r)
    \/ Commit(r)
    \/ RollBack(r)

LoginStep(l) ==
    \/ \E u \in User : LoginRead(l, u) \/ SignUpRead(l, u)
    \/ LoginSave(l)

AccountStep(u) ==
    \/ ConsumeCode(u)
    \/ ConfirmSetup(u)
    \/ VerifyEmail(u)
    \/ \E role \in Role : CreateAccount(u, role)
    \/ ResetPassword(u)
    \/ LockPeriodEnds(u)

Next ==
    \/ \E r \in Request : GuardedStep(r)
    \/ \E l \in Login : LoginStep(l)
    \/ \E u \in User : AccountStep(u)

Spec == Init /\ [][Next]_vars

-----------------------------------------------------------------------------
(* Properties. *)

(* Types; only created ids have a row, only rows have codes, and a request that is in its
   transaction has locked its target. *)
TypeOK ==
    /\ DOMAIN users \subseteq created /\ created \subseteq User
    /\ users \in [DOMAIN users -> Row]
    /\ codes \in [User -> 0 .. CodeCount]
    /\ \A u \in User \ DOMAIN users : codes[u] = 0
    /\ DOMAIN request = Request
    /\ \A r \in Request :
          \/ request[r] \in {NoRequest, [NoRequest EXCEPT !.phase = "authorised"]}
          \/ /\ InTransaction(r)
             /\ request[r] = [phase |-> request[r].phase, op |-> request[r].op,
                              target |-> request[r].target, rows |-> request[r].rows]
             /\ request[r].op \in Operation
             /\ request[r].target \in DOMAIN users \cap request[r].rows
             /\ request[r].rows \subseteq User
    /\ DOMAIN login = Login
    /\ \A l \in Login : login[l] # Null =>
          DOMAIN login[l] \subseteq created /\ login[l] \in [DOMAIN login[l] -> Row]
    /\ bypassed \in BOOLEAN

(* The final-administrator invariant: as long as the guarded operations alone take
   administrators away, one that can recover the system is left, whatever they are and
   however they interleave with each other and with everything else. *)
GuardHolds == ~bypassed => Recoverable(users, codes) # {}

(* The count is not stale when the transaction commits: what was allowed on the rows
   locked and counted is still allowed on the rows there are. *)
DecisionStands ==
    \A r \in Request : request[r].phase = "decided" /\ ~bypassed =>
        Allowed(request[r].op, request[r].target)

(* Revoking the sessions of an administrator signs out one of several: another recoverable
   administrator is left to act. *)
RevocationLeavesAnother ==
    [][\A r \in Request :
           Commit(r) /\ ~bypassed /\ request[r].op[1] = "revoke_sessions" /\ request[r].target \in Administrators
               => Recoverable(users', codes') \ {request[r].target} # {}]_vars
=============================================================================
