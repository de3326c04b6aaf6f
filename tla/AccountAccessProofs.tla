------------------------ MODULE AccountAccessProofs ------------------------
(***************************************************************************)
(* Proofs about AccountAccess.  The invariants of the module are not       *)
(* inductive: they say what holds of the tables, and a sign-in, sign-up or *)
(* sign-out carries copies of the tables that it will save.  The inductive *)
(* invariant IInv says in addition what a copy in flight can hold, and     *)
(* ties the versions of a row and of an access token to the epochs they    *)
(* stand for.                                                              *)
(***************************************************************************)
EXTENDS AccountAccess, FiniteSetTheorems, TLAPS

\* What a sign-in or sign-up has read.
AttemptsConsistent ==
    \A l \in Login : login[l] # Null =>
        /\ \A u \in User : login[l].read[u].password <= chosen[u]
        /\ login[l].user # Null =>
              /\ login[l].ok => login[l].read[login[l].user].status = "ACTIVE"
              /\ login[l].epoch <= epoch[login[l].user]
              /\ login[l].was <= chosen[login[l].user]
              /\ ~lost => /\ login[l].read[login[l].user].security = login[l].epoch + 1
                          /\ login[l].read[login[l].user].password = login[l].was

\* What a save of sessions in flight will write and issue.
SavesConsistent ==
    \A l \in Login : saving[l] # Null =>
        /\ \A u \in User : saving[l].was[u] <= chosen[u]
        /\ \A a \in saving[l].issued :
              /\ a.epoch <= epoch[a.user]
              /\ ~lost => a.security = a.epoch + 1
              /\ \E s \in saving[l].opened : s.user = a.user /\ s.password = a.password
        /\ ~lost => \A s \in Written(saving[l]) :
              s.user \notin late /\ saving[l].was[s.user] = chosen[s.user]
                  => s.password = chosen[s.user]

\* A security version counts the epochs of its account.
VersionsCountEpochs ==
    /\ \A a \in access : a.epoch <= epoch[a.user]
    /\ ~lost => /\ \A u \in User : users[u].security = epoch[u] + 1
                /\ \A a \in access : a.security = a.epoch + 1

\* What goes back to an older password is void by its epoch or of a late account.
PasswordsCurrent ==
    ~lost =>
        /\ \A u \in User : users[u].password = chosen[u]
        /\ \A u \in User \ late :
              /\ \A s \in sessions : s.user = u => s.password = chosen[u]
              /\ \A a \in access : a.user = u /\ a.epoch = epoch[u] => a.password = chosen[u]

\* The statuses a disabled account can have.
DisabledStatus == ~lost => \A u \in disabled : users[u].status \in {"DISABLED", "LOCKED"}

\* The count of failures keeps up with the failures, and the lock stays on.
FailuresCounted ==
    ~lost => /\ \A u \in User : tries[u] <= users[u].failed
             /\ \A u \in barred : users[u].status = "LOCKED"

\* A request in flight has retired every usable token of its account and kind.
RequestsAlone ==
    \A u \in User, k \in Kind : <<u, k>> \notin crossed =>
        /\ \A t1, t2 \in Usable(u, k) : t1 = t2
        /\ \A m \in Mailing : mailing[m] = [user |-> u, kind |-> k] =>
              /\ Usable(u, k) = {}
              /\ \A n \in Mailing : mailing[n] = [user |-> u, kind |-> k] => n = m

IInv ==
    /\ TypeOK
    /\ AttemptsConsistent
    /\ SavesConsistent
    /\ VersionsCountEpochs
    /\ PasswordsCurrent
    /\ DisabledStatus
    /\ FailuresCounted
    /\ RequestsAlone

----------------------------------------------------------------------------
(* Rows and tables. *)

(* What a sign-in and a change of status make of a row is a row, and what   *)
(* they leave of it (login/route.ts:13, 14; store.ts:33).                   *)
LEMMA RowFacts ==
    ASSUME NEW row \in Row
    PROVE  /\ Cleared(row) \in Row
           /\ Cleared(row).failed = 0
           /\ Cleared(row).security = row.security
           /\ Cleared(row).password = row.password
           /\ Cleared(row).status = row.status
           /\ FailureCounted(row) \in Row
           /\ FailureCounted(row).failed = OneMore(row.failed)
           /\ FailureCounted(row).security = row.security
           /\ FailureCounted(row).password = row.password
           /\ FailureCounted(row).status = IF OneMore(row.failed) = FailureLimit
                                           THEN "LOCKED" ELSE row.status
           /\ Verified(row) \in Row
<1>1. OneMore(row.failed) \in 0..FailureLimit
  BY LimitAssumption DEF OneMore, Row
<1>2. Cleared(row) \in Row
  <2>1. 0 \in 0..FailureLimit
    BY LimitAssumption
  <2> QED
    BY <2>1 DEF Cleared, Row
<1>3. FailureCounted(row) \in Row
  BY <1>1 DEF FailureCounted, Row, Status
<1>4. /\ FailureCounted(row).failed = OneMore(row.failed)
      /\ FailureCounted(row).security = row.security
      /\ FailureCounted(row).password = row.password
      /\ FailureCounted(row).status = IF OneMore(row.failed) = FailureLimit
                                      THEN "LOCKED" ELSE row.status
  BY <1>1 DEF FailureCounted, Row
<1>5. Verified(row) \in Row
  BY DEF Verified, Row, Status
<1>6. /\ Cleared(row).failed = 0
      /\ Cleared(row).security = row.security
      /\ Cleared(row).password = row.password
      /\ Cleared(row).status = row.status
  BY DEF Cleared, Row
<1> QED
  BY <1>2, <1>3, <1>4, <1>5, <1>6

(* A reset sets the password, clears the failures and keeps the status      *)
(* (password/reset/route.ts:7).                                             *)
LEMMA PasswordRow ==
    ASSUME NEW row \in Row, NEW p \in 0..MaxEpoch
    PROVE  /\ WithPassword(row, p) \in Row
           /\ WithPassword(row, p).password = p
           /\ WithPassword(row, p).security = row.security + 1
           /\ WithPassword(row, p).status = row.status
           /\ WithPassword(row, p).failed = 0
<1> DEFINE cleared == Cleared(row)
<1>1. /\ cleared \in Row /\ cleared.failed = 0
      /\ cleared.security = row.security /\ cleared.status = row.status
  BY RowFacts
<1>2. WithPassword(row, p) = [cleared EXCEPT !.password = p, !.security = cleared.security + 1]
  BY DEF WithPassword
<1> HIDE DEF cleared
<1>3. cleared.security + 1 \in Nat
  BY <1>1 DEF Row
<1>4. WithPassword(row, p) \in Row
  BY <1>1, <1>2, <1>3 DEF Row
<1> QED
  BY <1>1, <1>2, <1>4 DEF Row

(* What unlocking, resetting MFA and verifying the address make of a row    *)
(* (unlock/route.ts:7, reset-mfa/route.ts:7, email/verify/route.ts:6).      *)
LEMMA OtherRows ==
    ASSUME NEW row \in Row
    PROVE  /\ Unlocked(row) \in Row
           /\ Unlocked(row).password = row.password
           /\ Unlocked(row).security = row.security
           /\ Unlocked(row).status = "ACTIVE"
           /\ Unlocked(row).failed = 0
           /\ WithoutMfa(row) \in Row
           /\ WithoutMfa(row).password = row.password
           /\ WithoutMfa(row).security = row.security + 1
           /\ WithoutMfa(row).status = row.status
           /\ WithoutMfa(row).failed = row.failed
           /\ Verified(row) \in Row
           /\ Verified(row).password = row.password
           /\ Verified(row).security = row.security
           /\ Verified(row).failed = row.failed
           /\ Verified(row).status = IF row.status = "PENDING_VERIFICATION"
                                     THEN "ACTIVE" ELSE row.status
<1> DEFINE cleared == Cleared(row)
<1>1. /\ cleared \in Row /\ cleared.failed = 0
      /\ cleared.security = row.security /\ cleared.password = row.password
  BY RowFacts
<1>2. Unlocked(row) = [cleared EXCEPT !.status = "ACTIVE"]
  BY DEF Unlocked
<1> HIDE DEF cleared
<1>3. /\ Unlocked(row) \in Row
      /\ Unlocked(row).password = row.password
      /\ Unlocked(row).security = row.security
      /\ Unlocked(row).status = "ACTIVE"
      /\ Unlocked(row).failed = 0
  BY <1>1, <1>2 DEF Row, Status
<1>4. /\ WithoutMfa(row) \in Row
      /\ WithoutMfa(row).password = row.password
      /\ WithoutMfa(row).security = row.security + 1
      /\ WithoutMfa(row).status = row.status
      /\ WithoutMfa(row).failed = row.failed
  BY DEF WithoutMfa, Row
<1>5. /\ Verified(row).password = row.password
      /\ Verified(row).security = row.security
      /\ Verified(row).failed = row.failed
      /\ Verified(row).status = IF row.status = "PENDING_VERIFICATION"
                                THEN "ACTIVE" ELSE row.status
  BY DEF Verified, Row
<1> QED
  BY <1>3, <1>4, <1>5, RowFacts

(* A PATCH sets the status, and moves the security version whenever it      *)
(* changes the status or the role.                                          *)
LEMMA PatchedRow ==
    ASSUME NEW row \in Row, NEW status \in Status, NEW role \in BOOLEAN
    PROVE  /\ Patched(row, status, role) \in Row
           /\ Patched(row, status, role).password = row.password
           /\ status # row.status \/ role
                => Patched(row, status, role).security = row.security + 1
           /\ Patched(row, status, role).status = status
           /\ Patched(row, status, role).failed = row.failed
<1>1. /\ VoidingVersion(row, status, role) \in Nat
      /\ status # row.status \/ role
           => VoidingVersion(row, status, role) = row.security + 1
  BY DEF VoidingVersion, Row
<1> QED
  BY <1>1 DEF Patched, Row

(* The initial state satisfies the inductive invariant.                     *)
LEMMA InitIInv == Init => IInv
<1> SUFFICES ASSUME Init PROVE IInv
  OBVIOUS
<1>1. NewRow \in Row
  BY LimitAssumption, BoundAssumption DEF NewRow, Row, Status
<1>2. TypeOK
  <2>1. users \in [User -> Row]
    BY <1>1 DEF Init
  <2>2. /\ 0 \in 0..MaxEpoch /\ 0 \in 0..FailureLimit
        /\ FALSE \in BOOLEAN
    BY LimitAssumption, BoundAssumption
  <2>3. \A u \in User : users[u].password <= chosen[u] /\ chosen[u] <= epoch[u]
    BY DEF Init, NewRow
  <2> QED
    BY <2>1, <2>2, <2>3 DEF Init, TypeOK
<1>3. RequestsAlone
  BY NullAssumption DEF Init, RequestsAlone, Usable, Owner
<1>4. /\ AttemptsConsistent /\ SavesConsistent /\ VersionsCountEpochs
      /\ PasswordsCurrent /\ DisabledStatus
  BY DEF Init, AttemptsConsistent, SavesConsistent, VersionsCountEpochs, PasswordsCurrent,
         DisabledStatus, NewRow
<1>5. FailuresCounted
  BY LimitAssumption DEF Init, FailuresCounted, NewRow
<1> QED
  BY <1>2, <1>3, <1>4, <1>5 DEF IInv

----------------------------------------------------------------------------
(* The steps preserve the types. *)

(* What a sign-in or sign-up saves: the table it read, changed in the       *)
(* failures and the status of its own row at most (login/route.ts:13, 14).  *)
LEMMA SavedTable ==
    ASSUME IInv, NEW l \in Login, login[l] # Null
    PROVE  /\ login[l] \in Attempt
           /\ Table(login[l]) \in [User -> Row]
           /\ \A u \in User :
                 /\ Table(login[l])[u].password = login[l].read[u].password
                 /\ Table(login[l])[u].security = login[l].read[u].security
                 /\ u # login[l].user => Table(login[l])[u] = login[l].read[u]
                 /\ u = login[l].user =>
                       Table(login[l])[u] = IF login[l].ok THEN Cleared(login[l].read[u])
                                                           ELSE FailureCounted(login[l].read[u])
<1>1. login[l] \in Attempt
  BY DEF IInv, TypeOK
<1>2. ASSUME NEW u \in User
      PROVE  /\ login[l].read[u] \in Row
             /\ Cleared(login[l].read[u]) \in Row
             /\ FailureCounted(login[l].read[u]) \in Row
             /\ Cleared(login[l].read[u]).password = login[l].read[u].password
             /\ FailureCounted(login[l].read[u]).password = login[l].read[u].password
             /\ Cleared(login[l].read[u]).security = login[l].read[u].security
             /\ FailureCounted(login[l].read[u]).security = login[l].read[u].security
  <2>1. login[l].read[u] \in Row
    BY <1>1 DEF Attempt
  <2> QED
    BY <2>1, RowFacts
<1>3. CASE login[l].user = Null
  <2>1. Table(login[l]) = login[l].read /\ Null \notin User
    BY <1>3, NullAssumption DEF Table
  <2> QED
    BY <1>1, <1>3, <2>1 DEF Attempt
<1>4. CASE login[l].user # Null
  <2>1. /\ login[l].user \in User /\ login[l].read \in [User -> Row]
        /\ Table(login[l]) = [login[l].read EXCEPT ![login[l].user] =
                                 IF login[l].ok THEN Cleared(login[l].read[login[l].user])
                                 ELSE FailureCounted(login[l].read[login[l].user])]
    BY <1>1, <1>4 DEF Attempt, Table
  <2>2. Table(login[l]) \in [User -> Row]
    BY <1>2, <2>1
  <2>3. \A u \in User :
           /\ u # login[l].user => Table(login[l])[u] = login[l].read[u]
           /\ u = login[l].user =>
                 Table(login[l])[u] = IF login[l].ok THEN Cleared(login[l].read[u])
                                                     ELSE FailureCounted(login[l].read[u])
    BY <2>1
  <2> QED
    BY <1>1, <1>2, <2>2, <2>3
<1> QED
  BY <1>3, <1>4

(* What a sign-in reads before it opens its session (service.ts:7).         *)
LEMMA SessionRead ==
    ASSUME IInv, NEW l \in Login, ReadForSession(l)
    PROVE  \E save \in SessionSave :
              /\ saving' = [saving EXCEPT ![l] = save]
              /\ save.kept = sessions
              /\ \A u \in User : save.was[u] = IF u = login[l].user THEN login[l].was
                                                                    ELSE chosen[u]
              /\ login[l].user = Null => save.opened = {} /\ save.issued = {}
              /\ login[l].user # Null =>
                    LET u == login[l].user
                    IN  /\ save.opened = {[user |-> u, password |-> login[l].read[u].password]}
                        /\ save.issued = {[user     |-> u,
                                           security |-> login[l].read[u].security,
                                           password |-> login[l].read[u].password,
                                           epoch    |-> login[l].epoch]}
<1>0. TypeOK
  BY DEF IInv
<1>1. login[l] # Null
  BY DEF ReadForSession
<1>2. login[l] \in Attempt
  BY <1>1, SavedTable
<1>3. CASE login[l].user = Null
  <2> DEFINE save == [opened |-> {}, issued |-> {}, gone |-> {}, kept |-> sessions, was |-> chosen]
  <2>1. saving' = [saving EXCEPT ![l] = save]
    BY <1>3 DEF ReadForSession
  <2>2. save \in SessionSave
    BY <1>0 DEF TypeOK, SessionSave
  <2>3. \A u \in User : u # login[l].user
    BY <1>3, NullAssumption
  <2> QED
    BY <1>3, <2>1, <2>2, <2>3
<1>4. CASE login[l].user # Null
  <2> DEFINE u == login[l].user
             row == Table(login[l])[u]
             old == login[l].read[u]
  <2>1. u \in User /\ old \in Row /\ login[l].epoch \in 0..MaxEpoch /\ login[l].was \in 0..MaxEpoch
    BY <1>2, <1>4 DEF Attempt
  <2>2. row.password = old.password /\ row.security = old.security
    BY <1>1, <2>1, SavedTable
  <2> DEFINE save == [opened |-> {[user |-> u, password |-> old.password]},
                      issued |-> {[user |-> u, security |-> old.security,
                                   password |-> old.password, epoch |-> login[l].epoch]},
                      gone |-> {}, kept |-> sessions,
                      was |-> [chosen EXCEPT ![u] = login[l].was]]
  <2>3. saving' = [saving EXCEPT ![l] =
           [opened |-> {[user |-> u, password |-> row.password]},
            issued |-> {AccessFor(u, row, login[l].epoch, row.password)},
            gone |-> {}, kept |-> sessions, was |-> [chosen EXCEPT ![u] = login[l].was]]]
    BY <1>4 DEF ReadForSession
  <2>4. saving' = [saving EXCEPT ![l] = save]
    BY <2>2, <2>3 DEF AccessFor
  <2>5. /\ [user |-> u, password |-> old.password] \in Session
        /\ [user |-> u, security |-> old.security, password |-> old.password,
            epoch |-> login[l].epoch] \in Access
        /\ [chosen EXCEPT ![u] = login[l].was] \in [User -> 0..MaxEpoch]
        /\ sessions \subseteq Session
    BY <1>0, <2>1 DEF TypeOK, Session, Access, Row
  <2>6. save \in SessionSave
    BY <2>5 DEF SessionSave
  <2>7. \A v \in User : save.was[v] = IF v = u THEN login[l].was ELSE chosen[v]
    BY <1>0, <2>1 DEF TypeOK
  <2> QED
    BY <1>4, <2>4, <2>6, <2>7
<1> QED
  BY <1>3, <1>4

(* Every step keeps the types.                                              *)
LEMMA TypeStep == ASSUME IInv, [Next]_vars PROVE TypeOK'
<1> USE LimitAssumption, BoundAssumption
<1>0. TypeOK
  BY DEF IInv
<1>1. ASSUME NEW l \in Login, NEW u \in User, ReadForLogin(l, u) PROVE TypeOK'
  <2>1. PICK right \in BOOLEAN, running \in BOOLEAN :
           login' = [login EXCEPT ![l] =
              [user |-> u, ok |-> Admits(users[u], right, running), saved |-> FALSE,
               read |-> users, epoch |-> epoch[u], was |-> chosen[u]]]
    BY <1>1 DEF ReadForLogin
  <2> DEFINE ok == Admits(users[u], right, running)
             new == [user |-> u, ok |-> ok, saved |-> FALSE,
                     read |-> users, epoch |-> epoch[u], was |-> chosen[u]]
  <2>2. ok \in BOOLEAN
    BY DEF Admits
  <2>3. new \in Attempt /\ ~new.saved
    BY <1>0, <2>2 DEF TypeOK, Attempt
  <2>4. login' = [login EXCEPT ![l] = new]
    BY <2>1
  <2> HIDE DEF new
  <2> QED
    BY <1>0, <1>1, <2>3, <2>4 DEF TypeOK, ReadForLogin, history
<1>2. ASSUME NEW l \in Login, ReadForSignUp(l) PROVE TypeOK'
  <2> DEFINE new == [user |-> Null, ok |-> TRUE, saved |-> FALSE, read |-> users,
                     epoch |-> 0, was |-> 0]
  <2>1. new \in Attempt /\ ~new.saved
    BY <1>0 DEF TypeOK, Attempt
  <2>2. login' = [login EXCEPT ![l] = new]
    BY <1>2 DEF ReadForSignUp
  <2> HIDE DEF new
  <2> QED
    BY <1>0, <1>2, <2>1, <2>2 DEF TypeOK, ReadForSignUp, history
<1>3. ASSUME NEW l \in Login, SaveUsers(l) PROVE TypeOK'
  <2>1. /\ login[l] \in Attempt
        /\ Table(login[l]) \in [User -> Row]
        /\ \A u \in User : Table(login[l])[u].password <= chosen[u]
    BY <1>3, SavedTable DEF IInv, AttemptsConsistent, SaveUsers
  <2>2. tries' \in [User -> 0..FailureLimit]
    BY <1>0, <1>3, <2>1 DEF TypeOK, SaveUsers, Attempt, OneMore
  <2>3. /\ login' \in [Login -> Attempt \cup {Null}]
        /\ \A m \in Login : login'[m] # Null /\ login'[m].saved => login'[m].ok
    <3>1. AfterSave(login[l]) \in Attempt \cup {Null}
      BY <2>1 DEF AfterSave, Attempt
    <3>2. AfterSave(login[l]) # Null => AfterSave(login[l]).ok
      BY <2>1 DEF AfterSave, Attempt
    <3> QED
      BY <1>0, <1>3, <3>1, <3>2 DEF TypeOK, SaveUsers
  <2>4. users' = Table(login[l]) /\ lost' \in BOOLEAN
    BY <1>0, <1>3 DEF TypeOK, SaveUsers
  <2> QED
    BY <1>0, <1>3, <2>1, <2>2, <2>3, <2>4 DEF TypeOK, SaveUsers
<1>4. ASSUME NEW l \in Login,
             ReadForSession(l) \/ ReadForSignOut(l) \/ SaveSessions(l) \/ Aborts(l)
      PROVE  TypeOK'
  <2>1. ASSUME saving' \in [Login -> SessionSave \cup {Null}], sessions' \subseteq Session,
               access' \subseteq Access, late' \subseteq User,
               login' = login \/ login' = [login EXCEPT ![l] = Null],
               UNCHANGED <<users, mailing, tokens, epoch, chosen, tries, disabled, barred, lost,
                           crossed>>
        PROVE  TypeOK'
    BY <1>0, <2>1 DEF TypeOK
  <2>2. CASE ReadForSession(l)
    <3>1. PICK save \in SessionSave : saving' = [saving EXCEPT ![l] = save]
      BY <2>2, SessionRead
    <3>2. saving' \in [Login -> SessionSave \cup {Null}]
      BY <1>0, <3>1 DEF TypeOK
    <3>3. /\ login' = [login EXCEPT ![l] = Null]
          /\ UNCHANGED <<users, mailing, tokens, sessions, access, epoch, chosen, tries, disabled,
                         barred, lost, late, crossed>>
      BY <2>2 DEF ReadForSession, history
    <3>4. sessions' \subseteq Session /\ access' \subseteq Access /\ late' \subseteq User
      BY <1>0, <3>3 DEF TypeOK
    <3> QED
      BY <2>1, <3>2, <3>3, <3>4
  <2>3. CASE ReadForSignOut(l)
    <3>1. PICK gone \in {{}} \cup {{s} : s \in sessions}
                          \cup {{s \in sessions : s.user = u} : u \in User} :
             saving' = [saving EXCEPT ![l] = [opened |-> {}, issued |-> {}, gone |-> gone,
                                              kept |-> sessions \ gone, was |-> chosen]]
      BY <2>3 DEF ReadForSignOut
    <3>2. gone \subseteq sessions
      BY <3>1
    <3>3. [opened |-> {}, issued |-> {}, gone |-> gone, kept |-> sessions \ gone, was |-> chosen]
             \in SessionSave
      BY <1>0, <3>2 DEF TypeOK, SessionSave
    <3> QED
      BY <1>0, <2>1, <2>3, <3>1, <3>3 DEF TypeOK, ReadForSignOut, history
  <2>4. CASE SaveSessions(l)
    <3>1. saving[l] \in SessionSave
      BY <1>0, <2>4 DEF TypeOK, SaveSessions
    <3>2. /\ Written(saving[l]) \subseteq Session /\ saving[l].issued \subseteq Access
          /\ \A s \in Session : s.user \in User
      BY <3>1 DEF SessionSave, Written, Session
    <3> QED
      BY <1>0, <2>1, <2>4, <3>2 DEF TypeOK, SaveSessions, IssueAccess
  <2>5. CASE Aborts(l)
    BY <1>0, <2>1, <2>5 DEF TypeOK, Aborts, history
  <2> QED
    BY <1>4, <2>2, <2>3, <2>4, <2>5
<1>5. ASSUME NEW m \in Mailing, NEW u \in User, NEW k \in Kind, RequestToken(m, u, k) PROVE TypeOK'
  BY <1>0, <1>5 DEF TypeOK, RequestToken, RetireOlder, Retired, Owner
<1>6. ASSUME NEW m \in Mailing, InsertToken(m) \/ MailingAborts(m) PROVE TypeOK'
  BY <1>0, <1>6 DEF TypeOK, InsertToken, MailingAborts, history
<1>7. ASSUME NEW t \in Token, TokenExpires(t) PROVE TypeOK'
  BY <1>0, <1>7 DEF TypeOK, TokenExpires, Retired, history
<1>8. ASSUME NEW t \in Token, ResetPassword(t) PROVE TypeOK'
  <2> DEFINE u == tokens[t].user
  <2>1. u \in User
    BY <1>0, <1>8 DEF TypeOK, ResetPassword, Owner
  <2>2. epoch[u] + 1 \in 0..MaxEpoch
    BY <1>0, <1>8, <2>1 DEF TypeOK, ResetPassword
  <2>3. /\ WithPassword(users[u], epoch[u] + 1) \in Row
        /\ WithPassword(users[u], epoch[u] + 1).password = epoch[u] + 1
    BY <1>0, <2>1, <2>2, PasswordRow DEF TypeOK
  <2>4. /\ users' \in [User -> Row]
        /\ epoch' \in [User -> 0..MaxEpoch] /\ chosen' \in [User -> 0..MaxEpoch]
        /\ tries' \in [User -> 0..FailureLimit]
    BY <1>0, <1>8, <2>1, <2>2, <2>3 DEF TypeOK, ResetPassword
  <2>5. \A v \in User : users'[v].password <= chosen'[v] /\ chosen'[v] <= epoch'[v]
    BY <1>0, <1>8, <2>1, <2>2, <2>3 DEF TypeOK, ResetPassword
  <2> QED
    BY <1>0, <1>8, <2>4, <2>5 DEF TypeOK, ResetPassword, EndSessions, Retired, Usable
<1>9. ASSUME NEW t \in Token, VerifyEmail(t) PROVE TypeOK'
  <2>1. tokens[t].user \in User
    BY <1>0, <1>9 DEF TypeOK, VerifyEmail, Owner
  <2> QED
    BY <1>0, <1>9, <2>1, OtherRows DEF TypeOK, VerifyEmail, Retired, history
<1>10. ASSUME NEW u \in User, NEW status \in Status, NEW role \in BOOLEAN, PatchUser(u, status, role)
       PROVE  TypeOK'
  <2>1. /\ users' \in [User -> Row]
        /\ \A v \in User : users'[v].password = users[v].password
    BY <1>0, <1>10, PatchedRow DEF TypeOK, PatchUser
  <2>2. /\ epoch' \in [User -> 0..MaxEpoch] /\ UNCHANGED chosen
        /\ \A v \in User : epoch[v] <= epoch'[v]
    BY <1>0, <1>10 DEF TypeOK, PatchUser
  <2>3. /\ tries' \in [User -> 0..FailureLimit]
        /\ disabled' \subseteq User /\ barred' \subseteq User
    BY <1>0, <1>10 DEF TypeOK, PatchUser
  <2>4. \A v \in User : users'[v].password <= chosen'[v] /\ chosen'[v] <= epoch'[v]
    BY <1>0, <2>1, <2>2 DEF TypeOK
  <2>5. UNCHANGED <<login, saving, mailing, tokens, sessions, access, lost, late, crossed>>
    BY <1>10 DEF PatchUser
  <2> QED
    BY <1>0, <2>1, <2>2, <2>3, <2>4, <2>5 DEF TypeOK
<1>11. ASSUME NEW u \in User, UnlockUser(u) PROVE TypeOK'
  BY <1>0, <1>11, OtherRows DEF TypeOK, UnlockUser
<1>12. ASSUME NEW u \in User, ResetMfa(u) PROVE TypeOK'
  BY <1>0, <1>12, OtherRows DEF TypeOK, ResetMfa
<1>13. ASSUME NEW u \in User, RevokeSessions(u) PROVE TypeOK'
  BY <1>0, <1>13 DEF TypeOK, RevokeSessions, EndSessions, history
<1>14. ASSUME NEW s \in sessions, Refresh(s) PROVE TypeOK'
  BY <1>0, <1>14 DEF TypeOK, Refresh, IssueAccess, AccessFor, Session, Access, Row, history
<1>15. ASSUME NEW s \in sessions, SessionEnds(s) PROVE TypeOK'
  BY <1>0, <1>15 DEF TypeOK, SessionEnds, history
<1>16. ASSUME NEW a \in access, AccessExpires(a) PROVE TypeOK'
  BY <1>0, <1>16 DEF TypeOK, AccessExpires, history
<1>17. CASE UNCHANGED vars
  BY <1>0, <1>17 DEF TypeOK, vars, history
<1> QED
  BY <1>1, <1>2, <1>3, <1>4, <1>5, <1>6, <1>7, <1>8, <1>9, <1>10, <1>11, <1>12, <1>13, <1>14,
     <1>15, <1>16, <1>17 DEF Next, ForgotPassword, ResendVerification, Kind

----------------------------------------------------------------------------
(* The steps preserve what is said of sign-ins in flight. *)

(* A reset and the changes of an administrator start a later epoch, and a   *)
(* password chosen is named by it (users/[id]/route.ts:41,                  *)
(* reset-mfa/route.ts:7, password/reset/route.ts:7).                        *)
LEMMA EpochsGrow ==
    ASSUME IInv,
           \/ \E t \in Token : ResetPassword(t)
           \/ \E u \in User : ResetMfa(u)
           \/ \E u \in User, status \in Status, role \in BOOLEAN : PatchUser(u, status, role)
    PROVE  \A v \in User : /\ epoch[v] <= epoch'[v]
                           /\ chosen'[v] = chosen[v] \/ chosen[v] < chosen'[v]
                           /\ chosen[v] <= chosen'[v]
<1> USE BoundAssumption
<1>0. TypeOK
  BY DEF IInv
<1>1. ASSUME NEW t \in Token, ResetPassword(t), NEW v \in User
      PROVE  /\ epoch[v] <= epoch'[v]
             /\ chosen'[v] = chosen[v] \/ chosen[v] < chosen'[v]
             /\ chosen[v] <= chosen'[v]
  <2>1. /\ epoch' = [epoch EXCEPT ![tokens[t].user] = @ + 1]
        /\ chosen' = [chosen EXCEPT ![tokens[t].user] = epoch[tokens[t].user] + 1]
    BY <1>1 DEF ResetPassword
  <2>2. /\ epoch[v] \in 0..MaxEpoch /\ chosen[v] \in 0..MaxEpoch /\ chosen[v] <= epoch[v]
        /\ epoch'[v] = epoch[v] \/ epoch'[v] = epoch[v] + 1
        /\ chosen'[v] = chosen[v] \/ chosen'[v] = epoch[v] + 1
    BY <1>0, <2>1 DEF TypeOK
  <2> QED
    BY <2>2
<1>2. ASSUME NEW u \in User, UNCHANGED chosen, epoch' = [epoch EXCEPT ![u] = @ + 1], NEW v \in User
      PROVE  /\ epoch[v] <= epoch'[v]
             /\ chosen'[v] = chosen[v] \/ chosen[v] < chosen'[v]
             /\ chosen[v] <= chosen'[v]
  BY <1>0, <1>2 DEF TypeOK
<1> QED
  BY <1>1, <1>2 DEF ResetMfa, PatchUser

(* Every step keeps AttemptsConsistent: a copy never changes, and what it   *)
(* is compared with only grows (login/route.ts:7-14, store.ts:30).          *)
LEMMA AttemptsStep == ASSUME IInv, [Next]_vars PROVE AttemptsConsistent'
<1> USE BoundAssumption
<1>0. TypeOK /\ TypeOK' /\ AttemptsConsistent /\ VersionsCountEpochs /\ PasswordsCurrent
  BY TypeStep DEF IInv
<1>a. ASSUME lost => lost', \A u \in User : epoch[u] <= epoch'[u] /\ chosen[u] <= chosen'[u],
             \A k \in Login : login'[k] # Null =>
                /\ login[k] # Null
                /\ login'[k].user = login[k].user /\ login'[k].ok = login[k].ok
                /\ login'[k].read = login[k].read
                /\ login'[k].epoch = login[k].epoch /\ login'[k].was = login[k].was
      PROVE  AttemptsConsistent'
  <2> SUFFICES ASSUME NEW l \in Login, login'[l] # Null
               PROVE  /\ \A u \in User : login[l].read[u].password <= chosen'[u]
                      /\ login[l].user # Null =>
                            /\ login[l].epoch <= epoch'[login[l].user]
                            /\ login[l].was <= chosen'[login[l].user]
    BY <1>0, <1>a DEF AttemptsConsistent
  <2>1. login[l] # Null /\ login[l] \in Attempt
    BY <1>0, <1>a DEF TypeOK
  <2>2. ASSUME NEW u \in User PROVE login[l].read[u].password <= chosen'[u]
    <3>1. login[l].read[u].password <= chosen[u] /\ login[l].read[u].password \in 0..MaxEpoch
      BY <1>0, <2>1 DEF AttemptsConsistent, Attempt, Row
    <3>2. chosen[u] \in 0..MaxEpoch /\ chosen'[u] \in 0..MaxEpoch /\ chosen[u] <= chosen'[u]
      BY <1>0, <1>a DEF TypeOK
    <3> QED
      BY <3>1, <3>2
  <2>3. ASSUME login[l].user # Null
        PROVE  /\ login[l].epoch <= epoch'[login[l].user]
               /\ login[l].was <= chosen'[login[l].user]
    <3> DEFINE u == login[l].user
    <3>1. /\ u \in User /\ login[l].epoch \in 0..MaxEpoch /\ login[l].was \in 0..MaxEpoch
          /\ login[l].epoch <= epoch[u] /\ login[l].was <= chosen[u]
      BY <1>0, <2>1, <2>3 DEF AttemptsConsistent, Attempt
    <3>2. /\ chosen[u] \in 0..MaxEpoch /\ chosen'[u] \in 0..MaxEpoch
          /\ epoch[u] \in 0..MaxEpoch /\ epoch'[u] \in 0..MaxEpoch
          /\ epoch[u] <= epoch'[u] /\ chosen[u] <= chosen'[u]
      BY <1>0, <1>a, <3>1 DEF TypeOK
    <3> QED
      BY <3>1, <3>2
  <2> QED
    BY <2>2, <2>3
<1>b. \A u \in User : epoch[u] <= epoch[u] /\ chosen[u] <= chosen[u]
  BY <1>0 DEF TypeOK
<1>1. ASSUME NEW l \in Login, NEW u \in User, ReadForLogin(l, u) PROVE AttemptsConsistent'
  <2>1. PICK right \in BOOLEAN, running \in BOOLEAN :
           login' = [login EXCEPT ![l] =
              [user |-> u, ok |-> Admits(users[u], right, running), saved |-> FALSE,
               read |-> users, epoch |-> epoch[u], was |-> chosen[u]]]
    BY <1>1 DEF ReadForLogin
  <2> DEFINE ok == Admits(users[u], right, running)
             new == [user |-> u, ok |-> ok, saved |-> FALSE,
                     read |-> users, epoch |-> epoch[u], was |-> chosen[u]]
  <2>2. UNCHANGED <<epoch, chosen, lost>>
    BY <1>1 DEF ReadForLogin, history
  <2>3. \A k \in Login : login'[k] = IF k = l THEN new ELSE login[k]
    BY <1>0, <2>1 DEF TypeOK
  <2>4. /\ \A v \in User : new.read[v].password <= chosen[v]
        /\ new.ok => new.read[u].status = "ACTIVE"
        /\ new.user = u /\ new.epoch <= epoch[u] /\ new.was <= chosen[u]
        /\ ~lost => new.read[u].security = new.epoch + 1 /\ new.read[u].password = new.was
    BY <1>0, <1>b DEF TypeOK, VersionsCountEpochs, PasswordsCurrent, Admits
  <2> HIDE DEF new
  <2> QED
    BY <1>0, <2>2, <2>3, <2>4 DEF AttemptsConsistent
<1>2. ASSUME NEW l \in Login, ReadForSignUp(l) PROVE AttemptsConsistent'
  <2> DEFINE new == [user |-> Null, ok |-> TRUE, saved |-> FALSE, read |-> users,
                     epoch |-> 0, was |-> 0]
  <2>1. UNCHANGED <<epoch, chosen, lost>>
    BY <1>2 DEF ReadForSignUp, history
  <2>2. \A k \in Login : login'[k] = IF k = l THEN new ELSE login[k]
    BY <1>0, <1>2 DEF TypeOK, ReadForSignUp
  <2>3. new.user = Null /\ \A v \in User : new.read[v].password <= chosen[v]
    BY <1>0 DEF TypeOK
  <2> HIDE DEF new
  <2> QED
    BY <1>0, <2>1, <2>2, <2>3 DEF AttemptsConsistent
<1>3. ASSUME NEW l \in Login, SaveUsers(l) PROVE AttemptsConsistent'
  <2>1. /\ AfterSave(login[l]) = Null \/ AfterSave(login[l]) = [login[l] EXCEPT !.saved = TRUE]
        /\ login[l] \in Attempt
    BY <1>3, SavedTable DEF SaveUsers, AfterSave
  <2>2. ASSUME NEW k \in Login, login'[k] # Null
        PROVE  /\ login[k] # Null
               /\ login'[k].user = login[k].user /\ login'[k].ok = login[k].ok
               /\ login'[k].read = login[k].read
               /\ login'[k].epoch = login[k].epoch /\ login'[k].was = login[k].was
    <3>1. CASE k = l
      BY <1>0, <1>3, <2>1, <2>2, <3>1 DEF TypeOK, SaveUsers, Attempt
    <3>2. CASE k # l
      BY <1>0, <1>3, <2>2, <3>2 DEF TypeOK, SaveUsers
    <3> QED
      BY <3>1, <3>2
  <2>3. UNCHANGED <<epoch, chosen>> /\ (lost => lost')
    BY <1>3 DEF SaveUsers
  <2> QED
    BY <1>a, <1>b, <2>2, <2>3
<1>4. ASSUME NEW l \in Login, ReadForSession(l) \/ Aborts(l) PROVE AttemptsConsistent'
  <2>1. \A k \in Login : login'[k] # Null => login'[k] = login[k]
    BY <1>0, <1>4 DEF TypeOK, ReadForSession, Aborts
  <2>2. UNCHANGED <<epoch, chosen, lost>>
    BY <1>4 DEF ReadForSession, Aborts, history
  <2> QED
    BY <1>a, <1>b, <2>1, <2>2
<1>5. ASSUME UNCHANGED <<login, lost, epoch, chosen>> PROVE AttemptsConsistent'
  BY <1>a, <1>b, <1>5
<1>6. ASSUME NEW t \in Token, ResetPassword(t) PROVE AttemptsConsistent'
  <2>1. \A u \in User : epoch[u] <= epoch'[u] /\ chosen[u] <= chosen'[u]
    BY <1>6, EpochsGrow
  <2> QED
    BY <1>6, <1>a, <2>1 DEF ResetPassword
<1>7. ASSUME NEW u \in User,
             ResetMfa(u) \/ \E status \in Status, role \in BOOLEAN : PatchUser(u, status, role)
      PROVE  AttemptsConsistent'
  <2>1. \A v \in User : epoch[v] <= epoch'[v] /\ chosen[v] <= chosen'[v]
    BY <1>7, EpochsGrow
  <2>2. UNCHANGED <<login, lost>>
    BY <1>7 DEF ResetMfa, PatchUser
  <2> QED
    BY <1>a, <2>1, <2>2
<1> QED
  BY <1>1, <1>2, <1>3, <1>4, <1>5, <1>6, <1>7
  DEF Next, vars, history, ReadForSignOut, SaveSessions, ForgotPassword, ResendVerification,
      RequestToken, InsertToken, MailingAborts, TokenExpires, VerifyEmail, UnlockUser,
      RevokeSessions, Refresh, SessionEnds, AccessExpires

(* Every step keeps SavesConsistent: what is written as live was live when  *)
(* it was read or is opened, and what is issued goes with a session opened  *)
(* (service.ts:7, store.ts:32).                                             *)
LEMMA SavesStep == ASSUME IInv, [Next]_vars PROVE SavesConsistent'
<1> USE BoundAssumption
<1>0. TypeOK /\ TypeOK' /\ AttemptsConsistent /\ SavesConsistent /\ PasswordsCurrent
  BY TypeStep DEF IInv
<1>a. ASSUME lost => lost', late \subseteq late',
             \A u \in User : /\ epoch[u] <= epoch'[u]
                             /\ chosen'[u] = chosen[u] \/ chosen[u] < chosen'[u],
             \A k \in Login : saving'[k] # Null => saving'[k] = saving[k]
      PROVE  SavesConsistent'
  <2> SUFFICES ASSUME NEW l \in Login, saving'[l] # Null
               PROVE  /\ \A u \in User : saving[l].was[u] <= chosen'[u]
                      /\ \A a \in saving[l].issued :
                            /\ a.epoch <= epoch'[a.user]
                            /\ ~lost' => a.security = a.epoch + 1
                            /\ \E s \in saving[l].opened : s.user = a.user /\ s.password = a.password
                      /\ ~lost' => \A s \in Written(saving[l]) :
                            s.user \notin late' /\ saving[l].was[s.user] = chosen'[s.user]
                                => s.password = chosen'[s.user]
    BY <1>a DEF SavesConsistent, Written
  <2>1. saving[l] # Null /\ saving[l] \in SessionSave
    BY <1>0, <1>a DEF TypeOK
  <2>2. ASSUME NEW u \in User
        PROVE  /\ saving[l].was[u] <= chosen'[u]
               /\ saving[l].was[u] = chosen'[u] => chosen'[u] = chosen[u]
    <3>1. saving[l].was[u] \in 0..MaxEpoch /\ saving[l].was[u] <= chosen[u]
      BY <1>0, <2>1 DEF SavesConsistent, SessionSave
    <3>2. chosen[u] \in 0..MaxEpoch /\ chosen'[u] \in 0..MaxEpoch
      BY <1>0 DEF TypeOK
    <3> QED
      BY <1>a, <3>1, <3>2
  <2>3. ASSUME NEW a \in saving[l].issued
        PROVE  /\ a.epoch <= epoch'[a.user]
               /\ ~lost' => a.security = a.epoch + 1
               /\ \E s \in saving[l].opened : s.user = a.user /\ s.password = a.password
    <3>1. a.user \in User /\ a.epoch \in 0..MaxEpoch
      BY <2>1 DEF SessionSave, Access
    <3>2. /\ a.epoch <= epoch[a.user]
          /\ ~lost => a.security = a.epoch + 1
          /\ \E s \in saving[l].opened : s.user = a.user /\ s.password = a.password
      BY <1>0, <2>1 DEF SavesConsistent
    <3>3. /\ epoch[a.user] \in 0..MaxEpoch /\ epoch'[a.user] \in 0..MaxEpoch
          /\ epoch[a.user] <= epoch'[a.user]
      BY <1>0, <1>a, <3>1 DEF TypeOK
    <3>4. a.epoch <= epoch'[a.user]
      BY <3>1, <3>2, <3>3
    <3> QED
      BY <1>a, <3>2, <3>4
  <2>4. ASSUME ~lost', NEW s \in Written(saving[l]),
               s.user \notin late', saving[l].was[s.user] = chosen'[s.user]
        PROVE  s.password = chosen'[s.user]
    <3>1. s.user \in User
      BY <2>1 DEF Written, SessionSave, Session
    <3>2. chosen'[s.user] = chosen[s.user]
      BY <2>2, <2>4, <3>1
    <3> QED
      BY <1>0, <1>a, <2>1, <2>4, <3>2 DEF SavesConsistent
  <2> QED
    BY <2>2, <2>3, <2>4
<1>b. \A u \in User : epoch[u] <= epoch[u] /\ chosen[u] <= chosen[u]
  BY <1>0 DEF TypeOK
<1>1. ASSUME NEW l \in Login, ReadForSession(l) PROVE SavesConsistent'
  <2>1. login[l] # Null /\ login[l] \in Attempt /\ UNCHANGED <<epoch, chosen, lost, late>>
    BY <1>1, SavedTable DEF ReadForSession, history
  <2>2. PICK save \in SessionSave :
           /\ saving' = [saving EXCEPT ![l] = save]
           /\ save.kept = sessions
           /\ \A u \in User : save.was[u] = IF u = login[l].user THEN login[l].was ELSE chosen[u]
           /\ login[l].user = Null => save.opened = {} /\ save.issued = {}
           /\ login[l].user # Null =>
                 LET u == login[l].user
                 IN  /\ save.opened = {[user |-> u, password |-> login[l].read[u].password]}
                     /\ save.issued = {[user     |-> u,
                                        security |-> login[l].read[u].security,
                                        password |-> login[l].read[u].password,
                                        epoch    |-> login[l].epoch]}
    BY <1>1, SessionRead
  <2>3. \A k \in Login : saving'[k] = IF k = l THEN save ELSE saving[k]
    BY <1>0, <2>2 DEF TypeOK
  <2>4. \A u \in User : save.was[u] <= chosen[u]
    <3>1. ASSUME NEW u \in User, u = login[l].user PROVE login[l].was <= chosen[u]
      BY <1>0, <2>1, <3>1, NullAssumption DEF AttemptsConsistent
    <3> QED
      BY <1>b, <2>2, <3>1
  <2>5. ASSUME NEW a \in save.issued
        PROVE  /\ a.epoch <= epoch[a.user]
               /\ ~lost => a.security = a.epoch + 1
               /\ \E s \in save.opened : s.user = a.user /\ s.password = a.password
    <3> DEFINE u == login[l].user
               old == login[l].read[u]
    <3>1. u # Null
      BY <2>2, <2>5
    <3>2. /\ save.opened = {[user |-> u, password |-> old.password]}
          /\ a = [user |-> u, security |-> old.security, password |-> old.password,
                  epoch |-> login[l].epoch]
      BY <2>2, <2>5, <3>1
    <3>3. login[l].epoch <= epoch[u] /\ (~lost => old.security = login[l].epoch + 1)
      BY <1>0, <2>1, <3>1 DEF AttemptsConsistent
    <3> HIDE DEF u, old
    <3> QED
      BY <3>2, <3>3
  <2>6. ASSUME ~lost, NEW s \in Written(save),
               s.user \notin late, save.was[s.user] = chosen[s.user]
        PROVE  s.password = chosen[s.user]
    <3>1. s.user \in User
      BY <2>2 DEF Written, SessionSave, Session
    <3>2. CASE s \in sessions
      BY <1>0, <2>6, <3>1, <3>2 DEF PasswordsCurrent
    <3>3. CASE s \in save.opened
      <4>1. /\ login[l].user # Null /\ s.user = login[l].user
            /\ s.password = login[l].read[login[l].user].password
        BY <2>2, <3>3
      <4>2. s.password = login[l].was
        BY <1>0, <2>1, <2>6, <4>1 DEF AttemptsConsistent
      <4> QED
        BY <2>2, <2>6, <3>1, <4>1, <4>2
    <3> QED
      BY <2>2, <3>2, <3>3 DEF Written
  <2> QED
    BY <1>0, <2>1, <2>3, <2>4, <2>5, <2>6 DEF SavesConsistent
<1>2. ASSUME NEW l \in Login, ReadForSignOut(l) PROVE SavesConsistent'
  <2>1. PICK gone \in {{}} \cup {{s} : s \in sessions}
                        \cup {{s \in sessions : s.user = u} : u \in User} :
           saving' = [saving EXCEPT ![l] = [opened |-> {}, issued |-> {}, gone |-> gone,
                                            kept |-> sessions \ gone, was |-> chosen]]
    BY <1>2 DEF ReadForSignOut
  <2> DEFINE save == [opened |-> {}, issued |-> {}, gone |-> gone, kept |-> sessions \ gone,
                      was |-> chosen]
  <2>2. UNCHANGED <<epoch, chosen, lost, late>>
    BY <1>2 DEF ReadForSignOut, history
  <2>3. \A k \in Login : saving'[k] = IF k = l THEN save ELSE saving[k]
    BY <1>0, <2>1 DEF TypeOK
  <2>4. save.was = chosen /\ save.issued = {}
    OBVIOUS
  <2>5. ASSUME ~lost, NEW s \in Written(save), s.user \notin late
        PROVE  s.password = chosen[s.user]
    <3>1. s \in sessions /\ s.user \in User
      BY <1>0 DEF Written, TypeOK, Session
    <3> QED
      BY <1>0, <2>5, <3>1 DEF PasswordsCurrent
  <2> HIDE DEF save
  <2> QED
    BY <1>0, <1>b, <2>2, <2>3, <2>4, <2>5 DEF SavesConsistent
<1>3. ASSUME NEW l \in Login, SaveSessions(l) \/ Aborts(l) PROVE SavesConsistent'
  <2>1. \A k \in Login : saving'[k] # Null => saving'[k] = saving[k]
    BY <1>0, <1>3 DEF TypeOK, SaveSessions, Aborts
  <2>2. UNCHANGED <<epoch, chosen, lost>> /\ late \subseteq late'
    BY <1>3 DEF SaveSessions, Aborts, history
  <2> QED
    BY <1>a, <1>b, <2>1, <2>2
<1>4. ASSUME NEW l \in Login, SaveUsers(l) PROVE SavesConsistent'
  <2>1. UNCHANGED <<saving, epoch, chosen, late>> /\ (lost => lost')
    BY <1>4 DEF SaveUsers
  <2> QED
    BY <1>a, <1>b, <2>1
<1>5. ASSUME UNCHANGED <<saving, lost, epoch, chosen, late>> PROVE SavesConsistent'
  BY <1>a, <1>b, <1>5
<1>6. ASSUME NEW t \in Token, ResetPassword(t) PROVE SavesConsistent'
  BY <1>6, <1>a, EpochsGrow DEF ResetPassword
<1>7. ASSUME NEW u \in User,
             ResetMfa(u) \/ \E status \in Status, role \in BOOLEAN : PatchUser(u, status, role)
      PROVE  SavesConsistent'
  <2>1. \A v \in User : /\ epoch[v] <= epoch'[v]
                        /\ chosen'[v] = chosen[v] \/ chosen[v] < chosen'[v]
    BY <1>7, EpochsGrow
  <2>2. UNCHANGED <<saving, lost, late>>
    BY <1>7 DEF ResetMfa, PatchUser
  <2> QED
    BY <1>a, <2>1, <2>2
<1> QED
  BY <1>1, <1>2, <1>3, <1>4, <1>5, <1>6, <1>7
  DEF Next, vars, history, ReadForLogin, ReadForSignUp, ForgotPassword, ResendVerification,
      RequestToken, InsertToken, MailingAborts, TokenExpires, VerifyEmail, UnlockUser,
      RevokeSessions, Refresh, SessionEnds, AccessExpires

----------------------------------------------------------------------------
(* The steps preserve what ties versions to epochs. *)

(* What a row becomes when the table of a sign-in is saved unchanged since  *)
(* it was read (store.ts:30).                                               *)
LEMMA FreshSave ==
    ASSUME IInv, NEW l \in Login, SaveUsers(l), ~lost', NEW u \in User
    PROVE  /\ ~lost
           /\ users[u] \in Row
           /\ users'[u].password = users[u].password
           /\ users'[u].security = users[u].security
           /\ u # login[l].user => users'[u] = users[u]
           /\ u = login[l].user /\ login[l].ok =>
                 /\ users'[u] = Cleared(users[u])
                 /\ users[u].status = "ACTIVE"
           /\ u = login[l].user /\ ~login[l].ok => users'[u] = FailureCounted(users[u])
<1>1. login[l] # Null
  BY DEF SaveUsers
<1>2. ~lost /\ users = login[l].read /\ users' = Table(login[l])
  BY DEF SaveUsers
<1>3. users[u] \in Row
  BY DEF IInv, TypeOK
<1>4. u = login[l].user /\ login[l].ok => users[u].status = "ACTIVE"
  BY <1>1, <1>2, NullAssumption DEF IInv, AttemptsConsistent
<1> QED
  BY <1>1, <1>2, <1>3, <1>4, SavedTable

(* Every step keeps VersionsCountEpochs: whoever starts an epoch moves the  *)
(* security version (users/[id]/route.ts:41, reset-mfa/route.ts:7,          *)
(* password/reset/route.ts:7), and nobody else does.                        *)
LEMMA VersionsStep == ASSUME IInv, [Next]_vars PROVE VersionsCountEpochs'
<1>0. TypeOK /\ TypeOK' /\ VersionsCountEpochs
  BY TypeStep DEF IInv
<1>a. ASSUME UNCHANGED <<access, epoch>>, lost = lost',
             \A u \in User : users'[u].security = users[u].security
      PROVE  VersionsCountEpochs'
  BY <1>0, <1>a DEF VersionsCountEpochs
<1>b. ASSUME NEW v \in User, UNCHANGED <<access, lost>>,
             epoch' = [epoch EXCEPT ![v] = @ + 1],
             \A u \in User : users'[u].security = IF u = v THEN users[u].security + 1
                                                           ELSE users[u].security
      PROVE  VersionsCountEpochs'
  <2>1. ASSUME NEW a \in access PROVE a.epoch <= epoch'[a.user]
    BY <1>0, <1>b DEF VersionsCountEpochs, TypeOK, Access
  <2> QED
    BY <1>0, <1>b, <2>1 DEF VersionsCountEpochs, TypeOK
<1>c. ASSUME NEW issued, access' = access \cup issued, UNCHANGED <<users, epoch, lost>>,
             \A a \in issued : a.epoch <= epoch[a.user] /\ (~lost => a.security = a.epoch + 1)
      PROVE  VersionsCountEpochs'
  BY <1>0, <1>c DEF VersionsCountEpochs
<1>d. ASSUME access' \subseteq access, UNCHANGED <<users, epoch, lost>> PROVE VersionsCountEpochs'
  BY <1>0, <1>d DEF VersionsCountEpochs
<1>1. ASSUME NEW l \in Login, SaveUsers(l) PROVE VersionsCountEpochs'
  <2>1. ASSUME ~lost', NEW u \in User
        PROVE  ~lost /\ users'[u].security = users[u].security
    BY <1>1, <2>1, FreshSave
  <2> QED
    BY <1>0, <1>1, <2>1 DEF VersionsCountEpochs, SaveUsers
<1>2. ASSUME NEW l \in Login, SaveSessions(l) PROVE VersionsCountEpochs'
  <2>1. \A a \in saving[l].issued : a.epoch <= epoch[a.user] /\ (~lost => a.security = a.epoch + 1)
    BY <1>2 DEF SaveSessions, IInv, SavesConsistent
  <2> QED
    BY <1>2, <1>c, <2>1 DEF SaveSessions, IssueAccess
<1>3. ASSUME NEW s \in sessions, Refresh(s) PROVE VersionsCountEpochs'
  <2>1. s.user \in User
    BY <1>0 DEF TypeOK, Session
  <2>2. epoch[s.user] <= epoch[s.user] /\ (~lost => users[s.user].security = epoch[s.user] + 1)
    BY <1>0, <2>1 DEF TypeOK, VersionsCountEpochs
  <2> DEFINE issued == {AccessFor(s.user, users[s.user], epoch[s.user], s.password)}
  <2>3. access' = access \cup issued /\ UNCHANGED <<users, epoch, lost>>
    BY <1>3 DEF Refresh, IssueAccess, history
  <2>4. \A a \in issued : a.epoch <= epoch[a.user] /\ (~lost => a.security = a.epoch + 1)
    BY <2>2 DEF AccessFor
  <2> HIDE DEF issued
  <2> QED
    BY <1>c, <2>3, <2>4
<1>4. ASSUME NEW t \in Token, ResetPassword(t) PROVE VersionsCountEpochs'
  <2> DEFINE u == tokens[t].user
  <2>1. u \in User /\ epoch[u] + 1 \in 0..MaxEpoch
    BY <1>0, <1>4 DEF TypeOK, ResetPassword, Owner
  <2>2. WithPassword(users[u], epoch[u] + 1).security = users[u].security + 1
    BY <1>0, <2>1, PasswordRow DEF TypeOK
  <2>3. \A v \in User : users'[v].security = IF v = u THEN users[v].security + 1
                                                     ELSE users[v].security
    BY <1>0, <1>4, <2>1, <2>2 DEF TypeOK, ResetPassword
  <2> QED
    BY <1>4, <1>b, <2>1, <2>3 DEF ResetPassword
<1>5. ASSUME NEW t \in Token, VerifyEmail(t) PROVE VersionsCountEpochs'
  <2>1. tokens[t].user \in User
    BY <1>0, <1>5 DEF TypeOK, VerifyEmail, Owner
  <2>2. \A v \in User : users'[v].security = users[v].security
    BY <1>0, <1>5, <2>1, OtherRows DEF TypeOK, VerifyEmail
  <2> QED
    BY <1>5, <1>a, <2>2 DEF VerifyEmail, history
<1>6. ASSUME NEW u \in User, NEW status \in Status, NEW role \in BOOLEAN, PatchUser(u, status, role)
      PROVE  VersionsCountEpochs'
  <2>1. \A v \in User : users'[v].security = IF v = u THEN users[v].security + 1
                                                     ELSE users[v].security
    BY <1>0, <1>6, PatchedRow DEF TypeOK, PatchUser
  <2> QED
    BY <1>6, <1>b, <2>1 DEF PatchUser
<1>7. ASSUME NEW u \in User, UnlockUser(u) PROVE VersionsCountEpochs'
  <2>1. \A v \in User : users'[v].security = users[v].security
    BY <1>0, <1>7, OtherRows DEF TypeOK, UnlockUser
  <2> QED
    BY <1>7, <1>a, <2>1 DEF UnlockUser
<1>8. ASSUME NEW u \in User, ResetMfa(u) PROVE VersionsCountEpochs'
  <2>1. \A v \in User : users'[v].security = IF v = u THEN users[v].security + 1
                                                     ELSE users[v].security
    BY <1>0, <1>8, OtherRows DEF TypeOK, ResetMfa
  <2> QED
    BY <1>8, <1>b, <2>1 DEF ResetMfa
<1>9. ASSUME NEW a \in access, AccessExpires(a) PROVE VersionsCountEpochs'
  BY <1>9, <1>d DEF AccessExpires, history
<1>10. ASSUME UNCHANGED <<users, access, epoch, lost>> PROVE VersionsCountEpochs'
  BY <1>10, <1>a
<1> QED
  BY <1>1, <1>2, <1>3, <1>4, <1>5, <1>6, <1>7, <1>8, <1>9, <1>10
  DEF Next, vars, history, ReadForLogin, ReadForSignUp, ReadForSession, ReadForSignOut, Aborts,
      ForgotPassword, ResendVerification, RequestToken, InsertToken, MailingAborts, TokenExpires,
      RevokeSessions, SessionEnds

----------------------------------------------------------------------------
(* The steps preserve what is said of passwords, statuses and failures. *)

(* Every step keeps PasswordsCurrent: a reset ends the sessions of its      *)
(* account and starts an epoch (password/reset/route.ts:7).                 *)
LEMMA PasswordsStep == ASSUME IInv, [Next]_vars PROVE PasswordsCurrent'
<1>0. TypeOK /\ TypeOK' /\ VersionsCountEpochs /\ PasswordsCurrent
  BY TypeStep DEF IInv
<1>a. ASSUME NEW v \in User, UNCHANGED <<sessions, access, chosen, late, lost>>,
             epoch' = [epoch EXCEPT ![v] = @ + 1],
             \A u \in User : users'[u].password = users[u].password
      PROVE  PasswordsCurrent'
  <2>1. \A a \in access : a.user = v => a.epoch # epoch'[v]
    BY <1>0, <1>a DEF VersionsCountEpochs, TypeOK, Access
  <2> QED
    BY <1>0, <1>a, <2>1 DEF PasswordsCurrent, TypeOK
<1>b. ASSUME sessions' \subseteq sessions, access' \subseteq access,
             UNCHANGED <<epoch, chosen, late>>,
             ~lost' => ~lost /\ \A u \in User : users'[u].password = users[u].password
      PROVE  PasswordsCurrent'
  BY <1>0, <1>b DEF PasswordsCurrent
<1>1. ASSUME NEW l \in Login, SaveSessions(l) PROVE PasswordsCurrent'
  <2> SUFFICES ASSUME ~lost'
               PROVE  /\ \A u \in User : users'[u].password = chosen'[u]
                      /\ \A u \in User \ late' :
                            /\ \A s \in sessions' : s.user = u => s.password = chosen'[u]
                            /\ \A a \in access' : a.user = u /\ a.epoch = epoch'[u]
                                                     => a.password = chosen'[u]
    BY DEF PasswordsCurrent
  <2>1. /\ saving[l] # Null /\ ~lost /\ UNCHANGED <<users, epoch, chosen>> /\ late \subseteq late'
        /\ sessions' = (sessions \ saving[l].gone) \cup Written(saving[l])
        /\ access' = access \cup saving[l].issued
        /\ \A s \in Written(saving[l]) : saving[l].was[s.user] # chosen[s.user] => s.user \in late'
    BY <1>1 DEF SaveSessions, IssueAccess
  <2>2. ASSUME NEW s \in Written(saving[l]), s.user \notin late'
        PROVE  s.password = chosen[s.user]
    BY <2>1, <2>2 DEF IInv, SavesConsistent
  <2>3. ASSUME NEW a \in saving[l].issued, a.user \notin late'
        PROVE  a.password = chosen[a.user]
    <3>1. PICK s \in saving[l].opened : s.user = a.user /\ s.password = a.password
      BY <2>1 DEF IInv, SavesConsistent
    <3> QED
      BY <2>2, <2>3, <3>1 DEF Written
  <2> QED
    BY <1>0, <2>1, <2>2, <2>3 DEF PasswordsCurrent
<1>2. ASSUME NEW s \in sessions, Refresh(s) PROVE PasswordsCurrent'
  <2>1. /\ \A a \in access' : a \in access \/ (a.user = s.user /\ a.password = s.password)
        /\ UNCHANGED <<users, sessions, epoch, chosen, late, lost>>
    BY <1>2 DEF Refresh, IssueAccess, AccessFor, history
  <2> QED
    BY <1>0, <2>1 DEF PasswordsCurrent
<1>3. ASSUME NEW t \in Token, ResetPassword(t) PROVE PasswordsCurrent'
  <2> DEFINE u == tokens[t].user
  <2>1. u \in User /\ epoch[u] + 1 \in 0..MaxEpoch
    BY <1>0, <1>3, BoundAssumption DEF TypeOK, ResetPassword, Owner
  <2>2. /\ users' = [users EXCEPT ![u] = WithPassword(@, epoch[u] + 1)]
        /\ sessions' = {s \in sessions : s.user # u}
        /\ epoch' = [epoch EXCEPT ![u] = @ + 1]
        /\ chosen' = [chosen EXCEPT ![u] = epoch[u] + 1]
        /\ UNCHANGED <<access, late, lost>>
    BY <1>3 DEF ResetPassword, EndSessions
  <2>3. WithPassword(users[u], epoch[u] + 1).password = epoch[u] + 1
    BY <1>0, <2>1, PasswordRow DEF TypeOK
  <2> HIDE DEF u
  <2>4. \A a \in access : a.user = u => a.epoch # epoch'[u]
    BY <1>0, <2>1, <2>2 DEF VersionsCountEpochs, TypeOK, Access
  <2>5. \A v \in User : /\ v # u => /\ epoch'[v] = epoch[v] /\ chosen'[v] = chosen[v]
                                    /\ users'[v] = users[v]
                        /\ v = u => users'[v].password = chosen'[v]
    BY <1>0, <2>1, <2>2, <2>3 DEF TypeOK
  <2> QED
    BY <1>0, <2>2, <2>4, <2>5 DEF PasswordsCurrent
<1>4. ASSUME NEW u \in User, ResetMfa(u) PROVE PasswordsCurrent'
  <2>1. \A v \in User : users'[v].password = users[v].password
    BY <1>0, <1>4, OtherRows DEF TypeOK, ResetMfa
  <2> QED
    BY <1>4, <1>a, <2>1 DEF ResetMfa
<1>5. ASSUME NEW u \in User, NEW status \in Status, NEW role \in BOOLEAN, PatchUser(u, status, role)
      PROVE  PasswordsCurrent'
  <2>1. \A v \in User : users'[v].password = users[v].password
    BY <1>0, <1>5, PatchedRow DEF TypeOK, PatchUser
  <2> QED
    BY <1>5, <1>a, <2>1 DEF PatchUser
<1>6. ASSUME NEW l \in Login, SaveUsers(l) PROVE PasswordsCurrent'
  <2>1. ASSUME ~lost' PROVE ~lost /\ \A u \in User : users'[u].password = users[u].password
    BY <1>6, <2>1, FreshSave DEF SaveUsers
  <2>2. UNCHANGED <<sessions, access, epoch, chosen, late>>
    BY <1>6 DEF SaveUsers
  <2> QED
    BY <1>b, <2>1, <2>2
<1>7. ASSUME NEW t \in Token, VerifyEmail(t) PROVE PasswordsCurrent'
  <2>1. tokens[t].user \in User
    BY <1>0, <1>7 DEF TypeOK, VerifyEmail, Owner
  <2>2. \A v \in User : users'[v].password = users[v].password
    BY <1>0, <1>7, <2>1, OtherRows DEF TypeOK, VerifyEmail
  <2> QED
    BY <1>7, <1>b, <2>2 DEF VerifyEmail, history
<1>8. ASSUME NEW u \in User, UnlockUser(u) PROVE PasswordsCurrent'
  <2>1. \A v \in User : users'[v].password = users[v].password
    BY <1>0, <1>8, OtherRows DEF TypeOK, UnlockUser
  <2> QED
    BY <1>8, <1>b, <2>1 DEF UnlockUser
<1>9. ASSUME sessions' \subseteq sessions, access' \subseteq access,
             UNCHANGED <<users, epoch, chosen, late, lost>>
      PROVE  PasswordsCurrent'
  BY <1>9, <1>b
<1>10. ASSUME NEW u \in User, RevokeSessions(u) PROVE PasswordsCurrent'
  BY <1>10, <1>9 DEF RevokeSessions, EndSessions, history
<1>11. ASSUME NEW s \in sessions, SessionEnds(s) PROVE PasswordsCurrent'
  BY <1>11, <1>9 DEF SessionEnds, history
<1>12. ASSUME NEW a \in access, AccessExpires(a) PROVE PasswordsCurrent'
  BY <1>12, <1>9 DEF AccessExpires, history
<1> QED
  BY <1>1, <1>2, <1>3, <1>4, <1>5, <1>6, <1>7, <1>8, <1>9, <1>10, <1>11, <1>12
  DEF Next, vars, history, ReadForLogin, ReadForSignUp, ReadForSession, ReadForSignOut, Aborts,
      ForgotPassword, ResendVerification, RequestToken, InsertToken, MailingAborts, TokenExpires

(* Every step keeps DisabledStatus: failed sign-ins turn a disabled account *)
(* into a locked one (login/route.ts:13), and only the administrator's      *)
(* PATCH and unlock turn either into another status.                        *)
LEMMA DisabledStep == ASSUME IInv, [Next]_vars PROVE DisabledStatus'
<1>0. TypeOK /\ DisabledStatus
  BY DEF IInv
<1>a. ASSUME disabled' = disabled, lost' = lost,
             \A u \in disabled : users'[u].status = users[u].status
      PROVE  DisabledStatus'
  BY <1>0, <1>a DEF DisabledStatus
<1>1. ASSUME NEW l \in Login, SaveUsers(l) PROVE DisabledStatus'
  <2> SUFFICES ASSUME ~lost', NEW u \in disabled
               PROVE  users'[u].status \in {"DISABLED", "LOCKED"}
    BY <1>1 DEF DisabledStatus, SaveUsers
  <2>1. u \in User /\ users[u] \in Row /\ ~lost
    BY <1>0, <1>1, FreshSave DEF TypeOK
  <2>2. users[u].status \in {"DISABLED", "LOCKED"}
    BY <1>0, <2>1 DEF DisabledStatus
  <2>3. FailureCounted(users[u]).status \in {"LOCKED", users[u].status}
    BY <2>1, RowFacts
  <2> QED
    BY <1>1, <2>1, <2>2, <2>3, FreshSave
<1>2. ASSUME NEW t \in Token, ResetPassword(t) PROVE DisabledStatus'
  <2> DEFINE u == tokens[t].user
  <2>1. u \in User /\ epoch[u] + 1 \in 0..MaxEpoch
    BY <1>0, <1>2, BoundAssumption DEF TypeOK, ResetPassword, Owner
  <2>2. WithPassword(users[u], epoch[u] + 1).status = users[u].status
    BY <1>0, <2>1, PasswordRow DEF TypeOK
  <2>3. \A v \in disabled : users'[v].status = users[v].status
    BY <1>0, <1>2, <2>2 DEF TypeOK, ResetPassword
  <2> QED
    BY <1>2, <1>a, <2>3 DEF ResetPassword
<1>3. ASSUME NEW t \in Token, VerifyEmail(t) PROVE DisabledStatus'
  <2>1. tokens[t].user \in User
    BY <1>0, <1>3 DEF TypeOK, VerifyEmail, Owner
  <2>2. \A v \in disabled : users[v].status # "PENDING_VERIFICATION"
                             => users'[v].status = users[v].status
    BY <1>0, <1>3, <2>1, OtherRows DEF TypeOK, VerifyEmail
  <2> QED
    BY <1>0, <1>3, <2>2 DEF DisabledStatus, VerifyEmail, history
<1>4. ASSUME NEW u \in User, NEW status \in Status, NEW role \in BOOLEAN, PatchUser(u, status, role)
      PROVE  DisabledStatus'
  <2>1. \A v \in User : users'[v].status = IF v = u THEN status ELSE users[v].status
    BY <1>0, <1>4, PatchedRow DEF TypeOK, PatchUser
  <2> QED
    BY <1>0, <1>4, <2>1 DEF DisabledStatus, PatchUser, TypeOK
<1>5. ASSUME NEW u \in User, UnlockUser(u) PROVE DisabledStatus'
  BY <1>0, <1>5 DEF DisabledStatus, UnlockUser, TypeOK
<1>6. ASSUME NEW u \in User, ResetMfa(u) PROVE DisabledStatus'
  <2>1. \A v \in disabled : users'[v].status = users[v].status
    BY <1>0, <1>6, OtherRows DEF TypeOK, ResetMfa
  <2> QED
    BY <1>6, <1>a, <2>1 DEF ResetMfa
<1>7. ASSUME UNCHANGED <<users, disabled, lost>> PROVE DisabledStatus'
  BY <1>7, <1>a
<1> QED
  BY <1>1, <1>2, <1>3, <1>4, <1>5, <1>6, <1>7
  DEF Next, vars, history, ReadForLogin, ReadForSignUp, ReadForSession, ReadForSignOut,
      SaveSessions, Aborts, ForgotPassword, ResendVerification, RequestToken, InsertToken,
      MailingAborts, TokenExpires, RevokeSessions, Refresh, SessionEnds, AccessExpires

(* Every step keeps FailuresCounted: a failure is counted in the row and in *)
(* tries alike, the one that reaches the limit locks (login/route.ts:13),   *)
(* and of what follows only PATCH and unlock take the lock away.            *)
LEMMA FailuresStep == ASSUME IInv, [Next]_vars PROVE FailuresCounted'
<1> USE LimitAssumption
<1>0. TypeOK /\ FailuresCounted
  BY DEF IInv
<1>a. ASSUME NEW v \in User, UNCHANGED lost, tries' = [tries EXCEPT ![v] = 0],
             \A u \in User : users'[u].failed \in Nat /\ (u # v => users'[u] = users[u]),
             \/ barred' = barred \ {v}
             \/ barred' = barred /\ users'[v].status = users[v].status
      PROVE  FailuresCounted'
  <2>1. \A u \in User : tries'[u] = IF u = v THEN 0 ELSE tries[u]
    BY <1>0, <1>a DEF TypeOK
  <2>2. ASSUME ~lost PROVE \A u \in User : tries'[u] <= users'[u].failed
    BY <1>0, <1>a, <2>1, <2>2 DEF FailuresCounted, TypeOK
  <2>3. ASSUME ~lost PROVE \A u \in barred' : users'[u].status = "LOCKED"
    BY <1>0, <1>a, <2>3 DEF FailuresCounted, TypeOK
  <2> QED
    BY <1>a, <2>2, <2>3 DEF FailuresCounted
<1>b. ASSUME UNCHANGED <<lost, tries, barred>>,
             \A u \in User : /\ users'[u].failed = users[u].failed
                             /\ users[u].status = "LOCKED" => users'[u].status = "LOCKED"
      PROVE  FailuresCounted'
  BY <1>0, <1>b DEF FailuresCounted, TypeOK
<1>1. ASSUME NEW l \in Login, SaveUsers(l) PROVE FailuresCounted'
  <2> SUFFICES ASSUME ~lost', NEW u \in User
               PROVE  /\ tries'[u] <= users'[u].failed
                      /\ u \in barred' => users'[u].status = "LOCKED"
    BY <1>0, <1>1 DEF FailuresCounted, SaveUsers, TypeOK
  <2>1. /\ login[l] \in Attempt /\ users[u] \in Row /\ ~lost
        /\ tries[u] \in 0..FailureLimit /\ users[u].failed \in 0..FailureLimit
        /\ tries[u] <= users[u].failed
        /\ u \in barred => users[u].status = "LOCKED"
    BY <1>0, <1>1, SavedTable, FreshSave DEF SaveUsers, FailuresCounted, TypeOK, Row
  <2>2. tries'[u] = IF u = login[l].user THEN IF login[l].ok THEN 0 ELSE OneMore(tries[u])
                    ELSE tries[u]
    BY <1>0, <1>1 DEF TypeOK, SaveUsers
  <2>a. u \in barred' <=> u \in barred \/ (u = login[l].user /\ tries'[u] = FailureLimit)
    BY <1>1 DEF SaveUsers
  <2>3. CASE u # login[l].user
    BY <1>1, <2>1, <2>2, <2>a, <2>3, FreshSave
  <2>4. CASE u = login[l].user /\ login[l].ok
    <3>1. users'[u].failed = 0 /\ users'[u].status = users[u].status
      BY <1>1, <2>1, <2>4, FreshSave, RowFacts
    <3>2. tries'[u] = 0 /\ tries'[u] # FailureLimit
      BY <2>2, <2>4
    <3> QED
      BY <2>1, <2>a, <3>1, <3>2
  <2>5. CASE u = login[l].user /\ ~login[l].ok
    <3>1. /\ users'[u].failed = OneMore(users[u].failed)
          /\ users'[u].status = IF OneMore(users[u].failed) = FailureLimit
                                THEN "LOCKED" ELSE users[u].status
      BY <1>1, <2>1, <2>5, FreshSave, RowFacts
    <3>2. /\ OneMore(tries[u]) <= OneMore(users[u].failed)
          /\ OneMore(tries[u]) = FailureLimit => OneMore(users[u].failed) = FailureLimit
      BY <2>1 DEF OneMore
    <3> QED
      BY <2>1, <2>2, <2>a, <2>5, <3>1, <3>2
  <2> QED
    BY <2>1, <2>3, <2>4, <2>5
<1>2. ASSUME NEW t \in Token, ResetPassword(t) PROVE FailuresCounted'
  <2> DEFINE u == tokens[t].user
  <2>1. u \in User /\ epoch[u] + 1 \in 0..MaxEpoch
    BY <1>0, <1>2, BoundAssumption DEF TypeOK, ResetPassword, Owner
  <2>2. /\ WithPassword(users[u], epoch[u] + 1).failed = 0
        /\ WithPassword(users[u], epoch[u] + 1).status = users[u].status
    BY <1>0, <2>1, PasswordRow DEF TypeOK
  <2>3. /\ \A v \in User : users'[v].failed \in Nat /\ (v # u => users'[v] = users[v])
        /\ users'[u].status = users[u].status
    BY <1>0, <1>2, <2>1, <2>2 DEF TypeOK, ResetPassword, Row
  <2> QED
    BY <1>2, <1>a, <2>1, <2>3 DEF ResetPassword
<1>3. ASSUME NEW t \in Token, VerifyEmail(t) PROVE FailuresCounted'
  <2>1. tokens[t].user \in User
    BY <1>0, <1>3 DEF TypeOK, VerifyEmail, Owner
  <2>2. \A v \in User : /\ users'[v].failed = users[v].failed
                        /\ users[v].status = "LOCKED" => users'[v].status = "LOCKED"
    BY <1>0, <1>3, <2>1, OtherRows DEF TypeOK, VerifyEmail
  <2>3. UNCHANGED <<lost, tries, barred>>
    BY <1>3 DEF VerifyEmail, history
  <2> QED
    BY <1>b, <2>2, <2>3
<1>4. ASSUME NEW u \in User, NEW status \in Status, NEW role \in BOOLEAN, PatchUser(u, status, role)
      PROVE  FailuresCounted'
  <2>1. \A v \in User : /\ users'[v].failed = users[v].failed /\ users'[v].failed \in Nat
                        /\ users'[v].status = (IF v = u THEN status ELSE users[v].status)
                        /\ v # u => users'[v] = users[v]
    <3>1. users[u] \in Row /\ users' = [users EXCEPT ![u] = Patched(@, status, role)]
      BY <1>0, <1>4 DEF TypeOK, PatchUser
    <3>2. /\ Patched(users[u], status, role).failed = users[u].failed
          /\ Patched(users[u], status, role).status = status
      BY <3>1, PatchedRow
    <3>3. \A v \in User : users[v].failed \in Nat
      BY <1>0 DEF TypeOK, Row
    <3> QED
      BY <1>0, <3>1, <3>2, <3>3 DEF TypeOK
  <2>2. CASE status = users[u].status
    BY <1>4, <1>b, <2>1, <2>2 DEF PatchUser
  <2>3. CASE status # users[u].status
    BY <1>4, <1>a, <2>1, <2>3 DEF PatchUser
  <2> QED
    BY <2>2, <2>3
<1>5. ASSUME NEW u \in User, UnlockUser(u) PROVE FailuresCounted'
  <2>1. \A v \in User : users'[v].failed \in Nat /\ (v # u => users'[v] = users[v])
    BY <1>0, <1>5, OtherRows DEF TypeOK, UnlockUser, Row
  <2> QED
    BY <1>5, <1>a, <2>1 DEF UnlockUser
<1>6. ASSUME NEW u \in User, ResetMfa(u) PROVE FailuresCounted'
  <2>1. \A v \in User : users'[v].failed = users[v].failed /\ users'[v].status = users[v].status
    BY <1>0, <1>6, OtherRows DEF TypeOK, ResetMfa
  <2> QED
    BY <1>6, <1>b, <2>1 DEF ResetMfa
<1>7. ASSUME UNCHANGED <<users, tries, barred, lost>> PROVE FailuresCounted'
  BY <1>7, <1>b
<1> QED
  BY <1>1, <1>2, <1>3, <1>4, <1>5, <1>6, <1>7
  DEF Next, vars, history, ReadForLogin, ReadForSignUp, ReadForSession, ReadForSignOut,
      SaveSessions, Aborts, ForgotPassword, ResendVerification, RequestToken, InsertToken,
      MailingAborts, TokenExpires, RevokeSessions, Refresh, SessionEnds, AccessExpires

----------------------------------------------------------------------------
(* The steps preserve what is said of tokens. *)

(* Every step keeps RequestsAlone: a request retires the older tokens       *)
(* before it inserts its own (password/forgot/route.ts:8,                   *)
(* email/resend/route.ts:9), and nothing else makes a token usable.         *)
LEMMA RequestsStep == ASSUME IInv, [Next]_vars PROVE RequestsAlone'
<1>0. TypeOK /\ RequestsAlone
  BY DEF IInv
<1>a. ASSUME \A n \in Mailing : mailing'[n] \in {mailing[n], Null}, UNCHANGED crossed,
             \A t \in Token : tokens'[t] \in {tokens[t], Null}
      PROVE  RequestsAlone'
  <2>1. ASSUME NEW u \in User, NEW k \in Kind
        PROVE  Usable(u, k)' \subseteq Usable(u, k)
    BY <1>a, NullAssumption DEF Usable, Owner
  <2>2. ASSUME NEW u \in User, NEW k \in Kind, NEW n \in Mailing,
               mailing'[n] = [user |-> u, kind |-> k]
        PROVE  mailing[n] = [user |-> u, kind |-> k]
    BY <1>a, <2>2, NullAssumption DEF Owner
  <2> SUFFICES ASSUME NEW u \in User, NEW k \in Kind, <<u, k>> \notin crossed
               PROVE  /\ \A t1, t2 \in Usable(u, k)' : t1 = t2
                      /\ \A n \in Mailing : mailing'[n] = [user |-> u, kind |-> k] =>
                            /\ Usable(u, k)' = {}
                            /\ \A o \in Mailing : mailing'[o] = [user |-> u, kind |-> k] => o = n
    BY <1>a DEF RequestsAlone
  <2> QED
    BY <1>0, <2>1, <2>2 DEF RequestsAlone
<1>1. ASSUME NEW m \in Mailing, NEW v \in User, NEW j \in Kind, RequestToken(m, v, j)
      PROVE  RequestsAlone'
  <2> DEFINE new == [user |-> v, kind |-> j]
  <2>1. ASSUME NEW u \in User, NEW k \in Kind
        PROVE  /\ Usable(u, k)' \subseteq Usable(u, k)
               /\ u = v /\ k = j => Usable(u, k)' = {}
    BY <1>1, NullAssumption DEF Usable, Owner, RequestToken, RetireOlder, Retired
  <2>2. /\ mailing[m] = Null
        /\ \A n \in Mailing : mailing'[n] = IF n = m THEN new ELSE mailing[n]
        /\ \A u \in User, k \in Kind : <<u, k>> \notin crossed' =>
              /\ <<u, k>> \notin crossed
              /\ u = v /\ k = j => \A n \in Mailing : mailing[n] # new
    BY <1>0, <1>1 DEF RequestToken, TypeOK
  <2> SUFFICES ASSUME NEW u \in User, NEW k \in Kind, <<u, k>> \notin crossed'
               PROVE  /\ \A t1, t2 \in Usable(u, k)' : t1 = t2
                      /\ \A n \in Mailing : mailing'[n] = [user |-> u, kind |-> k] =>
                            /\ Usable(u, k)' = {}
                            /\ \A o \in Mailing : mailing'[o] = [user |-> u, kind |-> k] => o = n
    BY DEF RequestsAlone
  <2>3. CASE u = v /\ k = j
    BY <2>1, <2>2, <2>3
  <2>4. CASE ~(u = v /\ k = j)
    BY <1>0, <2>1, <2>2, <2>4 DEF RequestsAlone
  <2> QED
    BY <2>3, <2>4
<1>2. ASSUME NEW m \in Mailing, InsertToken(m) PROVE RequestsAlone'
  <2>1. PICK t \in Token : tokens[t] = Null /\ tokens' = [tokens EXCEPT ![t] = mailing[m]]
    BY <1>2 DEF InsertToken
  <2>2. PICK v \in User, j \in Kind : mailing[m] = [user |-> v, kind |-> j]
    BY <1>0, <1>2 DEF InsertToken, TypeOK, Owner
  <2>3. ASSUME NEW u \in User, NEW k \in Kind
        PROVE  Usable(u, k)' = IF u = v /\ k = j THEN Usable(u, k) \cup {t} ELSE Usable(u, k)
    BY <1>0, <2>1, <2>2, NullAssumption DEF Usable, TypeOK, Owner
  <2>4. /\ \A n \in Mailing : mailing'[n] = IF n = m THEN Null ELSE mailing[n]
        /\ UNCHANGED crossed
    BY <1>0, <1>2 DEF InsertToken, TypeOK, history
  <2>5. \A u \in User, k \in Kind : Null # [user |-> u, kind |-> k]
    BY NullAssumption DEF Owner
  <2> SUFFICES ASSUME NEW u \in User, NEW k \in Kind, <<u, k>> \notin crossed
               PROVE  /\ \A t1, t2 \in Usable(u, k)' : t1 = t2
                      /\ \A n \in Mailing : mailing'[n] = [user |-> u, kind |-> k] =>
                            /\ Usable(u, k)' = {}
                            /\ \A o \in Mailing : mailing'[o] = [user |-> u, kind |-> k] => o = n
    BY <2>4 DEF RequestsAlone
  <2>6. CASE u = v /\ k = j
    BY <1>0, <2>2, <2>3, <2>4, <2>5, <2>6 DEF RequestsAlone
  <2>7. CASE ~(u = v /\ k = j)
    BY <1>0, <2>3, <2>4, <2>5, <2>7 DEF RequestsAlone
  <2> QED
    BY <2>6, <2>7
<1>3. ASSUME NEW m \in Mailing, MailingAborts(m) PROVE RequestsAlone'
  BY <1>0, <1>3, <1>a DEF MailingAborts, TypeOK, history
<1>4. ASSUME NEW t \in Token, TokenExpires(t) \/ VerifyEmail(t) \/ ResetPassword(t)
      PROVE  RequestsAlone'
  BY <1>4, <1>a DEF TokenExpires, VerifyEmail, ResetPassword, Retired, history
<1>5. ASSUME UNCHANGED <<mailing, tokens, crossed>> PROVE RequestsAlone'
  BY <1>5, <1>a
<1> QED
  BY <1>1, <1>2, <1>3, <1>4, <1>5
  DEF Next, vars, history, ReadForLogin, ReadForSignUp, SaveUsers, ReadForSession, ReadForSignOut,
      SaveSessions, Aborts, ForgotPassword, ResendVerification, Kind, PatchUser, UnlockUser,
      ResetMfa, RevokeSessions, Refresh, SessionEnds, AccessExpires

----------------------------------------------------------------------------
(* The theorems. *)

(* IInv holds in every reachable state.                                     *)
LEMMA Inductive == Spec => []IInv
<1>1. IInv /\ [Next]_vars => IInv'
  BY TypeStep, AttemptsStep, SavesStep, VersionsStep, PasswordsStep, DisabledStep, FailuresStep,
     RequestsStep
  DEF IInv
<1> QED
  BY <1>1, InitIInv, PTL DEF Spec

(* Every variable keeps its type, and no row holds a password that its      *)
(* owner has not chosen yet.                                                *)
THEOREM TypeCorrect == Spec => []TypeOK
<1>1. IInv => TypeOK
  BY DEF IInv
<1> QED
  BY <1>1, Inductive, PTL

(* A reset of the password ends every session and voids every access token  *)
(* of its account (password/reset/route.ts:7), unless a stale users table   *)
(* was saved, or stale sessions were saved for the account.                 *)
THEOREM ResetSignsOutAlways == Spec => []ResetSignsOut
<1>1. IInv => ResetSignsOut
  <2> SUFFICES ASSUME IInv, ~lost, NEW u \in User \ late
               PROVE  /\ \A s \in sessions : s.user = u => s.password = chosen[u]
                      /\ \A a \in access : a.user = u /\ Accepted(a) => a.password = chosen[u]
    BY DEF ResetSignsOut
  <2>1. \A s \in sessions : s.user = u => s.password = chosen[u]
    BY DEF IInv, PasswordsCurrent
  <2>2. ASSUME NEW a \in access, a.user = u, Accepted(a) PROVE a.password = chosen[u]
    <3>1. a.epoch \in Nat /\ epoch[u] \in Nat
      BY DEF IInv, TypeOK, Access
    <3>2. a.epoch + 1 = epoch[u] + 1
      BY <2>2 DEF IInv, VersionsCountEpochs, Accepted
    <3>3. a.epoch = epoch[u]
      BY <3>1, <3>2
    <3> QED
      BY <2>2, <3>3 DEF IInv, PasswordsCurrent
  <2> QED
    BY <2>1, <2>2
<1> QED
  BY <1>1, Inductive, PTL

(* An access token of an earlier epoch is never accepted again              *)
(* (http.ts:16), unless a sign-in saved a stale table.                      *)
THEOREM VoidTokensStayVoidAlways == Spec => []VoidTokensStayVoid
<1>1. IInv => VoidTokensStayVoid
  <2> SUFFICES ASSUME IInv, ~lost, NEW a \in access, Accepted(a)
               PROVE  a.epoch = epoch[a.user]
    BY DEF VoidTokensStayVoid
  <2>1. a.user \in User /\ a.epoch \in Nat /\ epoch[a.user] \in Nat
    BY DEF IInv, TypeOK, Access
  <2>2. a.epoch + 1 = epoch[a.user] + 1
    BY <2>1 DEF IInv, VersionsCountEpochs, Accepted
  <2> QED
    BY <2>1, <2>2
<1> QED
  BY <1>1, Inductive, PTL

(* An account an administrator disabled is not ACTIVE until one enables it, *)
(* unless a sign-in saved a stale table.                                    *)
THEOREM DisabledStaysOutAlways == Spec => []DisabledStaysOut
<1>1. IInv => DisabledStaysOut
  BY DEF IInv, DisabledStatus, DisabledStaysOut
<1> QED
  BY <1>1, Inductive, PTL

(* An account that FailureLimit failures in a row have locked               *)
(* (login/route.ts:13) is LOCKED until an administrator changes its status: *)
(* no reset, verification or later sign-in unlocks it, unless a sign-in     *)
(* saved a stale table.                                                     *)
THEOREM OnlyAdministratorUnlocksAlways == Spec => []OnlyAdministratorUnlocks
<1>1. IInv => OnlyAdministratorUnlocks
  BY DEF IInv, FailuresCounted, OnlyAdministratorUnlocks
<1> QED
  BY <1>1, Inductive, PTL

(* At most one token of a kind is usable for an account, unless two         *)
(* requests for it ran at once (password/forgot/route.ts:8).                *)
THEOREM OneLiveTokenAlways == Spec => []OneLiveToken
<1>1. IInv => OneLiveToken
  <2> SUFFICES ASSUME IInv, NEW u \in User, NEW k \in Kind, <<u, k>> \notin crossed
               PROVE  Cardinality(Usable(u, k)) <= 1
    BY DEF OneLiveToken
  <2>1. \A t1, t2 \in Usable(u, k) : t1 = t2
    BY DEF IInv, RequestsAlone
  <2>2. Usable(u, k) = {} \/ \E t : Usable(u, k) = {t}
    BY <2>1
  <2>3. Cardinality(Usable(u, k)) \in {0, 1}
    BY <2>2, FS_EmptySet, FS_Singleton
  <2> QED
    BY <2>3
<1> QED
  BY <1>1, Inductive, PTL
============================================================================
