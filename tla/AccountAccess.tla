--------------------------- MODULE AccountAccess ---------------------------
(***************************************************************************)
(* Who can use an account: signing in with a password and the lockout that *)
(* counts failures (app/api/auth/login), the tokens sent by mail that      *)
(* reset a password or verify an address (app/api/auth/{password,email}),  *)
(* the administrator's changes of role and status, and the sessions and    *)
(* access tokens that all of them must end or let through.                 *)
(*                                                                         *)
(* A sign-in reads the whole users table, checks the password, saves the   *)
(* whole table it read, then reads all the sessions and saves them with    *)
(* one more.  A sign-up does the same for a new account, and a sign-out    *)
(* saves all the sessions it read with some of them revoked.  Everything   *)
(* else changes rows it holds locked, in one transaction.                  *)
(***************************************************************************)
EXTENDS Naturals, FiniteSets

CONSTANTS
    User,
    Login,         \* sign-ins, sign-ups and sign-outs under way at once
    Mailing,       \* requests for a token under way at once
    Token,         \* tokens usable at once
    FailureLimit,  \* failures that lock an account; 5 in the code
    MaxEpoch,      \* bound on the changes that void an account's access tokens
    MaxHeld,       \* bound on the live sessions, and on the access tokens, held at once
    Null

Kind == {"reset", "verification"}

\* Whose token it is, and what it is for.
Owner == [user : User, kind : Kind]

ASSUME LimitAssumption == FailureLimit \in Nat \ {0}
ASSUME BoundAssumption == MaxEpoch \in Nat /\ MaxHeld \in Nat
ASSUME NullAssumption == Null \notin User \cup Owner

VARIABLES
    users,     \* the table users
    login,     \* sign-ins and sign-ups: the table each read and will save
    saving,    \* the sessions each sign-in, sign-up and sign-out read and will save
    mailing,   \* token requests that have retired the older tokens, not inserted theirs
    tokens,    \* password_reset_tokens and verification_tokens: the rows still usable
    sessions,  \* live refresh sessions; equal ones count once
    access,    \* access tokens that have not run out
    \* What has happened.  No step depends on it, but that epoch names passwords and is bounded.
    epoch,     \* resets of the password and changes of role, status or MFA
    chosen,    \* the password the owner chose last
    tries,     \* failures since a success, a reset or an administrator's change of status
    disabled,  \* accounts an administrator has disabled and nobody has enabled again
    barred,    \* accounts FailureLimit failures in a row have locked since an administrator's change
    lost,      \* a sign-in has saved a table that had changed since it read it
    late,      \* accounts with a session saved that was read before their password was reset
    crossed    \* token requests of one account and kind that ran at once

history == <<epoch, chosen, tries, disabled, barred, lost, late, crossed>>
vars == <<users, login, saving, mailing, tokens, sessions, access, history>>

----------------------------------------------------------------------------

Status == {"ACTIVE", "DISABLED", "LOCKED", "PENDING_VERIFICATION"}

\* A password is named by the epoch it was chosen in.  role and role_version are left
\* out: whoever changes them changes security_version too.
Row == [password : 0..MaxEpoch, security : Nat, status : Status,
        failed : 0..FailureLimit, locked : BOOLEAN, verified : BOOLEAN]

NewRow == [password |-> 0, security |-> 1, status |-> "ACTIVE",
           failed |-> 0, locked |-> FALSE, verified |-> FALSE]

Usable(u, k) == {t \in Token : tokens[t] = [user |-> u, kind |-> k]}

Retired(ts) == [t \in Token |-> IF t \in ts THEN Null ELSE tokens[t]]

\* authenticatedUser: the token's versions are those of the row, and the row is ACTIVE.
Accepted(a) == users[a.user].status = "ACTIVE" /\ a.security = users[a.user].security

\* The token carries the versions of the row that the handler has read.
AccessFor(u, row, e, password) ==
    [user |-> u, security |-> row.security, password |-> password, epoch |-> e]

IssueAccess(tokensIssued) ==
    /\ access' = access \cup tokensIssued
    /\ Cardinality(access') <= MaxHeld

Init ==
    /\ users = [u \in User |-> NewRow]
    /\ login = [l \in Login |-> Null]
    /\ saving = [l \in Login |-> Null]
    /\ mailing = [m \in Mailing |-> Null]
    /\ tokens = [t \in Token |-> Null]
    /\ sessions = {} /\ access = {}
    /\ epoch = [u \in User |-> 0] /\ chosen = [u \in User |-> 0] /\ tries = [u \in User |-> 0]
    /\ disabled = {} /\ barred = {} /\ lost = FALSE /\ late = {} /\ crossed = {}

----------------------------------------------------------------------------
(* Signing in. *)

OneMore(n) == IF n < FailureLimit THEN n + 1 ELSE n

\* Whatever the status was, the limit turns it into LOCKED.
FailureCounted(row) ==
    LET counted == [row EXCEPT !.failed = OneMore(@)]
    IN  IF counted.failed = FailureLimit THEN [counted EXCEPT !.status = "LOCKED", !.locked = TRUE]
                                         ELSE counted

Cleared(row) == [row EXCEPT !.failed = 0, !.locked = FALSE]

\* running: locked_until, where it is set, is still to come.
Admits(row, right, running) == right /\ row.status = "ACTIVE" /\ ~(row.locked /\ running)

Idle(l) == login[l] = Null /\ saving[l] = Null

ReadForLogin(l, u) ==
    /\ Idle(l)
    /\ \E right, running \in BOOLEAN :
          login' = [login EXCEPT ![l] =
              [user |-> u, ok |-> Admits(users[u], right, running), saved |-> FALSE,
               read |-> users, epoch |-> epoch[u], was |-> chosen[u]]]
    /\ UNCHANGED <<users, saving, mailing, tokens, sessions, access, history>>

\* createUser: the new account is none of User.
ReadForSignUp(l) ==
    /\ Idle(l)
    /\ login' = [login EXCEPT ![l] =
           [user |-> Null, ok |-> TRUE, saved |-> FALSE, read |-> users, epoch |-> 0, was |-> 0]]
    /\ UNCHANGED <<users, saving, mailing, tokens, sessions, access, history>>

Table(attempt) ==
    IF attempt.user = Null THEN attempt.read
    ELSE [attempt.read EXCEPT ![attempt.user] =
             IF attempt.ok THEN Cleared(@) ELSE FailureCounted(@)]

\* A refused sign-in ends with its save.
AfterSave(attempt) == IF attempt.ok THEN [attempt EXCEPT !.saved = TRUE] ELSE Null

\* saveUsers overwrites every row, with no condition on what it holds by now.
SaveUsers(l) ==
    /\ login[l] # Null /\ ~login[l].saved
    /\ users' = Table(login[l])
    /\ login' = [login EXCEPT ![l] = AfterSave(@)]
    /\ tries' = [u \in User |-> IF u # login[l].user THEN tries[u]
                               ELSE IF login[l].ok THEN 0 ELSE OneMore(tries[u])]
    /\ barred' = barred \cup {u \in User : u = login[l].user /\ tries'[u] = FailureLimit}
    /\ lost' = (lost \/ users # login[l].read)
    /\ UNCHANGED <<saving, mailing, tokens, sessions, access, epoch, chosen, disabled, late, crossed>>

\* issueAuthPair works on the account as the sign-in read it.
ReadForSession(l) ==
    /\ login[l] # Null /\ login[l].saved
    /\ saving' = [saving EXCEPT ![l] =
           IF login[l].user = Null
           THEN [opened |-> {}, issued |-> {}, gone |-> {}, kept |-> sessions, was |-> chosen]
           ELSE LET u == login[l].user
                    row == Table(login[l])[u]
                IN  [opened |-> {[user |-> u, password |-> row.password]},
                     issued |-> {AccessFor(u, row, login[l].epoch, row.password)},
                     gone |-> {}, kept |-> sessions,
                     was |-> [chosen EXCEPT ![u] = login[l].was]]]
    /\ login' = [login EXCEPT ![l] = Null]
    /\ UNCHANGED <<users, mailing, tokens, sessions, access, history>>

\* Logout and DELETE end one session, or none if another equals it; logout-all ends an
\* account's.
ReadForSignOut(l) ==
    /\ Idle(l)
    /\ \E gone \in {{}} \cup {{s} : s \in sessions}
                     \cup {{s \in sessions : s.user = u} : u \in User} :
          saving' = [saving EXCEPT ![l] =
              [opened |-> {}, issued |-> {}, gone |-> gone, kept |-> sessions \ gone, was |-> chosen]]
    /\ UNCHANGED <<users, login, mailing, tokens, sessions, access, history>>

\* What saveSessions writes as live.
Written(save) == save.opened \cup save.kept

\* saveSessions overwrites every row that was read, live ones as live; then the response
\* carries the access token.
SaveSessions(l) ==
    /\ saving[l] # Null
    /\ sessions' = (sessions \ saving[l].gone) \cup Written(saving[l])
    /\ Cardinality(sessions') <= MaxHeld
    /\ IssueAccess(saving[l].issued)
    /\ late' = late \cup {s.user : s \in {w \in Written(saving[l]) :
                                          saving[l].was[w.user] # chosen[w.user]}}
    /\ saving' = [saving EXCEPT ![l] = Null]
    /\ UNCHANGED <<users, login, mailing, tokens, epoch, chosen, tries, disabled, barred, lost, crossed>>

\* An error or the end of the process.
Aborts(l) ==
    /\ ~Idle(l)
    /\ login' = [login EXCEPT ![l] = Null]
    /\ saving' = [saving EXCEPT ![l] = Null]
    /\ UNCHANGED <<users, mailing, tokens, sessions, access, history>>

----------------------------------------------------------------------------
(* Tokens sent by mail. *)

\* Mutant: the older tokens of the account would stay usable.
NotRetired(u, k) == tokens' = tokens

RetireOlder(u, k) == tokens' = Retired(Usable(u, k))

RequestToken(m, u, k) ==
    /\ mailing[m] = Null
    /\ RetireOlder(u, k)
    /\ mailing' = [mailing EXCEPT ![m] = [user |-> u, kind |-> k]]
    /\ crossed' = IF \E n \in Mailing : mailing[n] = [user |-> u, kind |-> k]
                  THEN crossed \cup {<<u, k>>} ELSE crossed
    /\ UNCHANGED <<users, login, saving, sessions, access,
                   epoch, chosen, tries, disabled, barred, lost, late>>

\* Anybody who knows the address may ask for a reset.
ForgotPassword(m, u) == RequestToken(m, u, "reset")

ResendVerification(m, u) ==
    /\ \E a \in access : a.user = u /\ Accepted(a)
    /\ ~users[u].verified
    /\ RequestToken(m, u, "verification")

InsertToken(m) ==
    /\ mailing[m] # Null
    /\ \E t \in Token :
          /\ tokens[t] = Null
          /\ tokens' = [tokens EXCEPT ![t] = mailing[m]]
    /\ mailing' = [mailing EXCEPT ![m] = Null]
    /\ UNCHANGED <<users, login, saving, sessions, access, history>>

\* The second statement fails or the process ends: the older tokens stay retired.
MailingAborts(m) ==
    /\ mailing[m] # Null
    /\ mailing' = [mailing EXCEPT ![m] = Null]
    /\ UNCHANGED <<users, login, saving, tokens, sessions, access, history>>

\* expires_at passes.
TokenExpires(t) ==
    /\ tokens[t] # Null
    /\ tokens' = Retired({t})
    /\ UNCHANGED <<users, login, saving, mailing, sessions, access, history>>

\* Mutant: the reset would leave the account's sessions open.
SessionsKept(u) == sessions' = sessions

EndSessions(u) == sessions' = {s \in sessions : s.user # u}

\* Mutant: the reset would activate the account whatever its status.
WithPasswordActive(row, p) ==
    [Cleared(row) EXCEPT !.password = p, !.security = @ + 1, !.status = "ACTIVE"]

\* The failures are cleared; the status stays what it was, LOCKED too.
WithPassword(row, p) == [Cleared(row) EXCEPT !.password = p, !.security = @ + 1]

ResetPassword(t) ==
    /\ tokens[t] # Null /\ tokens[t].kind = "reset"
    /\ LET u == tokens[t].user
       IN  /\ epoch[u] < MaxEpoch
           /\ users' = [users EXCEPT ![u] = WithPassword(@, epoch[u] + 1)]
           /\ tokens' = Retired(Usable(u, "reset"))
           /\ EndSessions(u)
           /\ epoch' = [epoch EXCEPT ![u] = @ + 1]
           /\ chosen' = [chosen EXCEPT ![u] = epoch[u] + 1]
           /\ tries' = [tries EXCEPT ![u] = 0]
    /\ UNCHANGED <<login, saving, mailing, access, disabled, barred, lost, late, crossed>>

\* Mutant: the address would activate the account whatever its status.
VerifiedAlwaysActive(row) == [row EXCEPT !.verified = TRUE, !.status = "ACTIVE"]

Verified(row) ==
    [row EXCEPT !.verified = TRUE, !.status = IF @ = "PENDING_VERIFICATION" THEN "ACTIVE" ELSE @]

VerifyEmail(t) ==
    /\ tokens[t] # Null /\ tokens[t].kind = "verification"
    /\ users' = [users EXCEPT ![tokens[t].user] = Verified(@)]
    /\ tokens' = Retired({t})
    /\ UNCHANGED <<login, saving, mailing, sessions, access, history>>

----------------------------------------------------------------------------
(* The administrator. *)

\* Mutant: only a change of role would void the access tokens.
VoidedByRoleOnly(row, status, role) == IF role THEN row.security + 1 ELSE row.security

VoidingVersion(row, status, role) ==
    IF status # row.status \/ role THEN row.security + 1 ELSE row.security

Patched(row, status, role) ==
    [row EXCEPT !.status = status, !.security = VoidingVersion(row, status, role)]

\* PATCH; role: the request changes the role.  A request that changes nothing is left out.
PatchUser(u, status, role) ==
    /\ status # users[u].status \/ role
    /\ epoch[u] < MaxEpoch
    /\ users' = [users EXCEPT ![u] = Patched(@, status, role)]
    /\ epoch' = [epoch EXCEPT ![u] = @ + 1]
    /\ IF status = users[u].status
       THEN UNCHANGED <<disabled, barred, tries>>
       ELSE /\ disabled' = IF status = "DISABLED" THEN disabled \cup {u} ELSE disabled \ {u}
            /\ barred' = barred \ {u}
            /\ tries' = [tries EXCEPT ![u] = 0]
    /\ UNCHANGED <<login, saving, mailing, tokens, sessions, access, chosen, lost, late, crossed>>

\* Unlocking makes an account ACTIVE, whatever its status was.
Unlocked(row) == [Cleared(row) EXCEPT !.status = "ACTIVE"]

UnlockUser(u) ==
    /\ users' = [users EXCEPT ![u] = Unlocked(@)]
    /\ disabled' = disabled \ {u}
    /\ barred' = barred \ {u}
    /\ tries' = [tries EXCEPT ![u] = 0]
    /\ UNCHANGED <<login, saving, mailing, tokens, sessions, access, epoch, chosen, lost, late, crossed>>

WithoutMfa(row) == [row EXCEPT !.security = @ + 1]

ResetMfa(u) ==
    /\ epoch[u] < MaxEpoch
    /\ users' = [users EXCEPT ![u] = WithoutMfa(@)]
    /\ epoch' = [epoch EXCEPT ![u] = @ + 1]
    /\ UNCHANGED <<login, saving, mailing, tokens, sessions, access,
                   chosen, tries, disabled, barred, lost, late, crossed>>

RevokeSessions(u) ==
    /\ EndSessions(u)
    /\ UNCHANGED <<users, login, saving, mailing, tokens, access, history>>

----------------------------------------------------------------------------
(* Sessions and access tokens. *)

\* The refresh handler rereads the account under a lock and issues for what it finds.
Refresh(s) ==
    /\ users[s.user].status = "ACTIVE"
    /\ IssueAccess({AccessFor(s.user, users[s.user], epoch[s.user], s.password)})
    /\ UNCHANGED <<users, login, saving, mailing, tokens, sessions, history>>

\* The end of expires_at, or a refresh that finds the account not ACTIVE.
SessionEnds(s) ==
    /\ sessions' = sessions \ {s}
    /\ UNCHANGED <<users, login, saving, mailing, tokens, access, history>>

AccessExpires(a) ==
    /\ access' = access \ {a}
    /\ UNCHANGED <<users, login, saving, mailing, tokens, sessions, history>>

Next ==
    \/ \E l \in Login :
          \/ \E u \in User : ReadForLogin(l, u)
          \/ ReadForSignUp(l) \/ SaveUsers(l) \/ ReadForSession(l)
          \/ ReadForSignOut(l) \/ SaveSessions(l) \/ Aborts(l)
    \/ \E m \in Mailing :
          \/ \E u \in User : ForgotPassword(m, u) \/ ResendVerification(m, u)
          \/ InsertToken(m) \/ MailingAborts(m)
    \/ \E t \in Token : TokenExpires(t) \/ ResetPassword(t) \/ VerifyEmail(t)
    \/ \E u \in User :
          \/ \E status \in Status, role \in BOOLEAN : PatchUser(u, status, role)
          \/ UnlockUser(u) \/ ResetMfa(u) \/ RevokeSessions(u)
    \/ \E s \in sessions : Refresh(s) \/ SessionEnds(s)
    \/ \E a \in access : AccessExpires(a)

Spec == Init /\ [][Next]_vars

----------------------------------------------------------------------------
(* Properties. *)

Session == [user : User, password : 0..MaxEpoch]

Access == [user : User, security : Nat, password : 0..MaxEpoch, epoch : 0..MaxEpoch]

Attempt == [user : User \cup {Null}, ok : BOOLEAN, saved : BOOLEAN, read : [User -> Row],
            epoch : 0..MaxEpoch, was : 0..MaxEpoch]

SessionSave == [opened : SUBSET Session, issued : SUBSET Access, gone : SUBSET Session,
                kept : SUBSET Session, was : [User -> 0..MaxEpoch]]

(* Types; a password never comes from a later epoch than the account is in. *)
TypeOK ==
    /\ users \in [User -> Row]
    /\ login \in [Login -> Attempt \cup {Null}]
    /\ \A l \in Login : login[l] # Null /\ login[l].saved => login[l].ok
    /\ saving \in [Login -> SessionSave \cup {Null}]
    /\ mailing \in [Mailing -> Owner \cup {Null}]
    /\ tokens \in [Token -> Owner \cup {Null}]
    /\ sessions \subseteq Session /\ access \subseteq Access
    /\ epoch \in [User -> 0..MaxEpoch] /\ chosen \in [User -> 0..MaxEpoch]
    /\ tries \in [User -> 0..FailureLimit]
    /\ disabled \subseteq User /\ barred \subseteq User /\ lost \in BOOLEAN /\ late \subseteq User
    /\ crossed \subseteq User \X Kind
    /\ \A u \in User : users[u].password <= chosen[u] /\ chosen[u] <= epoch[u]

(* A reset of the password signs its account out everywhere: no live        *)
(* session and no accepted access token goes back to an older password,     *)
(* unless a stale users table was saved, or sessions were saved for it that *)
(* had been read, or whose password had been checked, before the reset.     *)
ResetSignsOut ==
    ~lost => \A u \in User \ late :
        /\ \A s \in sessions : s.user = u => s.password = chosen[u]
        /\ \A a \in access : a.user = u /\ Accepted(a) => a.password = chosen[u]

(* An access token from before a reset, a disablement, a demotion or a      *)
(* reset of MFA is never accepted again, not even when the account is       *)
(* enabled or promoted again, unless a stale table was saved.               *)
VoidTokensStayVoid ==
    ~lost => \A a \in access : Accepted(a) => a.epoch = epoch[a.user]

(* An account an administrator disabled stays out until an administrator    *)
(* enables it, although failed sign-ins turn DISABLED into LOCKED and a     *)
(* verified address turns PENDING_VERIFICATION into ACTIVE.                 *)
DisabledStaysOut == ~lost => \A u \in disabled : users[u].status # "ACTIVE"

(* An account that FailureLimit failures in a row have locked stays LOCKED  *)
(* until an administrator unlocks it or sets its status: neither the end of *)
(* locked_until, nor a reset of the password, nor a verified address lets   *)
(* it in, unless a stale table was saved.  docs/authentication-procedure.md *)
(* says otherwise: it is locked "for the configured lock period" (line 230) *)
(* and a reset clears its "lock state" (line 318).                          *)
OnlyAdministratorUnlocks == ~lost => \A u \in barred : users[u].status = "LOCKED"

(* A newer token replaces the older ones: at most one of a kind works for   *)
(* an account, unless two requests for it ran at once.                      *)
OneLiveToken ==
    \A u \in User, k \in Kind : <<u, k>> \notin crossed => Cardinality(Usable(u, k)) <= 1

(* docs/authentication-procedure.md, 8.2: after a reset "The user must sign *)
(* in again on every device."  Does not hold: a sign-in with the old        *)
(* password, or a sign-out of anybody, that was under way saves the session *)
(* after the reset revoked the account's sessions, and nothing ends it.     *)
MustSignInAgain == \A s \in sessions : s.password = chosen[s.user]
============================================================================
