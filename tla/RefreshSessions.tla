-------------------------- MODULE RefreshSessions --------------------------
(***************************************************************************)
(* The refresh_sessions table of the authentication control plane, and     *)
(* every request handler that writes it.                                   *)
(*                                                                         *)
(* Two kinds of writer share the table.                                    *)
(*   - Transactions (refresh, password reset, administrator revocation,    *)
(*     account deletion) lock the rows they decide on, so each is one      *)
(*     atomic step.                                                        *)
(*   - Whole-table writers (login, sign-up, logout, logout-all, deletion   *)
(*     of one session) read the whole table with sessions(), change the    *)
(*     list in memory and hand it to saveSessions, which upserts EVERY row *)
(*     of the list.  Anything may happen between the read and the save.    *)
(*                                                                         *)
(* A session, its row id and its refresh token are one value: a row never  *)
(* changes its token, so whoever holds the token names the row.  A random  *)
(* token_family is represented by the session that opened the family.      *)
(***************************************************************************)

CONSTANTS
    User,       \* accounts
    Session,    \* identities of refresh_sessions rows
    Request,    \* whole-table requests in flight at the same time
    Null        \* NULL: no successor, no account

ASSUME NullAssumption == Null \notin Session

VARIABLES
    status,     \* users.status of each account, as far as sessions depend on it
    rows,       \* refresh_sessions: a function on the ids now in the table
    expired,    \* sessions whose expires_at has passed
    issued,     \* every session ever created: its token may be presented
    pending,    \* the whole-table requests
    audit,      \* the last refresh event in audit_events
    lost,       \* history: some save overwrote a row that had changed since it was read
    ended       \* history: families that a sign-out, a reset or a reuse has ended

vars == <<status, rows, expired, issued, pending, audit, lost, ended>>

(* INACTIVE stands for DISABLED, LOCKED and PENDING_VERIFICATION, which the handlers
   treat alike; DELETED means that no users row exists. *)
Status == {"ACTIVE", "INACTIVE", "DELETED"}

Row == [user : User, family : Session, revoked : BOOLEAN, next : Session \cup {Null}]

NewRow(u, f) == [user |-> u, family |-> f, revoked |-> FALSE, next |-> Null]

Revoked(row) == [row EXCEPT !.revoked = TRUE]


(* The table after UPDATE ... SET revoked_at=now() of the rows in ids. *)
Revoke(table, ids) == [s \in DOMAIN table |-> IF s \in ids THEN Revoked(table[s]) ELSE table[s]]

(* INSERT ... ON CONFLICT (id) DO UPDATE for every row of list. *)
Upsert(table, list) == [s \in DOMAIN table \cup DOMAIN list |->
                            IF s \in DOMAIN list THEN list[s] ELSE table[s]]

OwnedBy(table, u) == {s \in DOMAIN table : table[s].user = u}
InFamily(table, f) == {s \in DOMAIN table : table[s].family = f}
Live(table) == {s \in DOMAIN table : ~table[s].revoked}
Families(table, ids) == {table[s].family : s \in ids}

Empty == [s \in {} |-> Null]
Idle == [phase |-> "idle", user |-> Null, read |-> Empty, list |-> Empty]

-----------------------------------------------------------------------------
Init ==
    /\ status \in [User -> {"ACTIVE"}]
    /\ rows = Empty
    /\ expired = {}
    /\ issued = {}
    /\ pending = [r \in Request |-> Idle]
    /\ audit = Null
    /\ lost = FALSE
    /\ ended = {}

-----------------------------------------------------------------------------
(* Whole-table requests: authenticate, read and change the list, save it. *)

(* The password, or the access token, of an ACTIVE account has been accepted. *)
Authenticate(r, u) ==
    /\ pending[r] = Idle
    /\ status[u] = "ACTIVE"
    /\ pending' = [pending EXCEPT ![r] = [Idle EXCEPT !.phase = "authenticated", !.user = u]]
    /\ UNCHANGED <<status, rows, expired, issued, audit, lost, ended>>

(* await sessions(), and the change of the list up to the await of saveSessions. *)
ReadAndChange(r, list) ==
    pending' = [pending EXCEPT ![r] = [@ EXCEPT !.phase = "saving", !.read = rows, !.list = list]]

(* issueAuthPair: one more row, in a family of its own. *)
ReadForLogin(r, s) ==
    /\ pending[r].phase = "authenticated"
    /\ s \notin issued
    /\ ReadAndChange(r, Upsert(rows, [x \in {s} |-> NewRow(pending[r].user, s)]))
    /\ issued' = issued \cup {s}
    /\ UNCHANGED <<status, rows, expired, audit, lost, ended>>

ReadForLogoutAll(r) ==
    /\ pending[r].phase = "authenticated"
    /\ ReadAndChange(r, Revoke(rows, OwnedBy(rows, pending[r].user)))
    /\ UNCHANGED <<status, rows, expired, issued, audit, lost, ended>>

(* DELETE /sessions/[id]: only a live session of the caller is found. *)
ReadForSessionDelete(r, s) ==
    /\ pending[r].phase = "authenticated"
    /\ s \in OwnedBy(rows, pending[r].user) \cap Live(rows)
    /\ ReadAndChange(r, Revoke(rows, {s}))
    /\ UNCHANGED <<status, rows, expired, issued, audit, lost, ended>>

(* Logout authenticates nobody: the refresh cookie alone selects the session. *)
ReadForLogout(r, s) ==
    /\ pending[r] = Idle
    /\ s \in Live(rows)
    /\ ReadAndChange(r, Revoke(rows, {s}))
    /\ UNCHANGED <<status, rows, expired, issued, audit, lost, ended>>

(* The sessions whose revocation is what the request is about. *)
Revoking(p) == {s \in DOMAIN p.read : p.list[s] # p.read[s]}

(* A row of the list changed in the table since the list was read. *)
Stale(p) == \E s \in DOMAIN p.read : s \notin DOMAIN rows \/ rows[s] # p.read[s]

(* saveSessions.  Re-inserting a row of a deleted account violates the foreign key and
   rolls the whole save back (Abort). *)
Save(r) ==
    LET p == pending[r] IN
    /\ p.phase = "saving"
    /\ \A s \in DOMAIN p.list \ DOMAIN rows : status[p.list[s].user] # "DELETED"
    /\ rows' = Upsert(rows, p.list)
    /\ lost' = (lost \/ Stale(p))
    /\ ended' = ended \cup Families(p.read, Revoking(p))
    /\ pending' = [pending EXCEPT ![r] = Idle]
    /\ UNCHANGED <<status, expired, issued, audit>>

(* A database error, the end of the process, or a refused request. *)
Abort(r) ==
    /\ pending[r] # Idle
    /\ pending' = [pending EXCEPT ![r] = Idle]
    /\ UNCHANGED <<status, rows, expired, issued, audit, lost, ended>>

-----------------------------------------------------------------------------
(* Transactions. *)

(* Mutant: expiry is not looked at. *)
InvalidUnlessExpired(s) == rows[s].revoked \/ status[rows[s].user] # "ACTIVE"

(* The token presented is refused: its session is over, or its account is not ACTIVE. *)
Invalid(s) == rows[s].revoked \/ s \in expired \/ status[rows[s].user] # "ACTIVE"

(* A refused token whose session has a successor is taken for a concurrent refresh. *)
Concurrent(s) == rows[s].revoked /\ rows[s].next # Null

(* Mutants: the successor opens a family of its own; the presented token stays live; it is
   revoked without a link to its successor. *)
RotatedIntoNewFamily(s, n) ==
    Upsert(rows, [x \in {s, n} |-> IF x = n THEN NewRow(rows[s].user, n)
                                   ELSE [Revoked(rows[s]) EXCEPT !.next = n]])
RotatedWithoutRevoking(s, n) ==
    Upsert(rows, [x \in {n} |-> NewRow(rows[s].user, rows[s].family)])
RotatedWithoutLink(s, n) ==
    Upsert(rows, [x \in {s, n} |-> IF x = n THEN NewRow(rows[s].user, rows[s].family)
                                   ELSE Revoked(rows[s])])

(* Rotation: the successor n joins the family, the presented session ends. *)
Rotated(s, n) ==
    Upsert(rows, [x \in {s, n} |-> IF x = n THEN NewRow(rows[s].user, rows[s].family)
                                   ELSE [Revoked(rows[s]) EXCEPT !.next = n]])

RefreshRotate(s, n) ==
    /\ s \in DOMAIN rows
    /\ ~Invalid(s)
    /\ n \notin issued
    /\ rows' = Rotated(s, n)
    /\ issued' = issued \cup {n}
    /\ UNCHANGED <<status, expired, pending, audit, lost, ended>>

RefreshConcurrent(s) ==
    /\ s \in DOMAIN rows
    /\ Concurrent(s)
    /\ audit' = <<"refresh_concurrent_rejected", s>>
    /\ UNCHANGED <<status, rows, expired, issued, pending, lost, ended>>

(* Mutant: the family is recorded as reused and left as it is. *)
RefreshReuseAuditOnly(s) ==
    /\ s \in DOMAIN rows
    /\ Invalid(s) /\ ~Concurrent(s)
    /\ audit' = <<"refresh_reuse_or_invalid", s>>
    /\ ended' = ended \cup {rows[s].family}
    /\ UNCHANGED <<status, rows, expired, issued, pending, lost>>

RefreshReuse(s) ==
    /\ s \in DOMAIN rows
    /\ Invalid(s) /\ ~Concurrent(s)
    /\ rows' = Revoke(rows, InFamily(rows, rows[s].family))
    /\ audit' = <<"refresh_reuse_or_invalid", s>>
    /\ ended' = ended \cup {rows[s].family}
    /\ UNCHANGED <<status, expired, issued, pending, lost>>

(* Password reset, and an administrator's revocation of an account's sessions: both lock
   the users row, then revoke what is live. *)
RevokeUserSessions(u) ==
    /\ status[u] # "DELETED"
    /\ rows' = Revoke(rows, OwnedBy(rows, u))
    /\ ended' = ended \cup Families(rows, OwnedBy(rows, u))
    /\ UNCHANGED <<status, expired, issued, pending, audit, lost>>

(* Redeeming an invitation inserts the first session of the account it has created. *)
RedeemInvitation(u, s) ==
    /\ status[u] = "ACTIVE"
    /\ OwnedBy(rows, u) = {}
    /\ s \notin issued
    /\ rows' = Upsert(rows, [x \in {s} |-> NewRow(u, s)])
    /\ issued' = issued \cup {s}
    /\ UNCHANGED <<status, expired, pending, audit, lost, ended>>

(* Deleting an account cascades to its sessions. *)
DeleteUser(u) ==
    /\ status[u] # "DELETED"
    /\ status' = [status EXCEPT ![u] = "DELETED"]
    /\ rows' = [s \in DOMAIN rows \ OwnedBy(rows, u) |-> rows[s]]
    /\ UNCHANGED <<expired, issued, pending, audit, lost, ended>>

-----------------------------------------------------------------------------
(* What other components and time do to this one. *)

(* Administrators change the status, failed logins lock it; no session is touched. *)
ChangeStatus(u) ==
    /\ status[u] # "DELETED"
    /\ status' = [status EXCEPT ![u] = IF @ = "ACTIVE" THEN "INACTIVE" ELSE "ACTIVE"]
    /\ UNCHANGED <<rows, expired, issued, pending, audit, lost, ended>>

(* A login that read the users before the deletion re-inserts the account (saveUsers). *)
RestoreUser(u) ==
    /\ status[u] = "DELETED"
    /\ status' = [status EXCEPT ![u] = "ACTIVE"]
    /\ UNCHANGED <<rows, expired, issued, pending, audit, lost, ended>>

Expire(s) ==
    /\ s \in DOMAIN rows \ expired
    /\ expired' = expired \cup {s}
    /\ UNCHANGED <<status, rows, issued, pending, audit, lost, ended>>

RequestStep(r) ==
    \/ \E u \in User : Authenticate(r, u)
    \/ \E s \in Session : \/ ReadForLogin(r, s)
                          \/ ReadForSessionDelete(r, s)
                          \/ ReadForLogout(r, s)
    \/ ReadForLogoutAll(r)
    \/ Save(r)
    \/ Abort(r)

RefreshStep(s) ==
    \/ \E n \in Session : RefreshRotate(s, n)
    \/ RefreshConcurrent(s)
    \/ RefreshReuse(s)
    \/ Expire(s)

AccountStep(u) ==
    \/ RevokeUserSessions(u)
    \/ \E s \in Session : RedeemInvitation(u, s)
    \/ DeleteUser(u)
    \/ ChangeStatus(u)
    \/ RestoreUser(u)

Next ==
    \/ \E r \in Request : RequestStep(r)
    \/ \E s \in Session : RefreshStep(s)
    \/ \E u \in User : AccountStep(u)

Spec == Init /\ [][Next]_vars

-----------------------------------------------------------------------------
(* Properties. *)

IsTable(t, ids) == DOMAIN t \subseteq ids /\ t \in [DOMAIN t -> Row]

(* Types; a row's id is always one that was issued, in the table and in every list that is
   still to be saved. *)
TypeOK ==
    /\ status \in [User -> Status]
    /\ issued \subseteq Session
    /\ IsTable(rows, issued)
    /\ expired \subseteq issued
    /\ DOMAIN pending = Request
    /\ \A r \in Request :
          /\ DOMAIN pending[r] = {"phase", "user", "read", "list"}
          /\ pending[r].phase \in {"idle", "authenticated", "saving"}
          /\ pending[r].user \in IF pending[r].phase = "authenticated" THEN User ELSE User \cup {Null}
          /\ IsTable(pending[r].read, issued) /\ IsTable(pending[r].list, issued)
    /\ audit \in {Null} \cup ({"refresh_concurrent_rejected", "refresh_reuse_or_invalid"} \X Session)
    /\ lost \in BOOLEAN
    /\ ended \subseteq Session

(* The rotation chain.  A session that names a successor is over; the successor's row
   exists, in the same account and family; and no two sessions share a successor.  It
   holds whatever stale lists are saved, also across deletion and restoration. *)
ChainOK ==
    /\ \A s \in DOMAIN rows : rows[s].next # Null =>
           LET n == rows[s].next IN
           /\ rows[s].revoked
           /\ n \in DOMAIN rows \ {s}
           /\ rows[n].user = rows[s].user
           /\ rows[n].family = rows[s].family
    /\ \A s, t \in DOMAIN rows : rows[s].next = rows[t].next /\ rows[s].next # Null => s = t

(* At most one refresh token of a family is live: the promise of rotation.  It holds as
   long as no saveSessions has overwritten a row that had changed since it was read. *)
OneLivePerFamily ==
    ~lost => \A s, t \in Live(rows) : rows[s].family = rows[t].family => s = t

(* A family ended by a sign-out, a password reset, an administrator or a reuse has no
   live token ever again, under the same condition. *)
EndedStaysEnded ==
    ~lost => \A s \in Live(rows) : rows[s].family \notin ended

(* A family grows only by rotation: its new token replaces a live, unexpired token of an
   ACTIVE account, and in the same step that token is revoked and linked to it.  Rows that
   come back with a stale list were issued before. *)
GrowsOnlyByRotation ==
    [][\A n \in DOMAIN rows' \ issued :
           rows'[n].family # n =>
               \E s \in DOMAIN rows :
                   /\ rows[s].family = rows'[n].family
                   /\ ~rows[s].revoked /\ s \notin expired /\ status[rows[s].user] = "ACTIVE"
                   /\ rows'[s].revoked /\ rows'[s].next = n]_vars

(* Revoking the family on reuse finds nothing to revoke but the presented token itself:
   every token that is over and has no successor is the last of its family.  Only a lost
   update leaves a second live token for the family revocation to catch. *)
FamilyRevocationIsIdle ==
    [][\A s \in DOMAIN rows :
           ~lost /\ RefreshReuse(s) => InFamily(rows, rows[s].family) \cap Live(rows) \subseteq {s}]_vars

(* README: "Reuse or replay of a refresh token revokes its token family": whenever a
   refused refresh is recorded for a session, its family has no live token left. *)
ReuseRevokesFamily ==
    [][\A s \in DOMAIN rows :
           audit' # audit /\ audit'[2] = s =>
               InFamily(rows', rows[s].family) \cap Live(rows') = {}]_vars
=============================================================================
