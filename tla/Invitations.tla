---------------------------- MODULE Invitations ----------------------------
(***************************************************************************)
(* Invitations: an administrator creates, resends or revokes one, its      *)
(* token travels by mail, and whoever presents token and address redeems   *)
(* it for an account.                                                      *)
(*                                                                         *)
(* Creating, resending and redeeming are transactions followed by work     *)
(* that no transaction covers: the mail with its outbox row, or the first  *)
(* session.  Any number of handlers run at once.  A row that a transaction *)
(* has locked makes every other writer of that row wait; a handler that    *)
(* has only looked for rows locks nothing.                                 *)
(***************************************************************************)
EXTENDS Naturals, Sequences, FiniteSets

CONSTANTS
    Address,         \* normalised e-mail addresses
    Role,            \* roles in use
    Handler,         \* requests being handled at the same time
    Nobody,          \* no address
    MaxInvitations,  \* bound on the rows
    MaxToken,        \* bound on the tokens drawn
    MaxTroubled      \* bound on the invitations whose handlers fail

ASSUME BoundAssumption == MaxInvitations \in Nat /\ MaxToken \in Nat /\ MaxTroubled \in Nat
ASSUME RoleAssumption == "USER" \in Role /\ Role \subseteq {"USER", "ADMIN"}
ASSUME NobodyAssumption == Nobody \notin Address

VARIABLES
    invitations,  \* the rows; a row's id is its place
    users,        \* the accounts; invitation 0 for those that signed up
    sessions,     \* the accounts that redeeming has signed in
    handler,      \* what each request is about to do
    lastToken,    \* tokens are random; here they are numbered
    provider,     \* whether mail leaves the server
    inbox,        \* tokens that reached an address
    outbox,       \* rows of email_outbox; the table keeps no token
    accepted,     \* history: redemptions, in the order they committed
    overlapped,   \* history: addresses of two creations at the same time
    troubled      \* history: invitations whose handler failed

vars == <<invitations, users, sessions, handler, lastToken, provider, inbox, outbox, accepted, overlapped, troubled>>

mail == <<provider, inbox, outbox>>

Invitation ==
    [email : Address, role : Role, token : 1..MaxToken, used : BOOLEAN, revoked : BOOLEAN, expired : BOOLEAN]
Account == [email : Address, role : Role, invitation : 0..MaxInvitations]
Redemption == [invitation : 1..MaxInvitations, token : 1..MaxToken, email : Address, role : Role]

Ids == DOMAIN invitations

Idle == [at |-> "idle", invitation |-> 0, token |-> 0, email |-> Nobody, role |-> "USER"]
Work(at, i, token, email, role) == [at |-> at, invitation |-> i, token |-> token, email |-> email, role |-> role]

Open(i) == ~invitations[i].used /\ ~invitations[i].revoked
Live(i) == Open(i) /\ ~invitations[i].expired

Locked(i) == \E h \in Handler : handler[h].at = "redeeming" /\ handler[h].invitation = i

Init ==
    /\ invitations = <<>> /\ users = {} /\ sessions = {}
    /\ handler = [h \in Handler |-> Idle]
    /\ lastToken = 0
    /\ provider \in {"smtp", "log"} /\ inbox = {} /\ outbox = {}
    /\ accepted = <<>> /\ overlapped = {} /\ troubled = {}

----------------------------------------------------------------------------
(* Creating an invitation.                                                 *)

\* Mutant: the active invitations would not be looked for.
NothingLookedFor(email) == TRUE

\* The rows found are locked, so that the search waits for a redemption of one.
NoneActive(email) == \A i \in Ids : invitations[i].email = email => ~Live(i) /\ ~Locked(i)

\* Two creations for one address that have both looked and not yet inserted.
LookFor(h) ==
    /\ handler[h].at = "idle"
    /\ \E email \in Address, role \in Role :
          /\ NoneActive(email)
          /\ handler' = [handler EXCEPT ![h] = Work("inserting", 0, 0, email, role)]
          /\ overlapped' = IF \E g \in Handler : handler[g].at = "inserting" /\ handler[g].email = email
                           THEN overlapped \cup {email} ELSE overlapped
    /\ UNCHANGED <<invitations, users, sessions, lastToken, mail, accepted, troubled>>

Insert(h) ==
    /\ handler[h].at = "inserting"
    /\ Len(invitations) < MaxInvitations /\ lastToken < MaxToken
    /\ lastToken' = lastToken + 1
    /\ invitations' = Append(invitations,
          [email |-> handler[h].email, role |-> handler[h].role, token |-> lastToken + 1,
           used |-> FALSE, revoked |-> FALSE, expired |-> FALSE])
    /\ handler' = [handler EXCEPT ![h] = Work("mailing", Len(invitations) + 1, lastToken + 1, handler[h].email, handler[h].role)]
    /\ UNCHANGED <<users, sessions, mail, accepted, overlapped, troubled>>

Create(h) == LookFor(h) \/ Insert(h)

(* Resending: the transaction only writes rows it has locked.              *)

\* Mutant: the token of the last mail would be used once more.
ResendLastToken(h) ==
    /\ handler[h].at = "idle"
    /\ \E i \in Ids :
          /\ Live(i) /\ ~Locked(i)
          /\ invitations' = [invitations EXCEPT ![i].token = lastToken]
          /\ handler' = [handler EXCEPT ![h] = Work("mailing", i, lastToken, invitations[i].email, invitations[i].role)]
    /\ UNCHANGED <<users, sessions, lastToken, mail, accepted, overlapped, troubled>>

Resend(h) ==
    /\ handler[h].at = "idle" /\ lastToken < MaxToken
    /\ \E i \in Ids :
          /\ Live(i) /\ ~Locked(i)
          /\ invitations' = [invitations EXCEPT ![i].token = lastToken + 1]
          /\ handler' = [handler EXCEPT ![h] = Work("mailing", i, lastToken + 1, invitations[i].email, invitations[i].role)]
    /\ lastToken' = lastToken + 1
    /\ UNCHANGED <<users, sessions, mail, accepted, overlapped, troubled>>

\* Mutant: revoking would not look at used_at.
RevokeUsed(i) ==
    /\ ~invitations[i].revoked /\ ~Locked(i)
    /\ invitations' = [invitations EXCEPT ![i].revoked = TRUE]
    /\ UNCHANGED <<users, sessions, handler, lastToken, mail, accepted, overlapped, troubled>>

\* One statement; an expired invitation can be revoked too.
Revoke(i) ==
    /\ Open(i) /\ ~Locked(i)
    /\ invitations' = [invitations EXCEPT ![i].revoked = TRUE]
    /\ UNCHANGED <<users, sessions, handler, lastToken, mail, accepted, overlapped, troubled>>

----------------------------------------------------------------------------
(* queueEmail, which sends before it records and is never called again.    *)

Finish(h) == handler' = [handler EXCEPT ![h] = Idle]

NotSent(h) ==
    /\ handler[h].at = "mailing" /\ provider = "log"
    /\ Finish(h)
    /\ UNCHANGED <<invitations, users, sessions, lastToken, mail, accepted, overlapped, troubled>>

Arrives(h) == inbox' = inbox \cup {<<handler[h].email, handler[h].token>>}
Records(h, status) == outbox' = outbox \cup {[recipient |-> handler[h].email, token |-> handler[h].token, status |-> status]}

\* Mutant: the row would not wait for the mail server's answer.
SendUnawaited(h) ==
    /\ handler[h].at = "mailing" /\ provider = "smtp"
    /\ handler' = [handler EXCEPT ![h].at = "recording"]
    /\ UNCHANGED <<invitations, users, sessions, lastToken, mail, accepted, overlapped, troubled>>

Send(h) ==
    /\ handler[h].at = "mailing" /\ provider = "smtp"
    /\ Arrives(h)
    /\ handler' = [handler EXCEPT ![h].at = "recording"]
    /\ UNCHANGED <<invitations, users, sessions, lastToken, provider, outbox, accepted, overlapped, troubled>>

Record(h) ==
    /\ handler[h].at = "recording"
    /\ Records(h, "SENT")
    /\ Finish(h)
    /\ UNCHANGED <<invitations, users, sessions, lastToken, provider, inbox, accepted, overlapped, troubled>>

\* Something fails while h works on an invitation.
Trouble(h) ==
    /\ troubled' = IF handler[h].invitation = 0 THEN troubled ELSE troubled \cup {handler[h].invitation}
    /\ Cardinality(troubled') <= MaxTroubled

\* The server refuses the mail, or its confirmation is lost, or the row cannot be written.
SendFails(h) ==
    /\ provider = "smtp"
    /\ \/ handler[h].at = "mailing" /\ (UNCHANGED inbox \/ Arrives(h))
       \/ handler[h].at = "recording" /\ UNCHANGED inbox
    /\ Records(h, "FAILED")
    /\ Finish(h) /\ Trouble(h)
    /\ UNCHANGED <<invitations, users, sessions, lastToken, provider, accepted, overlapped>>

queueEmail(h) == NotSent(h) \/ Send(h) \/ Record(h) \/ SendFails(h)

----------------------------------------------------------------------------
(* Redeeming.  A password is hashed between the checks and the inserts.    *)

Taken(email) == \E u \in users : u.email = email

Redeem(h) ==
    /\ handler[h].at = "idle"
    /\ \E i \in Ids :
          /\ Live(i) /\ ~Locked(i) /\ ~Taken(invitations[i].email)
          /\ handler' = [handler EXCEPT ![h] =
                Work("redeeming", i, invitations[i].token, invitations[i].email, invitations[i].role)]
    /\ UNCHANGED <<invitations, users, sessions, lastToken, mail, accepted, overlapped, troubled>>

\* The unique index rejects an address that has meanwhile got an account.
Join(h) ==
    /\ handler[h].at = "redeeming"
    /\ LET i == handler[h].invitation
       IN  IF Taken(handler[h].email)
           THEN Finish(h) /\ UNCHANGED <<invitations, users, accepted>>
           ELSE /\ users' = users \cup {[email |-> handler[h].email, role |-> handler[h].role, invitation |-> i]}
                /\ invitations' = [invitations EXCEPT ![i].used = TRUE]
                /\ accepted' = Append(accepted, [invitation |-> i, token |-> handler[h].token,
                                                 email |-> handler[h].email, role |-> handler[h].role])
                /\ handler' = [handler EXCEPT ![h].at = "signing in"]
    /\ UNCHANGED <<sessions, lastToken, mail, overlapped, troubled>>

\* The session has a transaction of its own; the account may be gone by then.
OpenSession(h) ==
    /\ handler[h].at = "signing in"
    /\ sessions' = sessions \cup {u \in users : u.invitation = handler[h].invitation}
    /\ Finish(h)
    /\ UNCHANGED <<invitations, users, lastToken, mail, accepted, overlapped, troubled>>

----------------------------------------------------------------------------
(* What happens to a handler, and around it.                               *)

\* A statement fails, or the process ends: an open transaction is rolled back.
Fail(h) ==
    /\ handler[h].at # "idle"
    /\ Finish(h) /\ Trouble(h)
    /\ UNCHANGED <<invitations, users, sessions, lastToken, mail, accepted, overlapped>>

Expire(i) ==
    /\ Live(i)
    /\ invitations' = [invitations EXCEPT ![i].expired = TRUE]
    /\ UNCHANGED <<users, sessions, handler, lastToken, mail, accepted, overlapped, troubled>>

SignUp(email) ==
    /\ ~Taken(email)
    /\ users' = users \cup {[email |-> email, role |-> "USER", invitation |-> 0]}
    /\ UNCHANGED <<invitations, sessions, handler, lastToken, mail, accepted, overlapped, troubled>>

\* Deletion is final here; AdminGuard has the sign-in that saves a deleted account again.
DeleteAccount(u) ==
    /\ users' = users \ {u} /\ sessions' = sessions \ {u}
    /\ UNCHANGED <<invitations, handler, lastToken, mail, accepted, overlapped, troubled>>

Next ==
    \/ \E h \in Handler : Create(h) \/ Resend(h) \/ queueEmail(h) \/ Redeem(h) \/ Join(h) \/ OpenSession(h) \/ Fail(h)
    \/ \E i \in Ids : Revoke(i) \/ Expire(i)
    \/ \E email \in Address : SignUp(email)
    \/ \E u \in users : DeleteAccount(u)

Spec == Init /\ [][Next]_vars

----------------------------------------------------------------------------
(* Properties.                                                             *)

\* The tables and the handlers have their types, and no two invitations share a
\* token: whatever is resent, a link leads to one invitation.
TypeOK ==
    /\ invitations \in Seq(Invitation) /\ Len(invitations) <= MaxInvitations
    /\ users \subseteq Account /\ sessions \subseteq users
    /\ handler \in [Handler -> [at : {"idle", "inserting", "mailing", "recording", "redeeming", "signing in"},
                                invitation : 0..MaxInvitations, token : 0..MaxToken,
                                email : Address \cup {Nobody}, role : Role]]
    /\ lastToken \in 0..MaxToken /\ provider \in {"smtp", "log"}
    /\ inbox \subseteq Address \X (1..MaxToken)
    /\ outbox \subseteq [recipient : Address, token : 1..MaxToken, status : {"SENT", "FAILED"}]
    /\ accepted \in Seq(Redemption) /\ overlapped \subseteq Address /\ troubled \subseteq 1..MaxInvitations
    /\ \A i, j \in Ids : invitations[i].token = invitations[j].token => i = j

\* An invitation makes one account at most, for its own address and role, and
\* for the link sent last; one that was revoked makes none, before or after; an
\* address has one account, however many links are redeemed for it at once.  The
\* account is signed in unless its handler is still at it or failed.
SpentOnce ==
    /\ \A i \in Ids : ~(invitations[i].used /\ invitations[i].revoked)
    /\ \A i \in Ids : invitations[i].used <=> \E k \in DOMAIN accepted : accepted[k].invitation = i
    /\ \A k, l \in DOMAIN accepted : accepted[k].invitation = accepted[l].invitation => k = l
    /\ \A k \in DOMAIN accepted :
          LET i == accepted[k].invitation
          IN  i \in Ids /\ accepted[k] = [invitation |-> i, token |-> invitations[i].token,
                                          email |-> invitations[i].email, role |-> invitations[i].role]
    /\ \A u \in users : u.invitation # 0 =>
          \E k \in DOMAIN accepted : /\ accepted[k].invitation = u.invitation
                                     /\ accepted[k].email = u.email /\ accepted[k].role = u.role
    /\ \A u, v \in users : u.email = v.email => u = v
    /\ \A u \in users : \/ u.invitation \in troubled \cup {0} \/ u \in sessions
                        \/ \E h \in Handler : handler[h].at = "signing in" /\ handler[h].invitation = u.invitation

\* Duplicate active invitations of an address come only from two creations that
\* looked for one at the same time.
OneActiveUnlessOverlapped ==
    \A i, j \in Ids : Live(i) /\ Live(j) /\ invitations[i].email = invitations[j].email =>
        i = j \/ invitations[i].email \in overlapped

\* Where mail is sent, the link that works has reached the address, unless its
\* handler is still at it or failed, whichever of several resends was delivered
\* last.  The outbox says SENT of delivered mail only, and has a row for all of it.
WorkingLinkArrives ==
    provider = "smtp" =>
        /\ \A i \in Ids :
              \/ <<invitations[i].email, invitations[i].token>> \in inbox
              \/ i \in troubled
              \/ \E h \in Handler : handler[h].at = "mailing" /\ handler[h].token = invitations[i].token
        /\ \A r \in outbox : r.status = "SENT" => <<r.recipient, r.token>> \in inbox
        /\ \A m \in inbox : \/ \E r \in outbox : r.recipient = m[1] /\ r.token = m[2]
                            \/ \E h \in Handler : handler[h].at = "recording" /\ handler[h].token = m[2]
                            \/ troubled # {}
=============================================================================
