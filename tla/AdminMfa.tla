------------------------------ MODULE AdminMfa ------------------------------
(***************************************************************************)
(* Administrator MFA: set-up of a secret, its confirmation, the challenge  *)
(* at sign-in, recovery codes and re-authentication.  A request reads its  *)
(* administrator once and copies the security version into the token it    *)
(* answers with, several awaits later.  The confirmation checks a code     *)
(* against the secret it read and then, in a transaction, confirms         *)
(* whatever secret is there.                                               *)
(*                                                                         *)
(* An administrator resets the MFA of another in a transaction; a sign-in  *)
(* saves the whole users table as it read it.                              *)
(***************************************************************************)
EXTENDS Naturals, FiniteSets

CONSTANTS
    Admin,       \* administrators
    Handler,     \* requests in flight at the same time
    Login,       \* sign-ins in flight at the same time
    Null,        \* nothing read
    CodeCount,   \* recovery codes of an enrolment
    MaxBatch,    \* bound on the confirmations
    MaxToken,    \* bound on the access tokens
    MaxReset     \* bound on the resets of an account

ASSUME BoundAssumption ==
    CodeCount \in Nat /\ MaxBatch \in Nat \ {0} /\ MaxToken \in Nat /\ MaxReset \in Nat
ASSUME NullAssumption == Null \notin [Admin -> [version : Nat, enrolled : BOOLEAN]]

VARIABLES
    users,       \* security_version and mfa_enrolled_at of each administrator
    secret,      \* the row of each in admin_mfa_secrets, by its confirmed_at
    codes,       \* the unused rows of mfa_recovery_codes
    tokens,      \* the access tokens with the mfa claim that have been answered
    assurances,  \* admin_reauth_assurances that have not expired: token ids
    work,        \* what each request is about to do
    login,       \* the users table each sign-in is going to save
    last,        \* the numbers drawn last, of confirmations and tokens
    verified,    \* history: administrators whose present secret a code has been checked against
    resets,      \* history: how often the MFA of each administrator was reset
    crossed,     \* history: administrators whose set-up or reset overtook a confirmation
    lost         \* history: administrators whose row a stale save has overwritten

tables == <<users, secret, codes, tokens, assurances>>
history == <<verified, resets, crossed, lost>>
vars == <<tables, work, login, last, history>>

Route == {"confirm", "challenge", "recovery", "reauth"}
Row == [version : Nat, enrolled : BOOLEAN]
Secret == {"none", "pending", "confirmed"}
Code == [user : Admin, batch : 1..MaxBatch, n : 1..CodeCount, proof : 0..MaxReset]

(* spent is the recovery code that a token was got for; proof numbers the  *)
(* reset after which its holder proved to have the secret.                 *)
Token == [id : 1..MaxToken, user : Admin, version : Nat, spent : SUBSET Code, proof : 0..MaxReset, reauth : BOOLEAN]

Work == [at : Route \cup {"idle", "verified", "confirming", "reauth recovery", "assuring", "assured", "answering"},
         user : Admin \cup {Null}, version : Nat, spent : SUBSET Code, proof : 0..MaxReset,
         held : BOOLEAN, gone : SUBSET Code, token : 0..MaxToken]

CodesOf(u) == {c \in codes : c.user = u}
Batch(u, b, proof) == [user : {u}, batch : {b}, n : 1..CodeCount, proof : {proof}]

Idle == [at |-> "idle", user |-> Null, version |-> 0, spent |-> {}, proof |-> 0,
         held |-> FALSE, gone |-> {}, token |-> 0]

(* Nobody has MFA yet, or everybody has enrolled. *)
Init ==
    /\ \E enrolled \in BOOLEAN :
          /\ users = [u \in Admin |-> [version |-> 0, enrolled |-> enrolled]]
          /\ secret = [u \in Admin |-> IF enrolled THEN "confirmed" ELSE "none"]
          /\ codes = IF enrolled THEN UNION {Batch(u, 1, 0) : u \in Admin} ELSE {}
          /\ verified = IF enrolled THEN Admin ELSE {}
          /\ last = [batch |-> IF enrolled THEN 1 ELSE 0, token |-> 0]
    /\ tokens = {} /\ assurances = {}
    /\ work = [h \in Handler |-> Idle]
    /\ login = [l \in Login |-> Null]
    /\ resets = [u \in Admin |-> 0] /\ crossed = {} /\ lost = {}

-----------------------------------------------------------------------------
(* Requests of an administrator for the own account. *)

(* requireUser: the account is read once. *)
Begin(h, u, route) ==
    /\ work[h].at = "idle"
    /\ work' = [work EXCEPT ![h] = [Idle EXCEPT !.at = route, !.user = u, !.version = users[u].version]]
    /\ UNCHANGED <<tables, login, last, history>>

(* A refusal, an error of the database or of what is awaited, the end of   *)
(* the process: what was committed stays.                                  *)
Abort(h) ==
    /\ work[h].at # "idle"
    /\ work' = [work EXCEPT ![h] = Idle]
    /\ UNCHANGED <<tables, login, last, history>>

Confirming(u) == \E g \in Handler : work[g].user = u /\ work[g].at \in {"verified", "confirming"}

(* A confirmation has locked the row of the secret. *)
SecretLocked(u) == \E g \in Handler : work[g].user = u /\ work[g].at = "confirming" /\ work[g].held

(* A confirmation in its transaction has deleted the code. *)
CodeLocked(c) == \E g \in Handler : work[g].at = "confirming" /\ c \in work[g].gone

(* The enrolment and its codes stay as they are until the confirmation.    *)
beginSetup(u) ==
    /\ ~SecretLocked(u)
    /\ secret' = [secret EXCEPT ![u] = "pending"]
    /\ verified' = verified \ {u}
    /\ crossed' = IF Confirming(u) THEN crossed \cup {u} ELSE crossed
    /\ UNCHANGED <<users, codes, tokens, assurances, work, login, last, resets, lost>>

VerifyPending(h) ==
    LET u == work[h].user
    IN  /\ work[h].at = "confirm" /\ secret[u] = "pending"
        /\ verified' = verified \cup {u}
        /\ work' = [work EXCEPT ![h].at = "verified", ![h].proof = resets[u]]
        /\ UNCHANGED <<tables, login, last, resets, crossed, lost>>

(* The mutant confirms without deleting the codes of the enrolment before. *)
StartConfirmationKeepingCodes(h) ==
    /\ work[h].at = "verified" /\ ~SecretLocked(work[h].user)
    /\ work' = [work EXCEPT ![h].at = "confirming", ![h].held = secret[work[h].user] # "none"]
    /\ UNCHANGED <<tables, login, last, history>>

(* The transaction's UPDATE and DELETE; it locks the rows that it finds.   *)
StartConfirmation(h) ==
    /\ work[h].at = "verified" /\ ~SecretLocked(work[h].user)
    /\ work' = [work EXCEPT ![h].at = "confirming", ![h].held = secret[work[h].user] # "none",
                            ![h].gone = CodesOf(work[h].user)]
    /\ UNCHANGED <<tables, login, last, history>>

CommitConfirmation(h) ==
    LET u == work[h].user
    IN  /\ work[h].at = "confirming" /\ last.batch < MaxBatch
        /\ last' = [last EXCEPT !.batch = @ + 1]
        /\ secret' = IF work[h].held THEN [secret EXCEPT ![u] = "confirmed"] ELSE secret
        /\ codes' = (codes \ work[h].gone) \cup Batch(u, last.batch + 1, work[h].proof)
        /\ users' = [users EXCEPT ![u].enrolled = TRUE]
        /\ work' = [work EXCEPT ![h].at = "answering", ![h].held = FALSE, ![h].gone = {}]
        /\ UNCHANGED <<tokens, assurances, login, history>>

(* A code of the confirmed secret, for a challenge or to re-authenticate.  *)
checkTotp(h) ==
    /\ work[h].at \in {"challenge", "reauth"} /\ secret[work[h].user] = "confirmed"
    /\ work' = [work EXCEPT ![h].at = IF @ = "reauth" THEN "assuring" ELSE "answering",
                            ![h].proof = resets[work[h].user]]
    /\ UNCHANGED <<tables, login, last, history>>

(* Re-authentication tries what is no code of the secret as a recovery code. *)
TryRecovery(h) ==
    /\ work[h].at = "reauth"
    /\ work' = [work EXCEPT ![h].at = "reauth recovery"]
    /\ UNCHANGED <<tables, login, last, history>>

(* The mutant leaves the code usable. *)
LeaveRecoveryCode(h, c) ==
    /\ work[h].at \in {"recovery", "reauth recovery"} /\ c \in CodesOf(work[h].user) /\ ~CodeLocked(c)
    /\ work' = [work EXCEPT ![h].at = IF @ = "recovery" THEN "answering" ELSE "assuring",
                            ![h].spent = {c}, ![h].proof = c.proof]
    /\ UNCHANGED <<tables, login, last, history>>

consumeRecoveryCode(h, c) ==
    /\ work[h].at \in {"recovery", "reauth recovery"} /\ c \in CodesOf(work[h].user) /\ ~CodeLocked(c)
    /\ codes' = codes \ {c}
    /\ work' = [work EXCEPT ![h].at = IF @ = "recovery" THEN "answering" ELSE "assuring",
                            ![h].spent = {c}, ![h].proof = c.proof]
    /\ UNCHANGED <<users, secret, tokens, assurances, login, last, history>>

(* Re-authentication draws its token and inserts the assurance of it; only *)
(* then, and if the audit succeeds, the token is answered.                 *)
Assure(h) ==
    /\ work[h].at = "assuring" /\ last.token < MaxToken
    /\ last' = [last EXCEPT !.token = @ + 1]
    /\ assurances' = assurances \cup {last.token + 1}
    /\ work' = [work EXCEPT ![h].at = "assured", ![h].token = last.token + 1]
    /\ UNCHANGED <<users, secret, codes, tokens, login, history>>

NewToken(h, id, version) ==
    [id |-> id, user |-> work[h].user, version |-> version, spent |-> work[h].spent,
     proof |-> work[h].proof, reauth |-> work[h].at = "assured"]

Answer(h) ==
    /\ \/ /\ work[h].at = "answering" /\ last.token < MaxToken
          /\ last' = [last EXCEPT !.token = @ + 1]
          /\ tokens' = tokens \cup {NewToken(h, last.token + 1, work[h].version)}
       \/ /\ work[h].at = "assured"
          /\ tokens' = tokens \cup {NewToken(h, work[h].token, work[h].version)}
          /\ UNCHANGED last
    /\ work' = [work EXCEPT ![h] = Idle]
    /\ UNCHANGED <<users, secret, codes, assurances, login, history>>

-----------------------------------------------------------------------------
(* What happens to the account and its tokens meanwhile. *)

(* The mutant does not move the security version. *)
WithoutMfaSameVersion(row) == [row EXCEPT !.enrolled = FALSE]

WithoutMfa(row) == [version |-> row.version + 1, enrolled |-> FALSE]

(* The transaction waits for the rows a confirmation has locked; the guard *)
(* of the last administrator is AdminGuard's.                              *)
ResetMfa(u) ==
    /\ resets[u] < MaxReset /\ ~SecretLocked(u) /\ \A c \in CodesOf(u) : ~CodeLocked(c)
    /\ users' = [users EXCEPT ![u] = WithoutMfa(@)]
    /\ secret' = [secret EXCEPT ![u] = "none"]
    /\ codes' = codes \ CodesOf(u)
    /\ resets' = [resets EXCEPT ![u] = @ + 1]
    /\ crossed' = IF Confirming(u) THEN crossed \cup {u} ELSE crossed
    /\ verified' = verified \ {u}
    /\ UNCHANGED <<tokens, assurances, work, login, last, lost>>

ReadUsers(l) ==
    /\ login[l] = Null
    /\ login' = [login EXCEPT ![l] = users]
    /\ UNCHANGED <<tables, work, last, history>>

SaveUsers(l) ==
    /\ login[l] # Null
    /\ users' = login[l]
    /\ lost' = lost \cup {u \in Admin : users[u] # login[l][u]}
    /\ login' = [login EXCEPT ![l] = Null]
    /\ UNCHANGED <<secret, codes, tokens, assurances, work, last, verified, resets, crossed>>

AssuranceExpires(id) ==
    /\ id \in assurances
    /\ assurances' = assurances \ {id}
    /\ UNCHANGED <<users, secret, codes, tokens, work, login, last, history>>

Next ==
    \/ \E h \in Handler :
          \/ \E u \in Admin, route \in Route : Begin(h, u, route)
          \/ VerifyPending(h) \/ StartConfirmation(h) \/ CommitConfirmation(h)
          \/ checkTotp(h) \/ TryRecovery(h) \/ \E c \in codes : consumeRecoveryCode(h, c)
          \/ Assure(h) \/ Answer(h) \/ Abort(h)
    \/ \E u \in Admin : beginSetup(u) \/ ResetMfa(u)
    \/ \E l \in Login : ReadUsers(l) \/ SaveUsers(l)
    \/ \E id \in assurances : AssuranceExpires(id)

Spec == Init /\ [][Next]_vars

-----------------------------------------------------------------------------
(* Properties. *)

(* Types of the tables, requests and histories.                            *)
TypeOK ==
    /\ users \in [Admin -> Row] /\ secret \in [Admin -> Secret] /\ codes \subseteq Code
    /\ tokens \subseteq Token /\ assurances \subseteq 1..MaxToken
    /\ work \in [Handler -> Work]
    /\ login \in [Login -> [Admin -> Row] \cup {Null}]
    /\ last \in [batch : 0..MaxBatch, token : 0..MaxToken]
    /\ verified \subseteq Admin /\ resets \in [Admin -> 0..MaxReset]
    /\ crossed \subseteq Admin /\ lost \subseteq Admin

(* Unless a set-up or a reset overtook a confirmation (confirmSetup reads  *)
(* outside of its transaction): a confirmed secret is one that a code was  *)
(* checked against, and the unused codes are of one enrolment.  Unless a   *)
(* stale save overwrote the row as well: who has a confirmed secret or     *)
(* codes is enrolled, and who is enrolled has a secret.                    *)
EnrolmentConsistent ==
    \A u \in Admin \ crossed :
        /\ secret[u] = "confirmed" => u \in verified
        /\ \A c, d \in CodesOf(u) : c.batch = d.batch
        /\ u \notin lost => /\ secret[u] = "confirmed" \/ CodesOf(u) # {} => users[u].enrolled
                            /\ users[u].enrolled => secret[u] # "none"

(* A reset of MFA ends what was proved before it: with the two exceptions  *)
(* above, an accepted token with the mfa claim was got for a secret, or a  *)
(* recovery code of a secret, that was proved after the last reset.        *)
ResetEndsProofs ==
    \A t \in tokens : t.user \notin crossed \cup lost /\ t.version = users[t.user].version =>
        t.proof = resets[t.user]

(* A recovery code gives one token, whatever requests present it, and is   *)
(* never usable again; what requireRecentAdmin accepts is the one token of *)
(* a re-authentication.                                                    *)
ProofsCountOnce ==
    /\ \A s, t \in tokens : (s.spent \cap t.spent # {} \/ s.id = t.id) => s = t
    /\ \A t \in tokens : t.spent \cap codes = {}
    /\ \A t \in tokens : t.id \in assurances => t.reauth
    /\ \A h \in Handler :
          /\ work[h].spent \cap codes = {}
          /\ \A t \in tokens : work[h].spent \cap t.spent = {}
          /\ \A g \in Handler : g # h => work[g].spent \cap work[h].spent = {}
=============================================================================
