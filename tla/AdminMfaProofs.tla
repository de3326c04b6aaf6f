--------------------------- MODULE AdminMfaProofs ---------------------------
(***************************************************************************)
(* Proofs about AdminMfa, for any administrators, requests and sign-ins    *)
(* and any numbers of codes, enrolments, tokens and resets.                *)
(*                                                                         *)
(* The argument: numbers are drawn once, so what was spent or answered     *)
(* never comes back (NumbersInv); the security version counts the resets,  *)
(* and what a request has proved is not older than the version it read     *)
(* (ProofInv); a confirmation that nothing overtook still finds the secret *)
(* it checked and holds it alone (ConfirmInv).                             *)
(***************************************************************************)
EXTENDS AdminMfa, TLAPS

At(h, x) == work[h].at = x
InConfirmation(h) == At(h, "verified") \/ At(h, "confirming")
HasProved(h) == At(h, "answering") \/ At(h, "assuring") \/ At(h, "assured")

(* Codes, tokens and assurances have numbers that were drawn, an assured   *)
(* token one of its own.                                                   *)
NumbersInv ==
    /\ \A c \in codes : c.batch <= last.batch
    /\ \A h \in Handler : \A c \in work[h].spent : c.batch <= last.batch
    /\ \A t \in tokens : t.id <= last.token /\ \A c \in t.spent : c.batch <= last.batch
    /\ \A i \in assurances : i <= last.token
    /\ \A h \in Handler : ~HasProved(h) => work[h].spent = {}
    /\ \A h \in Handler : At(h, "assured") =>
          /\ work[h].token \in 1..last.token
          /\ \A t \in tokens : t.id # work[h].token
          /\ \A g \in Handler : At(g, "assured") /\ work[g].token = work[h].token => g = h

(* Versions count resets; proofs are of the present, unless crossed.       *)
ProofInv ==
    /\ \A u \in Admin \ lost : users[u].version = resets[u]
    /\ \A c \in codes : c.user \notin crossed => c.proof = resets[c.user]
    /\ \A h \in Handler : ~At(h, "idle") =>
          /\ work[h].user \in Admin
          /\ work[h].user \notin crossed /\ InConfirmation(h) => work[h].proof = resets[work[h].user]
          /\ work[h].user \notin crossed \cup lost =>
                /\ work[h].version <= resets[work[h].user]
                /\ HasProved(h) => work[h].version <= work[h].proof /\ work[h].proof <= resets[work[h].user]
    /\ \A t \in tokens : t.user \notin crossed \cup lost =>
          t.version <= t.proof /\ t.proof <= resets[t.user]

(* What a confirmation relies on, as long as nothing overtakes it.         *)
ConfirmInv ==
    /\ \A h \in Handler : InConfirmation(h) /\ work[h].user \notin crossed =>
          secret[work[h].user] # "none" /\ work[h].user \in verified
    /\ \A h \in Handler : At(h, "confirming") /\ work[h].user \notin crossed =>
          work[h].held /\ CodesOf(work[h].user) \subseteq work[h].gone
    /\ \A g, h \in Handler : At(g, "confirming") /\ At(h, "confirming") /\ work[g].held /\ work[h].held
                             /\ work[g].user = work[h].user => g = h

IInv == TypeOK /\ NumbersInv /\ ProofInv /\ ConfirmInv /\ ProofsCountOnce /\ EnrolmentConsistent

-----------------------------------------------------------------------------
(* Lemmas. *)

(* A batch of codes has its type, its number and its owner.                *)
LEMMA BatchShape ==
    ASSUME NEW u \in Admin, NEW b \in 1..MaxBatch, NEW proof \in 0..MaxReset
    PROVE  /\ Batch(u, b, proof) \subseteq Code
           /\ \A c \in Batch(u, b, proof) : c.user = u /\ c.batch = b /\ c.proof = proof
BY DEF Batch, Code

(* A request that waits has its type.                                      *)
LEMMA IdleShape == Idle \in Work /\ Idle.at = "idle" /\ Idle.spent = {}
BY BoundAssumption DEF Idle, Work

(* Initially all of it holds.                                              *)
LEMMA InitHolds == Init => IInv
<1> SUFFICES ASSUME Init PROVE IInv
    OBVIOUS
<1>1. PICK enrolled \in BOOLEAN :
          /\ users = [u \in Admin |-> [version |-> 0, enrolled |-> enrolled]]
          /\ secret = [u \in Admin |-> IF enrolled THEN "confirmed" ELSE "none"]
          /\ codes = IF enrolled THEN UNION {Batch(u, 1, 0) : u \in Admin} ELSE {}
          /\ verified = IF enrolled THEN Admin ELSE {}
          /\ last = [batch |-> IF enrolled THEN 1 ELSE 0, token |-> 0]
      BY DEF Init
<1>2. /\ tokens = {} /\ assurances = {} /\ work = [h \in Handler |-> Idle] /\ login = [l \in Login |-> Null]
      /\ resets = [u \in Admin |-> 0] /\ crossed = {} /\ lost = {}
      BY DEF Init
<1>3. \A c \in codes : c \in Code /\ c.batch = 1 /\ c.proof = 0 /\ c.user \in Admin /\ enrolled
    <2> SUFFICES ASSUME NEW c \in codes PROVE c \in Code /\ c.batch = 1 /\ c.proof = 0 /\ c.user \in Admin /\ enrolled
        OBVIOUS
    <2>1. PICK u \in Admin : c \in Batch(u, 1, 0) /\ enrolled  BY <1>1
    <2>2. 1 \in 1..MaxBatch /\ 0 \in 0..MaxReset  BY BoundAssumption
    <2> QED  BY <2>1, <2>2, BatchShape
<1>4. \A h \in Handler : work[h] = Idle /\ work[h].at = "idle" /\ work[h].spent = {} /\ work[h] \in Work
      BY <1>2, IdleShape
<1>5. TypeOK
    <2>1. users \in [Admin -> Row] /\ secret \in [Admin -> Secret] /\ codes \subseteq Code
          BY <1>1, <1>3 DEF Row, Secret
    <2>2. work \in [Handler -> Work] /\ login \in [Login -> [Admin -> Row] \cup {Null}]
          BY <1>2, <1>4
    <2>3. last \in [batch : 0..MaxBatch, token : 0..MaxToken] /\ resets \in [Admin -> 0..MaxReset]
          BY <1>1, <1>2, BoundAssumption
    <2> QED  BY <1>1, <1>2, <2>1, <2>2, <2>3 DEF TypeOK
<1>6. NumbersInv  BY <1>1, <1>2, <1>3, <1>4 DEF NumbersInv, At, HasProved
<1>7. ProofInv  BY <1>1, <1>2, <1>3, <1>4 DEF ProofInv, At
<1>8. ConfirmInv  BY <1>1, <1>2, <1>4 DEF ConfirmInv, At, InConfirmation
<1>9. ProofsCountOnce  BY <1>2, <1>4 DEF ProofsCountOnce
<1>10. EnrolmentConsistent  BY <1>1, <1>2, <1>3 DEF EnrolmentConsistent, CodesOf
<1> QED  BY <1>5, <1>6, <1>7, <1>8, <1>9, <1>10 DEF IInv

(* One request goes on. *)
LEMMA HandlerStep ==
    ASSUME TypeOK, NEW h \in Handler, NEW w \in Work, work' = [work EXCEPT ![h] = w]
    PROVE  work' \in [Handler -> Work] /\ work'[h] = w /\ \A g \in Handler : g # h => work'[g] = work[g]
BY DEF TypeOK

(* A step that only moves a request, to where it has proved and spent      *)
(* nothing and holds nothing.                                              *)
LEMMA OnlyWork ==
    ASSUME IInv, NEW h \in Handler, NEW w \in Work, work' = [work EXCEPT ![h] = w],
           UNCHANGED <<users, secret, codes, tokens, assurances, login, last, resets, crossed, lost>>,
           verified \subseteq verified', verified' \subseteq Admin,
           w.at # "assured", w.spent = {},
           w.at # "idle" => w.user \in Admin,
           w.at # "idle" /\ w.user \notin crossed \cup lost => w.version <= resets[w.user],
           w.at \in {"answering", "assuring"} /\ w.user \notin crossed \cup lost =>
               w.version <= w.proof /\ w.proof <= resets[w.user],
           w.at \in {"verified", "confirming"} /\ w.user \notin crossed =>
               w.proof = resets[w.user] /\ secret[w.user] # "none" /\ w.user \in verified',
           w.at = "confirming" /\ w.user \notin crossed => w.held /\ CodesOf(w.user) \subseteq w.gone,
           w.at = "confirming" /\ w.held => ~SecretLocked(w.user)
    PROVE  IInv'
<1>0. TypeOK /\ NumbersInv /\ ProofInv /\ ConfirmInv /\ ProofsCountOnce /\ EnrolmentConsistent  BY DEF IInv
<1>1. work' \in [Handler -> Work] /\ work'[h] = w /\ \A g \in Handler : g # h => work'[g] = work[g]
      BY <1>0, HandlerStep
<1>2. TypeOK'  BY <1>0, <1>1 DEF TypeOK
<1>3. NumbersInv'  BY <1>0, <1>1 DEF NumbersInv, At, HasProved
<1>4. ProofInv'  BY <1>0, <1>1 DEF ProofInv, At, InConfirmation, HasProved
<1>5. ConfirmInv'
    <2>1. \A g \in Handler : g # h /\ At(g, "confirming") /\ work[g].held /\ w.at = "confirming" /\ w.held => work[g].user # w.user
          BY DEF SecretLocked, At
    <2>2. CodesOf(w.user)' = CodesOf(w.user) /\ \A g \in Handler : CodesOf(work[g].user)' = {c \in codes : c.user = work'[g].user}
          BY DEF CodesOf
    <2> QED  BY <1>0, <1>1, <2>1, <2>2 DEF ConfirmInv, At, InConfirmation, CodesOf
<1>6. ProofsCountOnce'  BY <1>0, <1>1 DEF ProofsCountOnce
<1>7. EnrolmentConsistent'  BY <1>0 DEF EnrolmentConsistent, CodesOf
<1> QED  BY <1>2, <1>3, <1>4, <1>5, <1>6, <1>7 DEF IInv

(* A request begins, is refused, or goes on to the next check.             *)
LEMMA Begun ==
    ASSUME IInv, NEW h \in Handler, NEW u \in Admin, NEW route \in Route, Begin(h, u, route)
    PROVE  IInv'
<1> DEFINE w == [Idle EXCEPT !.at = route, !.user = u, !.version = users[u].version]
<1>0. TypeOK /\ ProofInv  BY DEF IInv
<1>1. users[u] \in Row /\ users[u].version \in Nat  BY <1>0 DEF TypeOK, Row
<1>2. w \in Work /\ w.at = route /\ w.spent = {} /\ w.user = u /\ w.version = users[u].version
    <2> DEFINE v == users[u].version
    <2>1. v \in Nat  BY <1>1
    <2> HIDE DEF v
    <2>2. LET x == [Idle EXCEPT !.at = route, !.user = u, !.version = v]
          IN  x \in Work /\ x.at = route /\ x.spent = {} /\ x.user = u /\ x.version = v
          BY <2>1, IdleShape DEF Work
    <2> QED  BY <2>2 DEF v
<1>3. /\ work' = [work EXCEPT ![h] = w] /\ UNCHANGED <<users, secret, codes, tokens, assurances, login, last, resets, crossed, lost>>
      /\ verified' = verified
      BY DEF Begin, tables, history
<1>4. u \notin lost => w.version <= resets[u]  BY <1>0, <1>2 DEF ProofInv, TypeOK
<1> HIDE DEF w
<1>5. w.at \notin {"idle", "assured", "answering", "assuring", "verified", "confirming"}  BY <1>2 DEF Route
<1>6. verified' \subseteq Admin  BY <1>0, <1>3 DEF TypeOK
<1> QED  BY <1>2, <1>3, <1>4, <1>5, <1>6, OnlyWork

\* A request that is given up leaves the tables as they were.
LEMMA Aborted ==
    ASSUME IInv, NEW h \in Handler, Abort(h)
    PROVE  IInv'
<1>1. /\ work' = [work EXCEPT ![h] = Idle] /\ UNCHANGED <<users, secret, codes, tokens, assurances, login, last, resets, crossed, lost>>
      /\ verified' = verified
      BY DEF Abort, tables, history
<1>2. verified' \subseteq Admin  BY <1>1 DEF IInv, TypeOK
<1> QED  BY <1>1, <1>2, IdleShape, OnlyWork

(* The work of a request that goes on, by its fields.                      *)
LEMMA Going ==
    ASSUME IInv, NEW h \in Handler, work[h].at # "idle"
    PROVE  /\ work[h] \in Work /\ work[h].user \in Admin /\ secret[work[h].user] \in Secret
           /\ resets[work[h].user] \in 0..MaxReset /\ MaxReset \in Nat
           /\ work[h].user \notin crossed \cup lost => work[h].version <= resets[work[h].user]
           /\ work[h].at \notin {"answering", "assuring", "assured"} => work[h].spent = {}
BY BoundAssumption DEF IInv, TypeOK, ProofInv, NumbersInv, At, HasProved

\* Checking the pending secret marks it verified and proves nothing else.
LEMMA PendingVerified ==
    ASSUME IInv, NEW h \in Handler, VerifyPending(h)
    PROVE  IInv'
<1> DEFINE u == work[h].user
           w == [work[h] EXCEPT !.at = "verified", !.proof = resets[u]]
<1>1. /\ work[h].at = "confirm" /\ secret[u] = "pending" /\ verified' = verified \cup {u}
      /\ work' = [work EXCEPT ![h] = w]
      /\ UNCHANGED <<users, secret, codes, tokens, assurances, login, last, resets, crossed, lost>>
      BY DEF VerifyPending, tables
<1>2. /\ work[h] \in Work /\ u \in Admin /\ resets[u] \in 0..MaxReset
      /\ u \notin crossed \cup lost => work[h].version <= resets[u]
      /\ work[h].spent = {}
      BY <1>1, Going
<1>3. w \in Work /\ w.at = "verified" /\ w.proof = resets[u] /\ w.user = u /\ w.spent = {} /\ w.version = work[h].version
      BY <1>2 DEF Work
<1>4. verified' \subseteq Admin  BY <1>1, <1>2 DEF IInv, TypeOK
<1> HIDE DEF w
<1> QED  BY <1>1, <1>2, <1>3, <1>4, OnlyWork

\* A confirmation in its transaction holds the rows it has found and changes none that others see.
LEMMA ConfirmationStarted ==
    ASSUME IInv, NEW h \in Handler, StartConfirmation(h)
    PROVE  IInv'
<1> DEFINE u == work[h].user
           w == [work[h] EXCEPT !.at = "confirming", !.held = secret[u] # "none", !.gone = CodesOf(u)]
<1>1. /\ work[h].at = "verified" /\ ~SecretLocked(u) /\ work' = [work EXCEPT ![h] = w]
      /\ UNCHANGED <<users, secret, codes, tokens, assurances, login, last, resets, crossed, lost>>
      /\ verified' = verified
      BY DEF StartConfirmation, tables, history
<1>2. /\ work[h] \in Work /\ u \in Admin /\ work[h].spent = {}
      /\ u \notin crossed \cup lost => work[h].version <= resets[u]
      BY <1>1, Going
<1>3. CodesOf(u) \in SUBSET Code /\ verified \subseteq Admin  BY DEF IInv, TypeOK, CodesOf
<1>4. u \notin crossed => work[h].proof = resets[u] /\ secret[u] # "none" /\ u \in verified
      BY <1>1, <1>2 DEF IInv, ProofInv, ConfirmInv, InConfirmation, At
<1>5. /\ w \in Work /\ w.at = "confirming" /\ w.proof = work[h].proof /\ w.user = u /\ w.spent = {}
      /\ w.version = work[h].version /\ w.held = (secret[u] # "none") /\ w.gone = CodesOf(u)
      BY <1>2, <1>3 DEF Work
<1> HIDE DEF w
<1> QED  BY <1>1, <1>2, <1>3, <1>4, <1>5, OnlyWork

\* A code of the confirmed secret proves what is the secret after the last reset.
LEMMA TotpChecked ==
    ASSUME IInv, NEW h \in Handler, checkTotp(h)
    PROVE  IInv'
<1> DEFINE u == work[h].user
           x == IF work[h].at = "reauth" THEN "assuring" ELSE "answering"
           w == [work[h] EXCEPT !.at = x, !.proof = resets[u]]
<1>1. /\ work[h].at \in {"challenge", "reauth"} /\ work' = [work EXCEPT ![h] = w]
      /\ UNCHANGED <<users, secret, codes, tokens, assurances, login, last, resets, crossed, lost>>
      /\ verified' = verified
      BY DEF checkTotp, tables, history
<1>2. /\ work[h] \in Work /\ u \in Admin /\ resets[u] \in 0..MaxReset /\ work[h].spent = {}
      /\ u \notin crossed \cup lost => work[h].version <= resets[u]
      BY <1>1, Going
<1>3. x \in {"assuring", "answering"}  OBVIOUS
<1> HIDE DEF x
<1>4. /\ w \in Work /\ w.at = x /\ w.proof = resets[u] /\ w.user = u /\ w.spent = {} /\ w.version = work[h].version
      BY <1>2, <1>3 DEF Work
<1>5. verified \subseteq Admin  BY DEF IInv, TypeOK
<1> HIDE DEF w
<1>6. w.at \notin {"assured", "verified", "confirming"}  BY <1>3, <1>4
<1>7. w.user \notin crossed \cup lost => w.version <= resets[w.user] /\ w.version <= w.proof /\ w.proof <= resets[w.user]
      BY <1>2, <1>4
<1> HIDE DEF u
<1> QED  BY <1>1, <1>2, <1>4, <1>5, <1>6, <1>7, OnlyWork

\* Turning to the recovery codes proves nothing by itself.
LEMMA TriesRecovery ==
    ASSUME IInv, NEW h \in Handler, TryRecovery(h)
    PROVE  IInv'
<1> DEFINE w == [work[h] EXCEPT !.at = "reauth recovery"]
<1>1. /\ work[h].at = "reauth" /\ work' = [work EXCEPT ![h] = w]
      /\ UNCHANGED <<users, secret, codes, tokens, assurances, login, last, resets, crossed, lost>>
      /\ verified' = verified
      BY DEF TryRecovery, tables, history
<1>2. /\ work[h] \in Work /\ work[h].user \in Admin /\ work[h].spent = {}
      /\ work[h].user \notin crossed \cup lost => work[h].version <= resets[work[h].user]
      BY <1>1, Going
<1>3. w \in Work /\ w.at = "reauth recovery" /\ w.user = work[h].user /\ w.spent = {} /\ w.version = work[h].version
      BY <1>2 DEF Work
<1>4. verified \subseteq Admin  BY DEF IInv, TypeOK
<1> HIDE DEF w
<1> QED  BY <1>1, <1>2, <1>3, <1>4, OnlyWork

(* A recovery code is spent.                                               *)
LEMMA RecoveryConsumed ==
    ASSUME IInv, NEW h \in Handler, NEW c \in codes, consumeRecoveryCode(h, c)
    PROVE  IInv'
<1> DEFINE u == work[h].user
           x == IF work[h].at = "recovery" THEN "answering" ELSE "assuring"
           w == [work[h] EXCEPT !.at = x, !.spent = {c}, !.proof = c.proof]
<1>0. TypeOK /\ NumbersInv /\ ProofInv /\ ConfirmInv /\ ProofsCountOnce /\ EnrolmentConsistent  BY DEF IInv
<1>1. /\ work[h].at \in {"recovery", "reauth recovery"} /\ c.user = u /\ ~CodeLocked(c)
      /\ codes' = codes \ {c} /\ work' = [work EXCEPT ![h] = w]
      /\ UNCHANGED <<users, secret, tokens, assurances, login, last, verified, resets, crossed, lost>>
      BY DEF consumeRecoveryCode, CodesOf, history
<1>2. /\ work[h] \in Work /\ u \in Admin /\ resets[u] \in 0..MaxReset /\ work[h].spent = {}
      /\ u \notin crossed \cup lost => work[h].version <= resets[u]
      BY <1>1, Going
<1>3. x \in {"assuring", "answering"}  OBVIOUS
<1>4. c \in Code /\ c.proof \in 0..MaxReset  BY <1>0 DEF TypeOK, Code
<1> HIDE DEF x
<1>5. /\ w \in Work /\ w.at = x /\ w.proof = c.proof /\ w.user = u /\ w.spent = {c} /\ w.version = work[h].version
      BY <1>2, <1>3, <1>4 DEF Work
<1> HIDE DEF w
<1>6. work' \in [Handler -> Work] /\ work'[h] = w /\ \A g \in Handler : g # h => work'[g] = work[g]
      BY <1>0, <1>1, <1>5, HandlerStep
<1>7. TypeOK'  BY <1>0, <1>1, <1>6 DEF TypeOK
<1>8. w.at \notin {"idle", "assured", "verified", "confirming"}  BY <1>3, <1>5
<1>9. NumbersInv'  BY <1>0, <1>1, <1>3, <1>5, <1>6, <1>8 DEF NumbersInv, At, HasProved
<1>10. u \notin crossed => c.proof = resets[u]  BY <1>0, <1>1 DEF ProofInv
<1>11. u \notin crossed \cup lost => w.version <= resets[u] /\ w.version <= w.proof /\ w.proof <= resets[u]
       BY <1>2, <1>5, <1>10
<1>12. ProofInv'
    <2>1. \A d \in codes' : d.user \notin crossed' => d.proof = resets'[d.user]  BY <1>0, <1>1 DEF ProofInv
    <2>2. \A g \in Handler : g # h /\ ~At(g, "idle")' =>
              /\ work'[g].user \in Admin
              /\ work'[g].user \notin crossed /\ InConfirmation(g)' => work'[g].proof = resets[work'[g].user]
              /\ work'[g].user \notin crossed \cup lost =>
                    /\ work'[g].version <= resets[work'[g].user]
                    /\ HasProved(g)' => work'[g].version <= work'[g].proof /\ work'[g].proof <= resets[work'[g].user]
          BY <1>0, <1>6 DEF ProofInv, At, InConfirmation, HasProved
    <2>3. work'[h].user \in Admin /\ ~InConfirmation(h)'  BY <1>2, <1>5, <1>6, <1>8 DEF InConfirmation, At
    <2> QED  BY <1>0, <1>1, <1>5, <1>6, <1>11, <2>1, <2>2, <2>3 DEF ProofInv
<1>13. \A a \in Admin : CodesOf(a)' \subseteq CodesOf(a)  BY <1>1 DEF CodesOf
<1>14. ConfirmInv'
    <2>1. \A g \in Handler : work'[g].at \in {"verified", "confirming"} => work'[g] = work[g] /\ work[g].user \in Admin
          BY <1>0, <1>6, <1>8 DEF At, ProofInv
    <2>2. \A g \in Handler : work[g].at = "confirming" /\ work[g].user \notin crossed =>
              work[g].held /\ \A d \in codes : d.user = work[g].user => d \in work[g].gone
          BY <1>0 DEF ConfirmInv, CodesOf, At
    <2>3. \A g \in Handler : work'[g].at = "confirming" /\ work'[g].user \notin crossed' =>
              work'[g].held /\ \A d \in codes' : d.user = work'[g].user => d \in work'[g].gone
        <3>1. codes' \subseteq codes /\ crossed' = crossed  BY <1>1
        <3>2. \A g \in Handler : work'[g].at = "confirming" => work'[g] = work[g]  BY <2>1
        <3> QED  BY <3>1, <3>2, <2>2
    <2>4. \A g \in Handler : work'[g].at \in {"verified", "confirming"} /\ work'[g].user \notin crossed' =>
              secret'[work'[g].user] # "none" /\ work'[g].user \in verified'
        <3>1. secret' = secret /\ verified' = verified /\ crossed' = crossed  BY <1>1
        <3>2. \A g \in Handler : work[g].at \in {"verified", "confirming"} /\ work[g].user \notin crossed =>
                  secret[work[g].user] # "none" /\ work[g].user \in verified
              BY <1>0 DEF ConfirmInv, InConfirmation, At
        <3>3. \A g \in Handler : work'[g].at \in {"verified", "confirming"} => work'[g] = work[g]  BY <2>1
        <3> QED  BY <3>1, <3>2, <3>3
    <2>5. \A f, g \in Handler : work'[f].at = "confirming" /\ work'[g].at = "confirming" /\ work'[f].held /\ work'[g].held
                                /\ work'[f].user = work'[g].user => f = g
          BY <1>0, <2>1 DEF ConfirmInv, At
    <2> QED  BY <2>3, <2>4, <2>5 DEF ConfirmInv, InConfirmation, At, CodesOf
<1>15. ProofsCountOnce'
    <2>1. \A g \in Handler : c \notin work[g].spent  BY <1>0 DEF ProofsCountOnce
    <2>2. \A t \in tokens : c \notin t.spent  BY <1>0 DEF ProofsCountOnce
    <2>3. \A g \in Handler : work[g].spent \cap codes = {} /\ \A t \in tokens : work[g].spent \cap t.spent = {}
          BY <1>0 DEF ProofsCountOnce
    <2>6. \A g \in Handler : work'[g].spent \cap codes' = {}  BY <1>1, <1>5, <1>6, <2>3
    <2>7. \A g \in Handler : \A t \in tokens : work'[g].spent \cap t.spent = {}  BY <1>5, <1>6, <2>2, <2>3
    <2>4. \A f, g \in Handler : f # g => work'[f].spent \cap work'[g].spent = {}
          BY <1>0, <1>5, <1>6, <2>1 DEF ProofsCountOnce
    <2>5. \A t \in tokens : t.spent \cap codes' = {}  BY <1>0, <1>1 DEF ProofsCountOnce
    <2> QED  BY <1>0, <1>1, <2>4, <2>5, <2>6, <2>7 DEF ProofsCountOnce
<1>16. EnrolmentConsistent'  BY <1>0, <1>1, <1>13 DEF EnrolmentConsistent
<1> QED  BY <1>7, <1>9, <1>12, <1>14, <1>15, <1>16 DEF IInv

(* Steps that leave requests, codes and tokens alone keep their numbers.   *)
LEMMA NumbersKept ==
    ASSUME NumbersInv, ProofsCountOnce, codes' \subseteq codes, assurances' \subseteq assurances,
           UNCHANGED <<tokens, work, last>>
    PROVE  NumbersInv' /\ ProofsCountOnce'
<1>1. NumbersInv'  BY DEF NumbersInv, At, HasProved
<1>2. ProofsCountOnce'  BY DEF ProofsCountOnce
<1> QED  BY <1>1, <1>2

(* A new secret waits for its confirmation.                                *)
LEMMA SetUp ==
    ASSUME IInv, NEW u \in Admin, beginSetup(u)
    PROVE  IInv'
<1>0. TypeOK /\ NumbersInv /\ ProofInv /\ ConfirmInv /\ ProofsCountOnce /\ EnrolmentConsistent  BY DEF IInv
<1>1. /\ ~SecretLocked(u) /\ secret' = [secret EXCEPT ![u] = "pending"] /\ verified' = verified \ {u}
      /\ crossed' = IF Confirming(u) THEN crossed \cup {u} ELSE crossed
      /\ UNCHANGED <<users, codes, tokens, assurances, work, login, last, resets, lost>>
      BY DEF beginSetup
<1>2. crossed \subseteq crossed' /\ crossed' \subseteq Admin /\ verified' \subseteq Admin  BY <1>0, <1>1 DEF TypeOK
<1>3. secret' \in [Admin -> Secret] /\ secret'[u] = "pending" /\ \A a \in Admin : a # u => secret'[a] = secret[a]
      BY <1>0, <1>1 DEF TypeOK, Secret
<1>4. TypeOK'  BY <1>0, <1>1, <1>2, <1>3 DEF TypeOK
<1>5. NumbersInv' /\ ProofsCountOnce'  BY <1>0, <1>1, NumbersKept
<1>6. ProofInv'  BY <1>0, <1>1, <1>2 DEF ProofInv, At, InConfirmation, HasProved
<1>7. \A h \in Handler : work[h].at \in {"verified", "confirming"} /\ work[h].user \notin crossed' => work[h].user # u
      BY <1>1 DEF Confirming
<1>8. ConfirmInv'
    <2>1. \A h \in Handler : work[h].at \in {"verified", "confirming"} /\ work[h].user \notin crossed =>
              work[h].user \in Admin /\ secret[work[h].user] # "none" /\ work[h].user \in verified
          BY <1>0 DEF ConfirmInv, ProofInv, InConfirmation, At
    <2>2. \A h \in Handler : work[h].at \in {"verified", "confirming"} /\ work[h].user \notin crossed' =>
              secret'[work[h].user] # "none" /\ work[h].user \in verified'
          BY <1>1, <1>2, <1>3, <1>7, <2>1
    <2>3. \A h \in Handler : work[h].at = "confirming" /\ work[h].user \notin crossed' =>
              work[h].held /\ CodesOf(work[h].user) \subseteq work[h].gone
          BY <1>0, <1>2 DEF ConfirmInv, At
    <2>4. work' = work /\ codes' = codes  BY <1>1
    <2> QED  BY <1>0, <2>2, <2>3, <2>4 DEF ConfirmInv, InConfirmation, At, CodesOf
<1>9. EnrolmentConsistent'  BY <1>0, <1>1, <1>2, <1>3 DEF EnrolmentConsistent, CodesOf
<1> QED  BY <1>4, <1>5, <1>6, <1>8, <1>9 DEF IInv

(* MFA is reset.                                                           *)
LEMMA MfaReset ==
    ASSUME IInv, NEW u \in Admin, ResetMfa(u)
    PROVE  IInv'
<1>0. TypeOK /\ NumbersInv /\ ProofInv /\ ConfirmInv /\ ProofsCountOnce /\ EnrolmentConsistent  BY DEF IInv
<1>1. /\ resets[u] < MaxReset /\ ~SecretLocked(u)
      /\ users' = [users EXCEPT ![u] = WithoutMfa(users[u])] /\ secret' = [secret EXCEPT ![u] = "none"]
      /\ codes' = codes \ CodesOf(u) /\ resets' = [resets EXCEPT ![u] = resets[u] + 1]
      /\ verified' = verified \ {u}
      /\ crossed' = IF Confirming(u) THEN crossed \cup {u} ELSE crossed
      /\ UNCHANGED <<tokens, assurances, work, login, last, lost>>
      BY DEF ResetMfa
<1>2. crossed \subseteq crossed' /\ crossed' \subseteq Admin /\ verified' \subseteq Admin  BY <1>0, <1>1 DEF TypeOK
<1>3. secret' \in [Admin -> Secret] /\ secret'[u] = "none" /\ \A a \in Admin : a # u => secret'[a] = secret[a]
      BY <1>0, <1>1 DEF TypeOK, Secret
<1>4. /\ resets[u] \in 0..MaxReset /\ resets[u] + 1 \in 0..MaxReset /\ resets' \in [Admin -> 0..MaxReset]
      /\ resets'[u] = resets[u] + 1 /\ \A a \in Admin : a # u => resets'[a] = resets[a]
    <2>1. resets \in [Admin -> 0..MaxReset] /\ MaxReset \in Nat  BY <1>0, BoundAssumption DEF TypeOK
    <2>2. resets[u] \in 0..MaxReset /\ resets[u] + 1 \in 0..MaxReset  BY <1>1, <2>1
    <2> QED  BY <1>1, <2>1, <2>2
<1>5. /\ users[u] \in Row /\ WithoutMfa(users[u]) \in Row
      /\ WithoutMfa(users[u]).version = users[u].version + 1 /\ ~WithoutMfa(users[u]).enrolled
      BY <1>0 DEF TypeOK, Row, WithoutMfa
<1>6. users' \in [Admin -> Row] /\ users'[u] = WithoutMfa(users[u]) /\ \A a \in Admin : a # u => users'[a] = users[a]
      BY <1>0, <1>1, <1>5 DEF TypeOK
<1>7. codes' \subseteq codes /\ \A c \in codes' : c.user # u  BY <1>1 DEF CodesOf
<1>8. TypeOK'  BY <1>0, <1>1, <1>2, <1>3, <1>4, <1>6, <1>7 DEF TypeOK
<1>9. NumbersInv' /\ ProofsCountOnce'  BY <1>0, <1>1, <1>7, NumbersKept
<1>10. \A h \in Handler : work[h].at \in {"verified", "confirming"} /\ work[h].user \notin crossed' => work[h].user # u
       BY <1>1 DEF Confirming
<1>11. \A a \in Admin : resets[a] \in Nat /\ resets'[a] \in Nat /\ resets[a] <= resets'[a]
    <2>1. \A a \in Admin : resets[a] \in 0..MaxReset /\ resets'[a] \in 0..MaxReset  BY <1>0, <1>4 DEF TypeOK
    <2> QED  BY <1>4, <2>1, BoundAssumption
<1>12. ProofInv'
    <2>1. \A a \in Admin \ lost : users'[a].version = resets'[a]  BY <1>0, <1>4, <1>5, <1>6 DEF ProofInv
    <2>2. \A c \in codes' : c.user \in Admin /\ (c.user \notin crossed' => c.proof = resets'[c.user])
          BY <1>0, <1>2, <1>4, <1>7 DEF ProofInv, TypeOK, Code
    <2>3. \A h \in Handler : work[h].at # "idle" =>
              /\ work[h].user \in Admin /\ work[h].version \in Nat /\ work[h].proof \in Nat
              /\ work[h].user \notin crossed' /\ work[h].at \in {"verified", "confirming"} =>
                    work[h].proof = resets'[work[h].user]
        <3>1. \A h \in Handler : work[h].version \in Nat /\ work[h].proof \in 0..MaxReset  BY <1>0 DEF TypeOK, Work
        <3>2. \A h \in Handler : work[h].at # "idle" => work[h].user \in Admin  BY <1>0 DEF ProofInv, At
        <3>3. \A h \in Handler : work[h].at \in {"verified", "confirming"} /\ work[h].user \notin crossed =>
                  work[h].proof = resets[work[h].user]
              BY <1>0 DEF ProofInv, At, InConfirmation
        <3>4. \A h \in Handler : work[h].at # "idle" /\ work[h].user \notin crossed' /\ work[h].at \in {"verified", "confirming"} =>
                  work[h].proof = resets'[work[h].user]
              BY <1>2, <1>4, <1>10, <3>2, <3>3
        <3>5. \A n \in 0..MaxReset : n \in Nat  BY BoundAssumption
        <3> QED  BY <3>1, <3>2, <3>4, <3>5
    <2>4. \A h \in Handler : work[h].at # "idle" /\ work[h].user \notin crossed' \cup lost =>
              /\ work[h].version <= resets'[work[h].user]
              /\ HasProved(h) => work[h].version <= work[h].proof /\ work[h].proof <= resets'[work[h].user]
          BY <1>0, <1>2, <1>11, <2>3 DEF ProofInv, At
    <2>5. \A t \in tokens : t.user \notin crossed' \cup lost => t.version <= t.proof /\ t.proof <= resets'[t.user]
        <3>1. \A t \in tokens : t.user \in Admin /\ t.proof \in Nat  BY <1>0, BoundAssumption DEF TypeOK, Token
        <3> QED  BY <1>0, <1>2, <1>11, <3>1 DEF ProofInv
    <2>6. work' = work /\ tokens' = tokens /\ lost' = lost  BY <1>1
    <2> QED  BY <2>1, <2>2, <2>3, <2>4, <2>5, <2>6 DEF ProofInv, At, InConfirmation, HasProved
<1>13. ConfirmInv'
    <2>1. \A h \in Handler : work[h].at \in {"verified", "confirming"} /\ work[h].user \notin crossed =>
              work[h].user \in Admin /\ secret[work[h].user] # "none" /\ work[h].user \in verified
          BY <1>0 DEF ConfirmInv, ProofInv, InConfirmation, At
    <2>2. \A h \in Handler : work[h].at \in {"verified", "confirming"} /\ work[h].user \notin crossed' =>
              secret'[work[h].user] # "none" /\ work[h].user \in verified'
          BY <1>1, <1>2, <1>3, <1>10, <2>1
    <2>3. \A h \in Handler : work[h].at = "confirming" /\ work[h].user \notin crossed' =>
              work[h].held /\ {c \in codes' : c.user = work[h].user} \subseteq work[h].gone
          BY <1>0, <1>2, <1>7 DEF ConfirmInv, At, CodesOf
    <2>4. work' = work  BY <1>1
    <2> QED  BY <1>0, <2>2, <2>3, <2>4 DEF ConfirmInv, InConfirmation, At, CodesOf
<1>14. EnrolmentConsistent'
    <2>1. \A a \in Admin : a # u => {c \in codes' : c.user = a} = {c \in codes : c.user = a}  BY <1>1 DEF CodesOf
    <2>2. {c \in codes' : c.user = u} = {}  BY <1>7
    <2>3. ~users'[u].enrolled /\ secret'[u] = "none"  BY <1>3, <1>5, <1>6
    <2>4. \A a \in Admin : a # u => users'[a] = users[a] /\ secret'[a] = secret[a] /\ (a \in verified' <=> a \in verified)
          BY <1>1, <1>3, <1>6
    <2>5. lost' = lost /\ crossed \subseteq crossed'  BY <1>1, <1>2
    <2> QED  BY <1>0, <2>1, <2>2, <2>3, <2>4, <2>5 DEF EnrolmentConsistent, CodesOf
<1> QED  BY <1>8, <1>9, <1>12, <1>13, <1>14 DEF IInv

(* The table of users is read, or saved as it was read.                    *)
LEMMA UsersRead ==
    ASSUME IInv, NEW l \in Login, ReadUsers(l)
    PROVE  IInv'
<1>0. TypeOK /\ NumbersInv /\ ProofInv /\ ConfirmInv /\ ProofsCountOnce /\ EnrolmentConsistent  BY DEF IInv
<1>1. /\ login' = [login EXCEPT ![l] = users]
      /\ UNCHANGED <<users, secret, codes, tokens, assurances, work, last, verified, resets, crossed, lost>>
      BY DEF ReadUsers, tables, history
<1>2. login' \in [Login -> [Admin -> Row] \cup {Null}]  BY <1>0, <1>1 DEF TypeOK
<1>3. TypeOK'  BY <1>0, <1>1, <1>2 DEF TypeOK
<1>4. NumbersInv' /\ ProofsCountOnce'  BY <1>0, <1>1, NumbersKept
<1>5. ProofInv'  BY <1>0, <1>1 DEF ProofInv, At, InConfirmation, HasProved
<1>6. ConfirmInv'  BY <1>0, <1>1 DEF ConfirmInv, At, InConfirmation, CodesOf
<1>7. EnrolmentConsistent'  BY <1>0, <1>1 DEF EnrolmentConsistent, CodesOf
<1> QED  BY <1>3, <1>4, <1>5, <1>6, <1>7 DEF IInv

\* A stale save overwrites versions and enrolments, and is remembered where it did.
LEMMA UsersSaved ==
    ASSUME IInv, NEW l \in Login, SaveUsers(l)
    PROVE  IInv'
<1>0. TypeOK /\ NumbersInv /\ ProofInv /\ ConfirmInv /\ ProofsCountOnce /\ EnrolmentConsistent  BY DEF IInv
<1>1. /\ login[l] # Null /\ users' = login[l] /\ lost' = lost \cup {u \in Admin : users[u] # login[l][u]}
      /\ login' = [login EXCEPT ![l] = Null]
      /\ UNCHANGED <<secret, codes, tokens, assurances, work, last, verified, resets, crossed>>
      BY DEF SaveUsers
<1>2. login' \in [Login -> [Admin -> Row] \cup {Null}] /\ users' \in [Admin -> Row]  BY <1>0, <1>1 DEF TypeOK
<1>3. lost \subseteq lost' /\ lost' \subseteq Admin /\ \A u \in Admin \ lost' : users'[u] = users[u]  BY <1>0, <1>1 DEF TypeOK
<1>4. TypeOK'  BY <1>0, <1>1, <1>2, <1>3 DEF TypeOK
<1>5. NumbersInv' /\ ProofsCountOnce'  BY <1>0, <1>1, NumbersKept
<1>6. ProofInv'  BY <1>0, <1>1, <1>3 DEF ProofInv, At, InConfirmation, HasProved
<1>7. ConfirmInv'  BY <1>0, <1>1 DEF ConfirmInv, At, InConfirmation, CodesOf
<1>8. EnrolmentConsistent'  BY <1>0, <1>1, <1>3 DEF EnrolmentConsistent, CodesOf
<1> QED  BY <1>4, <1>5, <1>6, <1>7, <1>8 DEF IInv

(* An assurance expires.                                                   *)
LEMMA Expired ==
    ASSUME IInv, NEW id \in assurances, AssuranceExpires(id)
    PROVE  IInv'
<1>0. TypeOK /\ NumbersInv /\ ProofInv /\ ConfirmInv /\ ProofsCountOnce /\ EnrolmentConsistent  BY DEF IInv
<1>1. /\ assurances' = assurances \ {id}
      /\ UNCHANGED <<users, secret, codes, tokens, work, login, last, verified, resets, crossed, lost>>
      BY DEF AssuranceExpires, history
<1>2. TypeOK'  BY <1>0, <1>1 DEF TypeOK
<1>3. NumbersInv' /\ ProofsCountOnce'  BY <1>0, <1>1, NumbersKept
<1>4. ProofInv'  BY <1>0, <1>1 DEF ProofInv, At, InConfirmation, HasProved
<1>5. ConfirmInv'  BY <1>0, <1>1 DEF ConfirmInv, At, InConfirmation, CodesOf
<1>6. EnrolmentConsistent'  BY <1>0, <1>1 DEF EnrolmentConsistent, CodesOf
<1> QED  BY <1>2, <1>3, <1>4, <1>5, <1>6 DEF IInv

(* Whatever was spent is a code.                                           *)
LEMMA SpentTypes ==
    ASSUME TypeOK
    PROVE  \A g \in Handler : \A c \in work[g].spent : c \in Code /\ c.batch \in 1..MaxBatch
<1>1. \A g \in Handler : work[g].spent \subseteq Code  BY DEF TypeOK, Work
<1>2. \A c \in Code : c.batch \in 1..MaxBatch  BY DEF Code
<1> QED  BY <1>1, <1>2

(* The confirmation commits.                                               *)
LEMMA Confirmed ==
    ASSUME IInv, NEW h \in Handler, CommitConfirmation(h)
    PROVE  IInv'
<1> DEFINE u == work[h].user
           b == last.batch + 1
           w == [work[h] EXCEPT !.at = "answering", !.held = FALSE, !.gone = {}]
<1>0. TypeOK /\ NumbersInv /\ ProofInv /\ ConfirmInv /\ ProofsCountOnce /\ EnrolmentConsistent  BY DEF IInv
<1>1. /\ work[h].at = "confirming" /\ last.batch < MaxBatch /\ last' = [last EXCEPT !.batch = b]
      /\ secret' = IF work[h].held THEN [secret EXCEPT ![u] = "confirmed"] ELSE secret
      /\ codes' = (codes \ work[h].gone) \cup Batch(u, b, work[h].proof)
      /\ users' = [users EXCEPT ![u].enrolled = TRUE] /\ work' = [work EXCEPT ![h] = w]
      /\ UNCHANGED <<tokens, assurances, login, verified, resets, crossed, lost>>
      BY DEF CommitConfirmation, history
<1>2. /\ work[h] \in Work /\ u \in Admin /\ work[h].spent = {} /\ work[h].proof \in 0..MaxReset /\ work[h].version \in Nat
      /\ u \notin crossed \cup lost => work[h].version <= resets[u]
      BY <1>1, Going DEF Work
<1>3. /\ w \in Work /\ w.at = "answering" /\ w.user = u /\ w.spent = {} /\ w.version = work[h].version /\ w.proof = work[h].proof
      /\ ~w.held
      BY <1>2 DEF Work
<1>4. work' \in [Handler -> Work] /\ work'[h] = w /\ \A g \in Handler : g # h => work'[g] = work[g]
    <2> HIDE DEF w
    <2> QED  BY <1>0, <1>1, <1>3, HandlerStep
<1>5. /\ last.batch \in 0..MaxBatch /\ b \in 1..MaxBatch /\ last' \in [batch : 0..MaxBatch, token : 0..MaxToken]
      /\ last'.batch = b /\ last'.token = last.token /\ last.batch < b /\ last.token \in 0..MaxToken
    <2>1. last.batch \in 0..MaxBatch /\ last.token \in 0..MaxToken  BY <1>0 DEF TypeOK
    <2>2. b \in 1..MaxBatch /\ last.batch < b  BY <1>1, <2>1, BoundAssumption
    <2> QED  BY <1>0, <1>1, <2>1, <2>2 DEF TypeOK
<1> HIDE DEF w, b
<1>6. /\ Batch(u, b, work[h].proof) \subseteq Code
      /\ \A c \in Batch(u, b, work[h].proof) : c.user = u /\ c.batch = b /\ c.proof = work[h].proof
      BY <1>2, <1>5, BatchShape
<1>7. users' \in [Admin -> Row] /\ users'[u].enrolled /\ users'[u].version = users[u].version
      /\ \A a \in Admin : a # u => users'[a] = users[a]
      BY <1>0, <1>1, <1>2 DEF TypeOK, Row
<1>8. /\ secret' \in [Admin -> Secret] /\ \A a \in Admin : a # u => secret'[a] = secret[a]
      /\ work[h].held => secret'[u] = "confirmed"
      /\ ~work[h].held => secret' = secret
      BY <1>0, <1>1, <1>2 DEF TypeOK, Secret
<1>9. codes' \subseteq Code /\ \A c \in codes' : c \in codes \ work[h].gone \/ (c.user = u /\ c.batch = b /\ c.proof = work[h].proof)
      BY <1>0, <1>1, <1>6 DEF TypeOK
<1>10. TypeOK'  BY <1>0, <1>1, <1>4, <1>5, <1>7, <1>8, <1>9 DEF TypeOK
<1>11. \A a \in Admin : users'[a].version = users[a].version  BY <1>7
<1>12. u \notin crossed => /\ work[h].proof = resets[u] /\ work[h].held /\ u \in verified
                           /\ \A c \in codes : c.user = u => c \in work[h].gone
       BY <1>0, <1>1, <1>2 DEF ProofInv, ConfirmInv, InConfirmation, At, CodesOf
<1>13. \A c \in codes : c.batch \in 1..MaxBatch /\ c.batch <= last.batch
       BY <1>0 DEF TypeOK, Code, NumbersInv
<1>14. NumbersInv'
    <2>1. \A n \in 1..MaxBatch : n <= last.batch => n <= b  BY <1>5, BoundAssumption
    <2>2. b <= b  BY <1>5, BoundAssumption
    <2>3. \A c \in codes' : c.batch <= last'.batch  BY <1>5, <1>9, <1>13, <2>1, <2>2
    <2>4. \A g \in Handler : \A c \in work[g].spent : c.batch \in 1..MaxBatch /\ c.batch <= last.batch
          BY <1>0, SpentTypes DEF NumbersInv
    <2>5. \A g \in Handler : \A c \in work'[g].spent : c.batch <= last'.batch
          BY <1>3, <1>4, <1>5, <2>1, <2>4
    <2>6. \A t \in tokens : t.id <= last.token /\ \A c \in t.spent : c.batch \in 1..MaxBatch /\ c.batch <= last.batch
          BY <1>0 DEF TypeOK, Token, Code, NumbersInv
    <2>7. \A t \in tokens' : t.id <= last'.token /\ \A c \in t.spent : c.batch <= last'.batch
          BY <1>1, <1>5, <2>1, <2>6
    <2>8. \A i \in assurances' : i <= last'.token  BY <1>0, <1>1, <1>5 DEF NumbersInv
    <2>9. \A g \in Handler : work'[g].at \notin {"answering", "assuring", "assured"} => work'[g].spent = {}
          BY <1>0, <1>3, <1>4 DEF NumbersInv, HasProved, At
    <2>10. \A g \in Handler : work'[g].at = "assured" => g # h /\ work[g].at = "assured" /\ work'[g].token = work[g].token
           BY <1>3, <1>4
    <2>11. \A g \in Handler : work'[g].at = "assured" =>
               /\ work'[g].token \in 1..last'.token /\ \A t \in tokens' : t.id # work'[g].token
               /\ \A f \in Handler : work'[f].at = "assured" /\ work'[f].token = work'[g].token => f = g
           BY <1>0, <1>1, <1>5, <2>10 DEF NumbersInv, At
    <2> QED  BY <2>3, <2>5, <2>7, <2>8, <2>9, <2>11 DEF NumbersInv, HasProved, At
<1>15. ProofsCountOnce'
    <2>1. \A g \in Handler : \A c \in work[g].spent : c.batch \in 1..MaxBatch /\ c.batch <= last.batch
          BY <1>0, SpentTypes DEF NumbersInv
    <2>2. \A t \in tokens : \A c \in t.spent : c.batch \in 1..MaxBatch /\ c.batch <= last.batch
          BY <1>0 DEF TypeOK, Token, Code, NumbersInv
    <2>3. \A n \in 1..MaxBatch : n <= last.batch => n # b  BY <1>5, BoundAssumption
    <2>4. \A g \in Handler : work[g].spent \cap codes' = {}
          BY <1>0, <1>9, <2>1, <2>3 DEF ProofsCountOnce
    <2>5. \A t \in tokens : t.spent \cap codes' = {}
          BY <1>0, <1>9, <2>2, <2>3 DEF ProofsCountOnce
    <2>6. \A g \in Handler : work'[g].spent = work[g].spent  BY <1>2, <1>3, <1>4
    <2> QED  BY <1>0, <1>1, <2>4, <2>5, <2>6 DEF ProofsCountOnce
<1>16. resets[u] \in Nat /\ work[h].proof \in Nat  BY <1>0, <1>2, BoundAssumption DEF TypeOK
<1>17. ProofInv'
    <2>1. \A c \in codes' : c.user \notin crossed => c.proof = resets[c.user]  BY <1>0, <1>9, <1>12 DEF ProofInv
    <2>2. \A g \in Handler : g # h /\ work'[g].at # "idle" =>
              /\ work'[g].user \in Admin
              /\ work'[g].user \notin crossed /\ work'[g].at \in {"verified", "confirming"} => work'[g].proof = resets[work'[g].user]
              /\ work'[g].user \notin crossed \cup lost =>
                    /\ work'[g].version <= resets[work'[g].user]
                    /\ work'[g].at \in {"answering", "assuring", "assured"} =>
                          work'[g].version <= work'[g].proof /\ work'[g].proof <= resets[work'[g].user]
          BY <1>0, <1>4 DEF ProofInv, At, InConfirmation, HasProved
    <2>3. u \notin crossed \cup lost =>
              w.version <= resets[u] /\ w.version <= w.proof /\ w.proof <= resets[u]
          BY <1>2, <1>3, <1>12, <1>16
    <2>4. \A a \in Admin \ lost : users'[a].version = resets[a]  BY <1>0, <1>11 DEF ProofInv
    <2>5. \A t \in tokens : t.user \notin crossed \cup lost => t.version <= t.proof /\ t.proof <= resets[t.user]
          BY <1>0 DEF ProofInv
    <2>6. UNCHANGED <<tokens, resets, crossed, lost>>  BY <1>1
    <2>7. work'[h].user = u /\ u \in Admin /\ work'[h].at = "answering"  BY <1>2, <1>3, <1>4
    <2> QED  BY <1>4, <2>1, <2>2, <2>3, <2>4, <2>5, <2>6, <2>7 DEF ProofInv, At, InConfirmation, HasProved
<1>18. ConfirmInv'
    <2>1. \A g \in Handler : work'[g].at \in {"verified", "confirming"} =>
              g # h /\ work'[g] = work[g] /\ work[g].user \in Admin
          BY <1>0, <1>3, <1>4 DEF At, ProofInv
    <2>2. \A g \in Handler : work[g].at \in {"verified", "confirming"} /\ work[g].user \notin crossed =>
              secret'[work[g].user] # "none" /\ work[g].user \in verified
        <3>1. \A g \in Handler : work[g].at \in {"verified", "confirming"} /\ work[g].user \notin crossed =>
                  work[g].user \in Admin /\ secret[work[g].user] # "none" /\ work[g].user \in verified
              BY <1>0 DEF ConfirmInv, ProofInv, InConfirmation, At
        <3> QED  BY <1>8, <3>1
    <2>3. \A g \in Handler : work[g].at = "confirming" /\ work[g].user \notin crossed =>
              work[g].held /\ \A c \in codes : c.user = work[g].user => c \in work[g].gone
          BY <1>0 DEF ConfirmInv, CodesOf, At
    <2>4. \A g \in Handler : g # h /\ work[g].at = "confirming" /\ work[g].user \notin crossed => work[g].user # u
          BY <1>0, <1>1, <1>12, <2>3 DEF ConfirmInv, At
    <2>5. \A g \in Handler : g # h /\ work[g].at = "confirming" /\ work[g].user \notin crossed =>
              work[g].held /\ \A c \in codes' : c.user = work[g].user => c \in work[g].gone
          BY <1>9, <2>3, <2>4
    <2>6. \A f, g \in Handler : work[f].at = "confirming" /\ work[g].at = "confirming" /\ work[f].held /\ work[g].held
                                /\ work[f].user = work[g].user => f = g
          BY <1>0 DEF ConfirmInv, At
    <2>7. verified' = verified /\ crossed' = crossed  BY <1>1
    <2>8. \A g \in Handler : work'[g].at \in {"verified", "confirming"} /\ work'[g].user \notin crossed' =>
              secret'[work'[g].user] # "none" /\ work'[g].user \in verified'
          BY <2>1, <2>2, <2>7
    <2>9. \A g \in Handler : work'[g].at = "confirming" /\ work'[g].user \notin crossed' =>
              work'[g].held /\ \A c \in codes' : c.user = work'[g].user => c \in work'[g].gone
          BY <2>1, <2>5, <2>7
    <2>10. \A f, g \in Handler : work'[f].at = "confirming" /\ work'[g].at = "confirming" /\ work'[f].held /\ work'[g].held
                                 /\ work'[f].user = work'[g].user => f = g
           BY <2>1, <2>6
    <2> QED  BY <2>8, <2>9, <2>10 DEF ConfirmInv, InConfirmation, At, CodesOf
<1>19. EnrolmentConsistent'
    <2>1. \A a \in Admin \ crossed :
              /\ secret[a] = "confirmed" => a \in verified
              /\ \A c, d \in codes : c.user = a /\ d.user = a => c.batch = d.batch
              /\ a \notin lost => /\ secret[a] = "confirmed" \/ (\E c \in codes : c.user = a) => users[a].enrolled
                                  /\ users[a].enrolled => secret[a] # "none"
          BY <1>0 DEF EnrolmentConsistent, CodesOf
    <2>2. \A c \in codes' : c.user # u => c \in codes  BY <1>9
    <2>3. u \notin crossed => \A c \in codes' : c.user = u => c.batch = b  BY <1>9, <1>12
    <2>4. u \notin crossed => u \in verified /\ secret'[u] = "confirmed" /\ users'[u].enrolled  BY <1>7, <1>8, <1>12
    <2>5. \A a \in Admin \ crossed :
              /\ secret'[a] = "confirmed" => a \in verified
              /\ \A c, d \in codes' : c.user = a /\ d.user = a => c.batch = d.batch
          BY <1>8, <2>1, <2>2, <2>3, <2>4
    <2>6. \A a \in Admin \ crossed : a \notin lost =>
              /\ secret'[a] = "confirmed" \/ (\E c \in codes' : c.user = a) => users'[a].enrolled
              /\ users'[a].enrolled => secret'[a] # "none"
          BY <1>7, <1>8, <2>1, <2>2, <2>4
    <2>7. UNCHANGED <<verified, crossed, lost>>  BY <1>1
    <2> QED  BY <2>5, <2>6, <2>7 DEF EnrolmentConsistent, CodesOf
<1> QED  BY <1>10, <1>14, <1>15, <1>17, <1>18, <1>19 DEF IInv

(* A token id is drawn for what has been proved.                           *)
LEMMA Assured ==
    ASSUME IInv, NEW h \in Handler, Assure(h)
    PROVE  IInv'
<1> DEFINE u == work[h].user
           n == last.token + 1
           w == [work[h] EXCEPT !.at = "assured", !.token = n]
<1>0. TypeOK /\ NumbersInv /\ ProofInv /\ ConfirmInv /\ ProofsCountOnce /\ EnrolmentConsistent  BY DEF IInv
<1>1. /\ work[h].at = "assuring" /\ last.token < MaxToken /\ last' = [last EXCEPT !.token = n]
      /\ assurances' = assurances \cup {n} /\ work' = [work EXCEPT ![h] = w]
      /\ UNCHANGED <<users, secret, codes, tokens, login, verified, resets, crossed, lost>>
      BY DEF Assure, history
<1>2. work[h] \in Work /\ u \in Admin  BY <1>1, Going
<1>3. /\ last.token \in 0..MaxToken /\ n \in 1..MaxToken /\ n \in 1..n /\ last.token < n
      /\ last' \in [batch : 0..MaxBatch, token : 0..MaxToken]
      /\ last'.token = n /\ last'.batch = last.batch
    <2>1. last.token \in 0..MaxToken  BY <1>0 DEF TypeOK
    <2>2. n \in 1..MaxToken /\ n \in 1..n /\ last.token < n /\ n \in 0..MaxToken  BY <1>1, <2>1, BoundAssumption
    <2> QED  BY <1>0, <1>1, <2>1, <2>2 DEF TypeOK
<1>4. /\ w \in Work /\ w.at = "assured" /\ w.user = u /\ w.spent = work[h].spent /\ w.version = work[h].version
      /\ w.proof = work[h].proof /\ w.token = n
    <2>1. n \in 0..MaxToken  BY <1>3, BoundAssumption
    <2> HIDE DEF n
    <2> QED  BY <1>2, <2>1 DEF Work
<1>5. work' \in [Handler -> Work] /\ work'[h] = w /\ \A g \in Handler : g # h => work'[g] = work[g]
    <2> HIDE DEF w, n
    <2> QED  BY <1>0, <1>1, <1>4, HandlerStep
<1> HIDE DEF w, n
<1>6. TypeOK'  BY <1>0, <1>1, <1>3, <1>5 DEF TypeOK
<1>7. \A g \in Handler : work'[g].spent = work[g].spent  BY <1>4, <1>5
<1>8. \A t \in tokens : t.id \in 1..MaxToken /\ t.id <= last.token  BY <1>0 DEF TypeOK, Token, NumbersInv
<1>9. \A i \in assurances : i \in 1..MaxToken /\ i <= last.token  BY <1>0 DEF TypeOK, NumbersInv
<1>10. \A i \in 1..MaxToken : i <= last.token => i <= n /\ i # n  BY <1>3, BoundAssumption
<1>11. n <= n  BY <1>3, BoundAssumption
<1>12. NumbersInv'
    <2>1. \A c \in codes' : c.batch <= last'.batch  BY <1>0, <1>1, <1>3 DEF NumbersInv
    <2>2. \A g \in Handler : \A c \in work'[g].spent : c.batch <= last'.batch  BY <1>0, <1>3, <1>7 DEF NumbersInv
    <2>3. \A t \in tokens' : t.id <= last'.token /\ \A c \in t.spent : c.batch <= last'.batch
          BY <1>0, <1>1, <1>3, <1>8, <1>10 DEF NumbersInv
    <2>4. \A i \in assurances' : i <= last'.token  BY <1>1, <1>3, <1>9, <1>10, <1>11
    <2>5. \A g \in Handler : work'[g].at \notin {"answering", "assuring", "assured"} => work'[g].spent = {}
          BY <1>0, <1>4, <1>5 DEF NumbersInv, HasProved, At
    <2>6. \A g \in Handler : g # h /\ work'[g].at = "assured" =>
              /\ work'[g].token \in 1..last.token /\ \A t \in tokens : t.id # work'[g].token
              /\ \A f \in Handler : f # h /\ work'[f].at = "assured" /\ work'[f].token = work'[g].token => f = g
          BY <1>0, <1>5 DEF NumbersInv, At
    <2>7. \A i \in 1..last.token : i \in 1..n /\ i # n  BY <1>3, BoundAssumption
    <2>8. \A t \in tokens' : t.id # n  BY <1>1, <1>8, <1>10
    <2>9. \A g \in Handler : work'[g].at = "assured" =>
              /\ work'[g].token \in 1..last'.token /\ \A t \in tokens' : t.id # work'[g].token
              /\ \A f \in Handler : work'[f].at = "assured" /\ work'[f].token = work'[g].token => f = g
          BY <1>1, <1>3, <1>4, <1>5, <2>6, <2>7, <2>8
    <2> QED  BY <2>1, <2>2, <2>3, <2>4, <2>5, <2>9 DEF NumbersInv, HasProved, At
<1>13. ProofsCountOnce'
    <2>1. \A t \in tokens : t.id \in assurances' => t.reauth  BY <1>0, <1>1, <1>8, <1>10 DEF ProofsCountOnce
    <2>2. tokens' = tokens /\ codes' = codes  BY <1>1
    <2> QED  BY <1>0, <1>7, <2>1, <2>2 DEF ProofsCountOnce
<1>14. ProofInv'
    <2>1. \A g \in Handler : /\ work'[g].user = work[g].user /\ work'[g].version = work[g].version /\ work'[g].proof = work[g].proof
                             /\ work'[g].at = work[g].at \/ (work'[g].at = "assured" /\ work[g].at = "assuring")
          BY <1>1, <1>4, <1>5
    <2>2. UNCHANGED <<users, codes, tokens, resets, crossed, lost>>  BY <1>1
    <2> QED  BY <1>0, <2>1, <2>2 DEF ProofInv, At, InConfirmation, HasProved
<1>15. ConfirmInv'
    <2>1. \A g \in Handler : work'[g].at \in {"verified", "confirming"} => work'[g] = work[g]  BY <1>4, <1>5
    <2>2. UNCHANGED <<secret, codes, verified, crossed>>  BY <1>1
    <2> QED  BY <1>0, <2>1, <2>2 DEF ConfirmInv, At, InConfirmation, CodesOf
<1>16. EnrolmentConsistent'  BY <1>0, <1>1 DEF EnrolmentConsistent, CodesOf
<1> QED  BY <1>6, <1>12, <1>13, <1>14, <1>15, <1>16 DEF IInv

(* The token is answered.                                                  *)
LEMMA Answered ==
    ASSUME IInv, NEW h \in Handler, Answer(h)
    PROVE  IInv'
<1>0. TypeOK /\ NumbersInv /\ ProofInv /\ ConfirmInv /\ ProofsCountOnce /\ EnrolmentConsistent  BY DEF IInv
<1>1. PICK n : /\ tokens' = tokens \cup {NewToken(h, n, work[h].version)}
               /\ \/ work[h].at = "answering" /\ last.token < MaxToken /\ n = last.token + 1 /\ last' = [last EXCEPT !.token = n]
                  \/ work[h].at = "assured" /\ n = work[h].token /\ last' = last
      BY DEF Answer
<1>2. /\ work' = [work EXCEPT ![h] = Idle]
      /\ UNCHANGED <<users, secret, codes, assurances, login, verified, resets, crossed, lost>>
      BY DEF Answer, history
<1> DEFINE k == NewToken(h, n, work[h].version)
<1>3. work' \in [Handler -> Work] /\ work'[h] = Idle /\ \A g \in Handler : g # h => work'[g] = work[g]
      BY <1>0, <1>2, IdleShape, HandlerStep
<1>4. work[h] \in Work /\ work[h].user \in Admin /\ work[h].version \in Nat /\ work[h].spent \in SUBSET Code /\ work[h].proof \in 0..MaxReset
      BY <1>1, Going DEF Work
<1>5. /\ last.token \in 0..MaxToken /\ n \in 1..MaxToken /\ last' \in [batch : 0..MaxBatch, token : 0..MaxToken]
      /\ last.token <= last'.token /\ n <= last'.token /\ last'.batch = last.batch
      /\ last'.token \in 0..MaxToken
      /\ work[h].at = "answering" => last.token < n
    <2>1. last.token \in 0..MaxToken /\ last \in [batch : 0..MaxBatch, token : 0..MaxToken]  BY <1>0 DEF TypeOK
    <2>2. CASE work[h].at = "answering"
        <3>1. n = last.token + 1 /\ last' = [last EXCEPT !.token = n] /\ last.token < MaxToken  BY <1>1, <2>2
        <3>2. n \in 1..MaxToken /\ n \in 0..MaxToken /\ last.token < n /\ last.token <= n /\ n <= n
              BY <2>1, <3>1, BoundAssumption
        <3> QED  BY <2>1, <3>1, <3>2
    <2>3. CASE work[h].at = "assured"
        <3>1. n \in 1..last.token /\ last' = last  BY <1>0, <1>1, <2>3 DEF NumbersInv, At
        <3> QED  BY <2>1, <2>3, <3>1, BoundAssumption
    <2> QED  BY <1>1, <2>2, <2>3
<1>6. /\ k \in Token /\ k.id = n /\ k.user = work[h].user /\ k.version = work[h].version /\ k.spent = work[h].spent
      /\ k.proof = work[h].proof /\ k.reauth = (work[h].at = "assured")
      BY <1>4, <1>5 DEF Token, NewToken
<1> HIDE DEF k
<1>7. TypeOK'  BY <1>0, <1>1, <1>2, <1>3, <1>5, <1>6 DEF TypeOK, k
<1>8. \A t \in tokens : t.id \in 1..MaxToken /\ t.id <= last.token  BY <1>0 DEF TypeOK, Token, NumbersInv
<1>9. \A i \in assurances : i \in 1..MaxToken /\ i <= last.token  BY <1>0 DEF TypeOK, NumbersInv
<1>10. \A i \in 1..MaxToken : i <= last.token => i <= last'.token  BY <1>5, BoundAssumption
<1>11. \A i \in 1..MaxToken : work[h].at = "answering" /\ i <= last.token => i # n  BY <1>5, BoundAssumption
<1>12. \A t \in tokens : t.id # n
    <2>1. CASE work[h].at = "answering"  BY <1>8, <1>11, <2>1
    <2>2. CASE work[h].at = "assured"  BY <1>0, <1>1, <2>2 DEF NumbersInv, At
    <2> QED  BY <1>1, <2>1, <2>2
<1>13. tokens' = tokens \cup {k}  BY <1>1 DEF k
<1>14. \A g \in Handler : work'[g].at # "idle" => g # h /\ work'[g] = work[g]  BY <1>3, IdleShape
<1>15. NumbersInv'
    <2>1. \A c \in codes' : c.batch <= last'.batch  BY <1>0, <1>2, <1>5 DEF NumbersInv
    <2>2. \A g \in Handler : \A c \in work'[g].spent : c.batch <= last'.batch  BY <1>0, <1>3, <1>5, IdleShape DEF NumbersInv
    <2>3. \A t \in tokens : t.id <= last'.token /\ \A c \in t.spent : c.batch <= last'.batch
          BY <1>0, <1>5, <1>8, <1>10 DEF NumbersInv
    <2>4. k.id <= last'.token /\ \A c \in k.spent : c.batch <= last'.batch  BY <1>0, <1>5, <1>6 DEF NumbersInv
    <2>5. \A i \in assurances' : i <= last'.token  BY <1>2, <1>9, <1>10
    <2>6. \A g \in Handler : work'[g].at \notin {"answering", "assuring", "assured"} => work'[g].spent = {}
          BY <1>0, <1>3, IdleShape DEF NumbersInv, HasProved, At
    <2>7. \A i \in 1..last.token : i \in 1..last'.token /\ i <= last.token /\ i \in 1..MaxToken  BY <1>5, BoundAssumption
    <2>8. \A g \in Handler : g # h /\ work[g].at = "assured" =>
              /\ work[g].token \in 1..last.token /\ \A t \in tokens : t.id # work[g].token
              /\ \A f \in Handler : work[f].at = "assured" /\ work[f].token = work[g].token => f = g
          BY <1>0 DEF NumbersInv, At
    <2>9. \A g \in Handler : g # h /\ work[g].at = "assured" => work[g].token # n
        <3>1. CASE work[h].at = "answering"  BY <1>11, <2>7, <2>8, <3>1
        <3>2. CASE work[h].at = "assured"  BY <1>1, <2>8, <3>2
        <3> QED  BY <1>1, <3>1, <3>2
    <2>10. \A g \in Handler : work'[g].at = "assured" =>
               /\ work'[g].token \in 1..last'.token /\ \A t \in tokens' : t.id # work'[g].token
               /\ \A f \in Handler : work'[f].at = "assured" /\ work'[f].token = work'[g].token => f = g
           BY <1>6, <1>13, <1>14, <2>7, <2>8, <2>9
    <2> QED  BY <1>13, <2>1, <2>2, <2>3, <2>4, <2>5, <2>6, <2>10 DEF NumbersInv, HasProved, At
<1>16. ProofsCountOnce'
    <2>1. \A t \in tokens : t.spent \cap k.spent = {}  BY <1>0, <1>6 DEF ProofsCountOnce
    <2>2. k.spent \cap codes = {}  BY <1>0, <1>6 DEF ProofsCountOnce
    <2>3. k.id \in assurances => k.reauth  BY <1>1, <1>6, <1>9, <1>11
    <2>4. \A g \in Handler : g # h => work[g].spent \cap k.spent = {}  BY <1>0, <1>6 DEF ProofsCountOnce
    <2>5. codes' = codes /\ assurances' = assurances  BY <1>2
    <2>6. \A s, t \in tokens' : (s.spent \cap t.spent # {} \/ s.id = t.id) => s = t
          BY <1>0, <1>6, <1>12, <1>13, <2>1 DEF ProofsCountOnce
    <2>7. \A t \in tokens' : t.spent \cap codes' = {} /\ (t.id \in assurances' => t.reauth)
          BY <1>0, <1>13, <2>2, <2>3, <2>5 DEF ProofsCountOnce
    <2>8. \A g \in Handler : /\ work[g].spent \cap codes = {}
                             /\ \A t \in tokens : work[g].spent \cap t.spent = {}
                             /\ \A f \in Handler : f # g => work[f].spent \cap work[g].spent = {}
          BY <1>0 DEF ProofsCountOnce
    <2>9. \A g \in Handler : /\ work'[g].spent \cap codes' = {}
                             /\ \A t \in tokens' : work'[g].spent \cap t.spent = {}
                             /\ \A f \in Handler : f # g => work'[f].spent \cap work'[g].spent = {}
          BY <1>3, <1>13, <2>4, <2>5, <2>8, IdleShape
    <2> QED  BY <2>6, <2>7, <2>9 DEF ProofsCountOnce
<1>17. ProofInv'
    <2>1. k.user \notin crossed \cup lost => k.version <= k.proof /\ k.proof <= resets[k.user]
          BY <1>0, <1>1, <1>6 DEF ProofInv, HasProved, At
    <2>2. UNCHANGED <<users, codes, resets, crossed, lost>>  BY <1>2
    <2>3. \A t \in tokens' : t.user \notin crossed \cup lost => t.version <= t.proof /\ t.proof <= resets[t.user]
          BY <1>0, <1>13, <2>1 DEF ProofInv
    <2> QED  BY <1>0, <1>14, <2>2, <2>3 DEF ProofInv, At, InConfirmation, HasProved
<1>18. ConfirmInv'
    <2>1. UNCHANGED <<secret, codes, verified, crossed>>  BY <1>2
    <2> QED  BY <1>0, <1>14, <2>1 DEF ConfirmInv, At, InConfirmation, CodesOf
<1>19. EnrolmentConsistent'  BY <1>0, <1>2 DEF EnrolmentConsistent, CodesOf
<1> QED  BY <1>7, <1>15, <1>16, <1>17, <1>18, <1>19 DEF IInv

-----------------------------------------------------------------------------
(* Theorems. *)

(* Every step keeps it.                                                    *)
LEMMA StepKeeps == IInv /\ [Next]_vars => IInv'
<1> SUFFICES ASSUME IInv, [Next]_vars PROVE IInv'
    OBVIOUS
<1>1. CASE UNCHANGED vars
      BY <1>1 DEF vars, tables, history, IInv, TypeOK, NumbersInv, ProofInv, ConfirmInv, ProofsCountOnce, EnrolmentConsistent,
                  At, InConfirmation, HasProved, CodesOf
<1>2. ASSUME NEW h \in Handler, \/ \E u \in Admin, route \in Route : Begin(h, u, route)
                                \/ VerifyPending(h) \/ StartConfirmation(h) \/ CommitConfirmation(h)
                                \/ checkTotp(h) \/ TryRecovery(h) \/ \E c \in codes : consumeRecoveryCode(h, c)
                                \/ Assure(h) \/ Answer(h) \/ Abort(h)
      PROVE  IInv'
      BY <1>2, Begun, PendingVerified, ConfirmationStarted, Confirmed, TotpChecked, TriesRecovery, RecoveryConsumed,
         Assured, Answered, Aborted
<1>3. ASSUME NEW u \in Admin, beginSetup(u) \/ ResetMfa(u) PROVE IInv'  BY <1>3, SetUp, MfaReset
<1>4. ASSUME NEW l \in Login, ReadUsers(l) \/ SaveUsers(l) PROVE IInv'  BY <1>4, UsersRead, UsersSaved
<1>5. ASSUME NEW id \in assurances, AssuranceExpires(id) PROVE IInv'  BY <1>5, Expired
<1> QED  BY <1>1, <1>2, <1>3, <1>4, <1>5 DEF Next

(* IInv always holds.                                                      *)
THEOREM Invariant == Spec => []IInv
<1> QED  BY InitHolds, StepKeeps, PTL DEF Spec

(* Tables, requests and tokens have their types.                           *)
THEOREM TypeCorrect == Spec => []TypeOK
<1>1. IInv => TypeOK  BY DEF IInv
<1> QED  BY <1>1, Invariant, PTL

(* What confirmSetup leaves is an enrolment with a secret its holder has   *)
(* shown and the codes of one confirmation, unless something overtook it.  *)
THEOREM EnrolmentStands == Spec => []EnrolmentConsistent
<1>1. IInv => EnrolmentConsistent  BY DEF IInv
<1> QED  BY <1>1, Invariant, PTL

(* A reset of MFA (reset-mfa) ends tokens, assurances and codes that were  *)
(* got with what it removed.                                               *)
THEOREM ResetEnds == Spec => []ResetEndsProofs
<1>1. IInv => ResetEndsProofs
    <2> SUFFICES ASSUME IInv, NEW t \in tokens, t.user \notin crossed \cup lost, t.version = users[t.user].version
                 PROVE  t.proof = resets[t.user]
        BY DEF ResetEndsProofs
    <2>1. t.user \in Admin /\ t.proof \in 0..MaxReset /\ resets[t.user] \in 0..MaxReset  BY DEF IInv, TypeOK, Token
    <2>2. users[t.user].version = resets[t.user] /\ t.version <= t.proof /\ t.proof <= resets[t.user]
          BY <2>1 DEF IInv, ProofInv
    <2> QED  BY <2>1, <2>2, BoundAssumption
<1> QED  BY <1>1, Invariant, PTL

(* A recovery code (consumeRecoveryCode) and a re-authentication each give *)
(* one token.                                                              *)
THEOREM OneProofOneToken == Spec => []ProofsCountOnce
<1>1. IInv => ProofsCountOnce  BY DEF IInv
<1> QED  BY <1>1, Invariant, PTL
=============================================================================
