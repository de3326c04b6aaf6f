-------------------------- MODULE InvitationsProofs --------------------------
(***************************************************************************)
(* Proofs about Invitations, for any addresses, roles and handlers and any *)
(* numbers of invitations, tokens and failures.                            *)
(*                                                                         *)
(* The argument: a handler that has locked a row to redeem it finds it as  *)
(* it left it and alone (WorkInv); a token leads to one row and is in the  *)
(* hands of one handler (TokenInv); a creation that looked alone inserts   *)
(* beside no live row (LookInv).                                           *)
(***************************************************************************)
EXTENDS Invitations, SequenceTheorems, TLAPS

At(h, x) == handler[h].at = x
HasRow(h) == handler[h].at \in {"mailing", "recording", "redeeming", "signing in"}
Mailing(h) == handler[h].at \in {"mailing", "recording"}

WorkType == [at : {"idle", "inserting", "mailing", "recording", "redeeming", "signing in"},
             invitation : 0..MaxInvitations, token : 0..MaxToken, email : Address \cup {Nobody}, role : Role]

(* What a handler works on is there; what it redeems is open, as it was    *)
(* when it was locked, and locked for it alone.                            *)
WorkInv ==
    \A h \in Handler :
        /\ At(h, "inserting") => handler[h].invitation = 0 /\ handler[h].email \in Address
        /\ HasRow(h) => /\ handler[h].invitation \in Ids /\ handler[h].token \in 1..MaxToken
                        /\ handler[h].email = invitations[handler[h].invitation].email
                        /\ handler[h].role = invitations[handler[h].invitation].role
        /\ At(h, "redeeming") => /\ Open(handler[h].invitation)
                                 /\ handler[h].token = invitations[handler[h].invitation].token
                                 /\ \A g \in Handler : At(g, "redeeming") /\ handler[g].invitation = handler[h].invitation => g = h

(* A token that is on its way leads to the row of its handler, to its      *)
(* address and to nobody else's.                                           *)
TokenInv ==
    /\ \A i \in Ids : invitations[i].token <= lastToken
    /\ \A m \in inbox : m[2] <= lastToken
    /\ \A h \in Handler : Mailing(h) =>
          /\ handler[h].token <= lastToken
          /\ \A g \in Handler : Mailing(g) /\ handler[g].token = handler[h].token => g = h
          /\ \A i \in Ids : invitations[i].token = handler[h].token => handler[h].invitation = i
          /\ \A m \in inbox : m[2] = handler[h].token => m[1] = handler[h].email

(* What a creation looked for is still not there. *)
LookInv ==
    \A h \in Handler : At(h, "inserting") /\ handler[h].email \notin overlapped =>
        /\ \A i \in Ids : invitations[i].email = handler[h].email => ~Live(i)
        /\ \A g \in Handler : At(g, "inserting") /\ handler[g].email = handler[h].email => g = h

(* What is about to be recorded as sent has arrived. *)
SentInv == \A h \in Handler : At(h, "recording") => <<handler[h].email, handler[h].token>> \in inbox

IInv == TypeOK /\ WorkInv /\ TokenInv /\ LookInv /\ SentInv /\ SpentOnce /\ OneActiveUnlessOverlapped /\ WorkingLinkArrives

-----------------------------------------------------------------------------
(* Lemmas about steps. *)

(* The types, by name. *)
LEMMA Types ==
    ASSUME TypeOK
    PROVE  /\ invitations \in Seq(Invitation) /\ Len(invitations) \in Nat /\ Len(invitations) <= MaxInvitations
           /\ Ids = 1..Len(invitations) /\ Ids \subseteq 1..MaxInvitations
           /\ \A i \in Ids : invitations[i] \in Invitation
           /\ handler \in [Handler -> WorkType]
           /\ lastToken \in Nat /\ lastToken <= MaxToken /\ MaxToken \in Nat /\ MaxInvitations \in Nat
<1>1. invitations \in Seq(Invitation) /\ Len(invitations) <= MaxInvitations /\ handler \in [Handler -> WorkType]
      BY DEF TypeOK, WorkType
<1>2. Len(invitations) \in Nat /\ Ids = 1..Len(invitations)  BY <1>1, LenProperties DEF Ids
<1>3. \A i \in Ids : invitations[i] \in Invitation  BY <1>1, <1>2, ElementOfSeq
<1>4. MaxToken \in Nat /\ MaxInvitations \in Nat /\ lastToken \in 0..MaxToken  BY BoundAssumption DEF TypeOK
<1> QED  BY <1>1, <1>2, <1>3, <1>4

(* One handler changes what it does. *)
LEMMA HandlerStep ==
    ASSUME TypeOK, NEW h \in Handler, NEW w \in WorkType, handler' = [handler EXCEPT ![h] = w]
    PROVE  handler' \in [Handler -> WorkType] /\ handler'[h] = w /\ \A g \in Handler : g # h => handler'[g] = handler[g]
<1>1. handler \in [Handler -> WorkType]  BY Types
<1> QED  BY <1>1

(* What a handler does is one of its kinds of work. *)
LEMMA WorkShape ==
    /\ Idle \in WorkType /\ Idle.at = "idle"
    /\ \A at, i, token, email, role :
          LET w == Work(at, i, token, email, role)
          IN  w.at = at /\ w.invitation = i /\ w.token = token /\ w.email = email /\ w.role = role
    /\ \A at \in {"inserting", "mailing", "redeeming"}, i \in 0..MaxInvitations, token \in 0..MaxToken,
          email \in Address, role \in Role : Work(at, i, token, email, role) \in WorkType
<1>1. Idle \in WorkType /\ Idle.at = "idle"  BY BoundAssumption, RoleAssumption DEF Idle, WorkType
<1>2. \A at, i, token, email, role :
          LET w == Work(at, i, token, email, role)
          IN  w.at = at /\ w.invitation = i /\ w.token = token /\ w.email = email /\ w.role = role
      BY DEF Work
<1>3. \A at \in {"inserting", "mailing", "redeeming"}, i \in 0..MaxInvitations, token \in 0..MaxToken,
          email \in Address, role \in Role : Work(at, i, token, email, role) \in WorkType
      BY DEF Work, WorkType
<1> QED  BY <1>1, <1>2, <1>3

(* It goes on to the next thing. *)
LEMMA NextThing ==
    ASSUME NEW w \in WorkType, NEW at \in {"recording", "signing in"}
    PROVE  LET v == [w EXCEPT !.at = at]
           IN  /\ v \in WorkType /\ v.at = at /\ v.invitation = w.invitation /\ v.token = w.token
               /\ v.email = w.email /\ v.role = w.role
BY DEF WorkType

(* One row changes. *)
LEMMA RowStep ==
    ASSUME TypeOK, NEW i \in Ids, NEW r \in Invitation, invitations' = [invitations EXCEPT ![i] = r]
    PROVE  /\ invitations' \in Seq(Invitation) /\ Len(invitations') = Len(invitations)
           /\ Ids' = Ids /\ invitations'[i] = r /\ \A j \in Ids : j # i => invitations'[j] = invitations[j]
<1>1. invitations \in Seq(Invitation) /\ Ids = 1..Len(invitations)  BY Types
<1>2. /\ invitations' \in Seq(Invitation) /\ Len(invitations') = Len(invitations)
      /\ \A j \in 1..Len(invitations) : invitations'[j] = IF j = i THEN r ELSE invitations[j]
      BY <1>1, ExceptSeq
<1>3. Ids' = 1..Len(invitations')  BY <1>2, LenProperties DEF Ids
<1> QED  BY <1>1, <1>2, <1>3

(* What a row may become. *)
LEMMA RowShape ==
    ASSUME NEW r \in Invitation
    PROVE  /\ \A t \in 1..MaxToken :
                 LET s == [r EXCEPT !.token = t]
                 IN  s \in Invitation /\ s.token = t /\ s.email = r.email /\ s.role = r.role
                     /\ s.used = r.used /\ s.revoked = r.revoked /\ s.expired = r.expired
           /\ LET s == [r EXCEPT !.used = TRUE]
              IN  s \in Invitation /\ s.used /\ s.token = r.token /\ s.email = r.email /\ s.role = r.role
                  /\ s.revoked = r.revoked /\ s.expired = r.expired
           /\ LET s == [r EXCEPT !.revoked = TRUE]
              IN  s \in Invitation /\ s.revoked /\ s.token = r.token /\ s.email = r.email /\ s.role = r.role
                  /\ s.used = r.used /\ s.expired = r.expired
           /\ LET s == [r EXCEPT !.expired = TRUE]
              IN  s \in Invitation /\ s.expired /\ s.token = r.token /\ s.email = r.email /\ s.role = r.role
                  /\ s.used = r.used /\ s.revoked = r.revoked
BY DEF Invitation

-----------------------------------------------------------------------------
(* Initial states. *)

(* Nothing is there and nobody does anything. *)
LEMMA InitIInv == Init => IInv
<1> SUFFICES ASSUME Init PROVE IInv  OBVIOUS
<1>1. \A h \in Handler : handler[h] = Idle /\ handler[h].at = "idle"  BY WorkShape DEF Init
<1>2. Ids = {} /\ DOMAIN accepted = {} /\ Len(invitations) = 0  BY DEF Init, Ids
<1>3. handler \in [Handler -> WorkType]  BY WorkShape DEF Init
<1>4. TypeOK
    <2>1. invitations \in Seq(Invitation) /\ Len(invitations) <= MaxInvitations /\ accepted \in Seq(Redemption)
          BY <1>2, EmptySeq, BoundAssumption DEF Init
    <2>2. lastToken \in 0..MaxToken /\ provider \in {"smtp", "log"}  BY BoundAssumption DEF Init
    <2>3. \A i, j \in Ids : invitations[i].token = invitations[j].token => i = j  BY <1>2
    <2> QED  BY <1>3, <2>1, <2>2, <2>3 DEF Init, TypeOK, WorkType
<1>5. WorkInv /\ TokenInv /\ LookInv /\ SentInv
      BY <1>1, <1>2 DEF Init, WorkInv, TokenInv, LookInv, SentInv, At, HasRow, Mailing
<1>6. SpentOnce  BY <1>2 DEF Init, SpentOnce
<1>7. OneActiveUnlessOverlapped /\ WorkingLinkArrives  BY <1>2 DEF Init, OneActiveUnlessOverlapped, WorkingLinkArrives
<1> QED  BY <1>4, <1>5, <1>6, <1>7 DEF IInv

-----------------------------------------------------------------------------
(* What most steps leave alone. *)

(* Rows keep their address, role and token; ... *)
SameLinks ==
    /\ Ids' = Ids
    /\ \A i \in Ids : /\ invitations'[i].email = invitations[i].email /\ invitations'[i].role = invitations[i].role
                      /\ invitations'[i].token = invitations[i].token

(* ... none comes to life; ... *)
NoneRevived == \A i \in Ids : Live(i)' => Live(i)

(* ... and those being redeemed stay as they are. *)
LocksHold ==
    \A h \in Handler : At(h, "redeeming") /\ Open(handler[h].invitation) =>
        ~invitations'[handler[h].invitation].used /\ ~invitations'[handler[h].invitation].revoked

(* The parts of SpentOnce. *)
UsedOrRevoked == \A i \in Ids : ~(invitations[i].used /\ invitations[i].revoked)
UsedIsAccepted == \A i \in Ids : invitations[i].used <=> \E k \in DOMAIN accepted : accepted[k].invitation = i
AcceptedOnce == \A k, l \in DOMAIN accepted : accepted[k].invitation = accepted[l].invitation => k = l
AcceptedAsSent ==
    \A k \in DOMAIN accepted :
        LET i == accepted[k].invitation
        IN  i \in Ids /\ accepted[k] = [invitation |-> i, token |-> invitations[i].token,
                                        email |-> invitations[i].email, role |-> invitations[i].role]
AccountsAccepted ==
    \A u \in users : u.invitation # 0 =>
        \E k \in DOMAIN accepted : /\ accepted[k].invitation = u.invitation
                                   /\ accepted[k].email = u.email /\ accepted[k].role = u.role
OneAccount == \A u, v \in users : u.email = v.email => u = v
SignedIn ==
    \A u \in users : \/ u.invitation \in troubled \cup {0} \/ u \in sessions
                     \/ \E h \in Handler : handler[h].at = "signing in" /\ handler[h].invitation = u.invitation

(* SpentOnce is these parts. *)
LEMMA SpentParts ==
    SpentOnce <=> /\ UsedOrRevoked /\ UsedIsAccepted /\ AcceptedOnce /\ AcceptedAsSent
                  /\ AccountsAccepted /\ OneAccount /\ SignedIn
BY DEF SpentOnce, UsedOrRevoked, UsedIsAccepted, AcceptedOnce, AcceptedAsSent, AccountsAccepted, OneAccount, SignedIn

(* Spent rows stay so, whatever is resent, revoked or added. *)
RowsStaySpent ==
    /\ Ids \subseteq Ids'
    /\ \A i \in Ids : /\ invitations'[i].used <=> invitations[i].used
                      /\ invitations'[i].revoked => invitations[i].revoked \/ ~invitations[i].used
                      /\ invitations'[i].email = invitations[i].email /\ invitations'[i].role = invitations[i].role
                      /\ invitations[i].used => invitations'[i].token = invitations[i].token
    /\ \A i \in Ids' : i \notin Ids => ~invitations'[i].used

(* Who is signing in goes on, or its invitation is in trouble. *)
SigningInGoesOn ==
    /\ troubled \subseteq troubled'
    /\ \A h \in Handler : At(h, "signing in") =>
           handler'[h] = handler[h] \/ handler[h].invitation \in troubled'

(* Then what was promised of the spent rows is kept. *)
LEMMA SpentKept ==
    ASSUME SpentOnce, accepted' = accepted, users' = users, sessions' = sessions, RowsStaySpent, SigningInGoesOn
    PROVE  SpentOnce'
<1>0. UsedOrRevoked /\ UsedIsAccepted /\ AcceptedOnce /\ AcceptedAsSent /\ AccountsAccepted /\ OneAccount /\ SignedIn
      BY SpentParts
<1>1. UsedOrRevoked'
    <2>1. ASSUME NEW i \in Ids', invitations'[i].used PROVE ~invitations'[i].revoked
        <3>1. i \in Ids  BY <2>1 DEF RowsStaySpent
        <3>2. invitations[i].used  BY <2>1, <3>1 DEF RowsStaySpent
        <3>3. ~invitations[i].revoked  BY <1>0, <3>1, <3>2 DEF UsedOrRevoked
        <3> QED  BY <3>1, <3>2, <3>3 DEF RowsStaySpent
    <2> QED  BY <2>1 DEF UsedOrRevoked
<1>2. \A k \in DOMAIN accepted : accepted[k].invitation \in Ids /\ invitations[accepted[k].invitation].used
      BY <1>0 DEF AcceptedAsSent, UsedIsAccepted
<1>3. UsedIsAccepted'
    <2>1. ASSUME NEW i \in Ids'
          PROVE  invitations'[i].used <=> \E k \in DOMAIN accepted : accepted[k].invitation = i
        <3>1. CASE i \in Ids
            <4>1. invitations'[i].used <=> invitations[i].used  BY <3>1 DEF RowsStaySpent
            <4> QED  BY <1>0, <3>1, <4>1 DEF UsedIsAccepted
        <3>2. CASE i \notin Ids
            <4>1. ~invitations'[i].used  BY <2>1, <3>2 DEF RowsStaySpent
            <4> QED  BY <1>2, <3>2, <4>1
        <3> QED  BY <3>1, <3>2
    <2> QED  BY <2>1 DEF UsedIsAccepted
<1>4. AcceptedAsSent'
    <2>1. ASSUME NEW k \in DOMAIN accepted, NEW i, i = accepted[k].invitation
          PROVE  i \in Ids' /\ accepted[k] = [invitation |-> i, token |-> invitations'[i].token,
                                              email |-> invitations'[i].email, role |-> invitations'[i].role]
        <3>1. i \in Ids /\ invitations[i].used  BY <1>2, <2>1
        <3>2. accepted[k] = [invitation |-> i, token |-> invitations[i].token,
                             email |-> invitations[i].email, role |-> invitations[i].role]
              BY <1>0, <2>1 DEF AcceptedAsSent
        <3>3. /\ i \in Ids' /\ invitations'[i].token = invitations[i].token
              /\ invitations'[i].email = invitations[i].email /\ invitations'[i].role = invitations[i].role
              BY <3>1 DEF RowsStaySpent
        <3> QED  BY <3>2, <3>3
    <2> QED  BY <2>1 DEF AcceptedAsSent
<1>5. AcceptedOnce' /\ AccountsAccepted' /\ OneAccount'  BY <1>0 DEF AcceptedOnce, AccountsAccepted, OneAccount
<1>6. SignedIn'  BY <1>0 DEF SignedIn, SigningInGoesOn, At
<1> QED  BY <1>1, <1>3, <1>4, <1>5, <1>6
        DEF SpentOnce, UsedOrRevoked, UsedIsAccepted, AcceptedOnce, AcceptedAsSent, AccountsAccepted, OneAccount, SignedIn

(* What is on its way stays so unless its handler fails. *)
MailGoesOn ==
    /\ troubled \subseteq troubled'
    /\ \A g \in Handler : Mailing(g) => handler'[g] = handler[g] \/ handler[g].invitation \in troubled'

(* Then links that arrived have arrived. *)
LEMMA LinkKept ==
    ASSUME TokenInv, WorkingLinkArrives, UNCHANGED mail, SameLinks, MailGoesOn
    PROVE  WorkingLinkArrives'
<1>0. provider' = provider /\ inbox' = inbox /\ outbox' = outbox  BY DEF mail
<1> SUFFICES ASSUME provider = "smtp" PROVE WorkingLinkArrives'  BY <1>0 DEF WorkingLinkArrives
<1>1. ASSUME NEW i \in Ids
      PROVE  \/ <<invitations[i].email, invitations[i].token>> \in inbox
             \/ i \in troubled'
             \/ \E h \in Handler : handler'[h].at = "mailing" /\ handler'[h].token = invitations[i].token
    <2>1. CASE <<invitations[i].email, invitations[i].token>> \in inbox \/ i \in troubled
          BY <2>1 DEF MailGoesOn
    <2>2. ASSUME NEW h \in Handler, handler[h].at = "mailing", handler[h].token = invitations[i].token
          PROVE  \/ handler'[h].at = "mailing" /\ handler'[h].token = invitations[i].token
                 \/ i \in troubled'
        <3>1. Mailing(h)  BY <2>2 DEF Mailing
        <3>2. handler[h].invitation = i  BY <2>2, <3>1 DEF TokenInv
        <3> QED  BY <2>2, <3>1, <3>2 DEF MailGoesOn
    <2> QED  BY <2>1, <2>2 DEF WorkingLinkArrives
<1>2. ASSUME NEW m \in inbox
      PROVE  \/ \E r \in outbox : r.recipient = m[1] /\ r.token = m[2]
             \/ \E h \in Handler : handler'[h].at = "recording" /\ handler'[h].token = m[2]
             \/ troubled' # {}
    <2>1. ASSUME NEW h \in Handler, handler[h].at = "recording", handler[h].token = m[2]
          PROVE  (handler'[h].at = "recording" /\ handler'[h].token = m[2]) \/ troubled' # {}
          BY <2>1 DEF MailGoesOn, Mailing
    <2>2. troubled # {} => troubled' # {}  BY DEF MailGoesOn
    <2> QED  BY <2>1, <2>2 DEF WorkingLinkArrives
<1>3. \A i \in Ids' : \/ <<invitations'[i].email, invitations'[i].token>> \in inbox'
                      \/ i \in troubled'
                      \/ \E h \in Handler : handler'[h].at = "mailing" /\ handler'[h].token = invitations'[i].token
      BY <1>0, <1>1 DEF SameLinks
<1>4. \A r \in outbox : r.status = "SENT" => <<r.recipient, r.token>> \in inbox  BY DEF WorkingLinkArrives
<1> QED  BY <1>0, <1>2, <1>3, <1>4 DEF WorkingLinkArrives

(* Rows may be closed under a handler that has not locked them. *)
LEMMA RowsMayClose ==
    ASSUME WorkInv, TokenInv, LookInv, SentInv, OneActiveUnlessOverlapped,
           handler' = handler, lastToken' = lastToken, inbox' = inbox, overlapped' = overlapped,
           SameLinks, NoneRevived, LocksHold
    PROVE  WorkInv' /\ TokenInv' /\ LookInv' /\ SentInv' /\ OneActiveUnlessOverlapped'
<1>1. ASSUME NEW h \in Handler
      PROVE  /\ At(h, "inserting")' => handler'[h].invitation = 0 /\ handler'[h].email \in Address
             /\ HasRow(h)' => /\ handler'[h].invitation \in Ids' /\ handler'[h].token \in 1..MaxToken
                              /\ handler'[h].email = invitations'[handler'[h].invitation].email
                              /\ handler'[h].role = invitations'[handler'[h].invitation].role
      BY DEF WorkInv, At, HasRow, SameLinks
<1>2. ASSUME NEW h \in Handler, At(h, "redeeming")'
      PROVE  /\ Open(handler[h].invitation)'
             /\ handler'[h].token = invitations'[handler'[h].invitation].token
             /\ \A g \in Handler : At(g, "redeeming")' /\ handler'[g].invitation = handler'[h].invitation => g = h
    <2>1. At(h, "redeeming") /\ handler[h].invitation \in Ids  BY <1>2 DEF At, WorkInv, HasRow
    <2>2. /\ Open(handler[h].invitation) /\ handler[h].token = invitations[handler[h].invitation].token
          /\ \A g \in Handler : At(g, "redeeming") /\ handler[g].invitation = handler[h].invitation => g = h
          BY <2>1 DEF WorkInv
    <2>3. Open(handler[h].invitation)'  BY <2>1, <2>2 DEF LocksHold, Open
    <2> QED  BY <2>1, <2>2, <2>3 DEF At, SameLinks
<1>3. WorkInv'  BY <1>1, <1>2 DEF WorkInv
<1>4. TokenInv'  BY DEF TokenInv, Mailing, SameLinks
<1>5. LookInv'  BY DEF LookInv, At, SameLinks, NoneRevived
<1>6. SentInv'  BY DEF SentInv, At
<1>7. OneActiveUnlessOverlapped'  BY DEF OneActiveUnlessOverlapped, SameLinks, NoneRevived
<1> QED  BY <1>3, <1>4, <1>5, <1>6, <1>7

(* A handler ends, perhaps with its mail delivered. *)
LEMMA FinishKeeps ==
    ASSUME IInv, NEW h \in Handler, Finish(h), UNCHANGED <<invitations, lastToken, overlapped>>,
           \/ UNCHANGED inbox
           \/ Mailing(h) /\ Arrives(h)
    PROVE  /\ handler' \in [Handler -> WorkType] /\ handler'[h] = Idle /\ handler'[h].at = "idle"
           /\ \A g \in Handler : g # h => handler'[g] = handler[g]
           /\ WorkInv' /\ TokenInv' /\ LookInv' /\ SentInv' /\ OneActiveUnlessOverlapped'
<1>0. TypeOK /\ WorkInv /\ TokenInv /\ LookInv /\ SentInv /\ OneActiveUnlessOverlapped  BY DEF IInv
<1>1. /\ handler' \in [Handler -> WorkType] /\ handler'[h] = Idle /\ handler'[h].at = "idle"
      /\ \A g \in Handler : g # h => handler'[g] = handler[g]
      BY <1>0, WorkShape, HandlerStep DEF Finish
<1>2. Ids' = Ids /\ \A i \in Ids : Open(i)' = Open(i) /\ Live(i)' = Live(i)  BY DEF Ids, Open, Live
<1>3. WorkInv'
    <2>1. \A g \in Handler : (HasRow(g)' \/ At(g, "inserting")') => handler'[g] = handler[g]
          BY <1>1 DEF HasRow, At
    <2>2. ASSUME NEW g \in Handler
          PROVE  /\ At(g, "inserting")' => handler'[g].invitation = 0 /\ handler'[g].email \in Address
                 /\ HasRow(g)' => /\ handler'[g].invitation \in Ids' /\ handler'[g].token \in 1..MaxToken
                                  /\ handler'[g].email = invitations'[handler'[g].invitation].email
                                  /\ handler'[g].role = invitations'[handler'[g].invitation].role
          BY <1>0, <1>2, <2>1 DEF WorkInv, At, HasRow
    <2>3. ASSUME NEW g \in Handler, At(g, "redeeming")'
          PROVE  /\ Open(handler[g].invitation)' /\ handler'[g].token = invitations'[handler'[g].invitation].token
                 /\ \A f \in Handler : At(f, "redeeming")' /\ handler'[f].invitation = handler'[g].invitation => f = g
        <3>1. At(g, "redeeming") /\ handler'[g] = handler[g]  BY <2>1, <2>3 DEF At, HasRow
        <3>2. \A f \in Handler : At(f, "redeeming")' => At(f, "redeeming") /\ handler'[f] = handler[f]
              BY <2>1 DEF At, HasRow
        <3>3. Open(handler[g].invitation)'  BY <1>0, <3>1 DEF WorkInv, Open
        <3> QED  BY <1>0, <3>1, <3>2, <3>3 DEF WorkInv
    <2> QED  BY <2>2, <2>3 DEF WorkInv
<1>4. TokenInv'
    <2>1. \A m \in inbox' : m \in inbox \/ (Mailing(h) /\ m[1] = handler[h].email /\ m[2] = handler[h].token)
          BY DEF Arrives
    <2>2. \A m \in inbox' : m[2] <= lastToken  BY <1>0, <2>1 DEF TokenInv
    <2>3. ASSUME NEW g \in Handler, Mailing(g)'
          PROVE  /\ handler'[g].token <= lastToken'
                 /\ \A f \in Handler : Mailing(f)' /\ handler'[f].token = handler'[g].token => f = g
                 /\ \A i \in Ids' : invitations'[i].token = handler'[g].token => handler'[g].invitation = i
                 /\ \A m \in inbox' : m[2] = handler'[g].token => m[1] = handler'[g].email
        <3>1. g # h /\ handler'[g] = handler[g] /\ Mailing(g)  BY <1>1, <2>3 DEF Mailing
        <3>2. \A f \in Handler : Mailing(f)' => handler'[f] = handler[f] /\ Mailing(f)  BY <1>1 DEF Mailing
        <3>3. \A m \in inbox' : m[2] = handler'[g].token => m[1] = handler'[g].email
              BY <1>0, <2>1, <3>1 DEF TokenInv
        <3> QED  BY <1>0, <1>2, <3>1, <3>2, <3>3 DEF TokenInv
    <2> QED  BY <1>0, <1>2, <2>2, <2>3 DEF TokenInv
<1>5. LookInv'  BY <1>0, <1>1, <1>2 DEF LookInv, At
<1>6. SentInv'  BY <1>0, <1>1 DEF SentInv, At, Arrives
<1>7. OneActiveUnlessOverlapped'  BY <1>0, <1>2 DEF OneActiveUnlessOverlapped
<1> QED  BY <1>1, <1>3, <1>4, <1>5, <1>6, <1>7

-----------------------------------------------------------------------------
(* Steps. *)

(* Types after a step that changes handlers only, ... *)
LEMMA TypesHandler ==
    ASSUME TypeOK, handler' \in [Handler -> WorkType], UNCHANGED <<invitations, users, sessions, lastToken, mail, accepted>>,
           overlapped' \subseteq Address, troubled' \subseteq 1..MaxInvitations
    PROVE  TypeOK' /\ Ids' = Ids
BY DEF TypeOK, WorkType, mail, Ids

(* ... or the mail too. *)
LEMMA TypesMail ==
    ASSUME TypeOK, handler' \in [Handler -> WorkType],
           UNCHANGED <<invitations, users, sessions, lastToken, provider, accepted, overlapped>>,
           inbox' \subseteq Address \X (1..MaxToken), troubled' \subseteq 1..MaxInvitations,
           outbox' \subseteq [recipient : Address, token : 1..MaxToken, status : {"SENT", "FAILED"}]
    PROVE  TypeOK' /\ Ids' = Ids
BY DEF TypeOK, WorkType, Ids

(* A handler that fails puts its invitation in trouble, if it has one. *)
LEMMA TroubleShape ==
    ASSUME TypeOK, WorkInv, NEW h \in Handler, Trouble(h)
    PROVE  /\ troubled \subseteq troubled' /\ troubled' \subseteq 1..MaxInvitations
           /\ HasRow(h) => handler[h].invitation \in troubled'
<1>1. handler[h].invitation \in 0..MaxInvitations  BY Types DEF WorkType
<1>2. troubled \subseteq 1..MaxInvitations /\ Ids \subseteq 1..MaxInvitations  BY Types DEF TypeOK
<1>3. troubled' = IF handler[h].invitation = 0 THEN troubled ELSE troubled \cup {handler[h].invitation}  BY DEF Trouble
<1>4. HasRow(h) => handler[h].invitation \in 1..MaxInvitations  BY <1>2 DEF WorkInv
<1>5. HasRow(h) => handler[h].invitation # 0  BY <1>4
<1>6. handler[h].invitation # 0 => handler[h].invitation \in 1..MaxInvitations  BY <1>1, BoundAssumption
<1> QED  BY <1>2, <1>3, <1>5, <1>6

(* A creation has looked. *)
LEMMA LookedFor ==
    ASSUME IInv, NEW h \in Handler, LookFor(h)
    PROVE  IInv'
<1>0. TypeOK /\ WorkInv /\ TokenInv /\ LookInv /\ SentInv  BY DEF IInv
<1>1. PICK email \in Address, role \in Role :
          /\ NoneActive(email)
          /\ handler' = [handler EXCEPT ![h] = Work("inserting", 0, 0, email, role)]
          /\ overlapped' = IF \E g \in Handler : handler[g].at = "inserting" /\ handler[g].email = email
                           THEN overlapped \cup {email} ELSE overlapped
      BY DEF LookFor
<1>2. UNCHANGED <<invitations, users, sessions, lastToken, mail, accepted, troubled>> /\ handler[h].at = "idle"
      BY DEF LookFor
<1> DEFINE w == Work("inserting", 0, 0, email, role)
<1>3. w \in WorkType /\ w.at = "inserting" /\ w.invitation = 0 /\ w.email = email
      BY WorkShape, BoundAssumption
<1> HIDE DEF w
<1>4. /\ handler' \in [Handler -> WorkType] /\ handler'[h] = w
      /\ \A g \in Handler : g # h => handler'[g] = handler[g]
      BY <1>0, <1>1, <1>3, HandlerStep DEF w
<1>5. overlapped \subseteq Address /\ troubled \subseteq 1..MaxInvitations  BY <1>0 DEF TypeOK
<1>6. overlapped' \subseteq Address /\ overlapped \subseteq overlapped'  BY <1>1, <1>5
<1>7. TypeOK' /\ Ids' = Ids  BY <1>0, <1>2, <1>4, <1>5, <1>6, TypesHandler
<1>8. inbox' = inbox /\ lastToken' = lastToken /\ invitations' = invitations  BY <1>2 DEF mail
<1>9. \A g \in Handler : HasRow(g)' => HasRow(g) /\ handler'[g] = handler[g]  BY <1>3, <1>4 DEF HasRow
<1>10. \A i \in Ids : Open(i)' = Open(i) /\ Live(i)' = Live(i)  BY <1>8 DEF Open, Live
<1>11. WorkInv'
    <2>1. ASSUME NEW g \in Handler, At(g, "inserting")'
          PROVE  handler'[g].invitation = 0 /\ handler'[g].email \in Address
          BY <1>0, <1>3, <1>4, <2>1 DEF WorkInv, At
    <2>2. ASSUME NEW g \in Handler, At(g, "redeeming")'
          PROVE  /\ Open(handler[g].invitation)' /\ handler'[g].token = invitations'[handler'[g].invitation].token
                 /\ \A f \in Handler : At(f, "redeeming")' /\ handler'[f].invitation = handler'[g].invitation => f = g
        <3>1. \A f \in Handler : At(f, "redeeming")' => At(f, "redeeming") /\ handler'[f] = handler[f]
              BY <1>9 DEF At, HasRow
        <3>2. Open(handler[g].invitation)'  BY <1>0, <1>8, <2>2, <3>1 DEF WorkInv, Open
        <3> QED  BY <1>0, <1>8, <2>2, <3>1, <3>2 DEF WorkInv
    <2>3. ASSUME NEW g \in Handler, HasRow(g)'
          PROVE  /\ handler'[g].invitation \in Ids' /\ handler'[g].token \in 1..MaxToken
                 /\ handler'[g].email = invitations'[handler'[g].invitation].email
                 /\ handler'[g].role = invitations'[handler'[g].invitation].role
          BY <1>0, <1>7, <1>8, <1>9, <2>3 DEF WorkInv
    <2>4. \A g \in Handler : At(g, "redeeming")' => handler'[g] = handler[g]  BY <1>9 DEF At, HasRow
    <2> QED  BY <2>1, <2>2, <2>3, <2>4 DEF WorkInv
<1>12. \A g \in Handler : Mailing(g)' => Mailing(g) /\ handler'[g] = handler[g]  BY <1>9 DEF Mailing, HasRow
<1>13. TokenInv'  BY <1>0, <1>7, <1>8, <1>12 DEF TokenInv
<1>14. LookInv'
    <2>1. ASSUME NEW g \in Handler, At(g, "inserting")', handler'[g].email \notin overlapped'
          PROVE  /\ \A i \in Ids' : invitations'[i].email = handler'[g].email => ~Live(i)'
                 /\ \A f \in Handler : At(f, "inserting")' /\ handler'[f].email = handler'[g].email => f = g
        <3>1. CASE g = h
            <4>1. handler'[g].email = email /\ \A f \in Handler : ~(handler[f].at = "inserting" /\ handler[f].email = email)
                  BY <1>1, <1>3, <1>4, <2>1, <3>1
            <4>2. \A i \in Ids' : invitations'[i].email = email => ~Live(i)'  BY <1>1, <1>7, <1>8, <1>10 DEF NoneActive
            <4> QED  BY <1>4, <3>1, <4>1, <4>2 DEF At
        <3>2. CASE g # h
            <4>1. handler'[g] = handler[g] /\ At(g, "inserting") /\ handler[g].email \notin overlapped
                  BY <1>4, <1>6, <2>1, <3>2 DEF At
            <4>2. handler[g].email # email  BY <1>1, <2>1, <4>1 DEF At
            <4>3. \A f \in Handler : At(f, "inserting")' /\ handler'[f].email = handler[g].email => f # h
                  BY <1>3, <1>4, <4>2
            <4> QED  BY <1>0, <1>4, <1>7, <1>8, <1>10, <4>1, <4>3 DEF LookInv, At
        <3> QED  BY <3>1, <3>2
    <2> QED  BY <2>1 DEF LookInv
<1>15. SentInv'  BY <1>0, <1>8, <1>12 DEF SentInv, At, Mailing
<1>16. SpentOnce'
    <2>1. RowsStaySpent  BY <1>7, <1>8 DEF RowsStaySpent
    <2>2. SigningInGoesOn  BY <1>2, <1>4 DEF SigningInGoesOn, At
    <2> QED  BY <1>2, <2>1, <2>2, SpentKept DEF IInv
<1>17. OneActiveUnlessOverlapped'  BY <1>6, <1>7, <1>8, <1>10 DEF IInv, OneActiveUnlessOverlapped
<1>18. WorkingLinkArrives'
    <2>1. SameLinks  BY <1>7, <1>8 DEF SameLinks
    <2>2. MailGoesOn  BY <1>2, <1>4 DEF MailGoesOn, Mailing
    <2> QED  BY <1>0, <1>2, <2>1, <2>2, LinkKept DEF IInv
<1> QED  BY <1>7, <1>11, <1>13, <1>14, <1>15, <1>16, <1>17, <1>18 DEF IInv

(* A row is added. *)
LEMMA RowAdded ==
    ASSUME TypeOK, NEW r \in Invitation, invitations' = Append(invitations, r)
    PROVE  /\ invitations' \in Seq(Invitation) /\ Len(invitations') = Len(invitations) + 1
           /\ Len(invitations) + 1 \notin Ids /\ Ids' = Ids \cup {Len(invitations) + 1}
           /\ invitations'[Len(invitations) + 1] = r /\ \A i \in Ids : invitations'[i] = invitations[i]
<1>1. invitations \in Seq(Invitation) /\ Ids = 1..Len(invitations) /\ Len(invitations) \in Nat  BY Types
<1>2. /\ invitations' \in Seq(Invitation) /\ Len(invitations') = Len(invitations) + 1
      /\ invitations'[Len(invitations) + 1] = r
      /\ \A i \in 1..Len(invitations) : invitations'[i] = invitations[i]
      BY <1>1, AppendProperties
<1>3. Ids' = 1..Len(invitations')  BY <1>2, LenProperties DEF Ids
<1> QED  BY <1>1, <1>2, <1>3

(* A creation inserts. *)
LEMMA Inserted ==
    ASSUME IInv, NEW h \in Handler, Insert(h)
    PROVE  IInv'
<1> DEFINE n == Len(invitations) + 1
           t == lastToken + 1
           r == [email |-> handler[h].email, role |-> handler[h].role, token |-> t,
                 used |-> FALSE, revoked |-> FALSE, expired |-> FALSE]
           w == Work("mailing", n, t, handler[h].email, handler[h].role)
<1>0. TypeOK /\ WorkInv /\ TokenInv /\ LookInv /\ SentInv  BY DEF IInv
<1>1. At(h, "inserting") /\ handler[h].email \in Address /\ handler[h].role \in Role
      BY <1>0, Types DEF Insert, At, WorkInv, WorkType
<1>2. /\ lastToken \in Nat /\ Len(invitations) \in Nat /\ n \in 1..MaxInvitations /\ t \in 1..MaxToken
      /\ Ids = 1..Len(invitations)
      BY <1>0, Types DEF Insert
<1>3. /\ r \in Invitation /\ r.token = t /\ r.email = handler[h].email /\ r.role = handler[h].role
      /\ ~r.used /\ ~r.revoked /\ ~r.expired
      BY <1>1, <1>2 DEF Invitation
<1>4. /\ w \in WorkType /\ w.at = "mailing" /\ w.invitation = n /\ w.token = t
      /\ w.email = handler[h].email /\ w.role = handler[h].role
      BY <1>1, <1>2, WorkShape
<1>5. /\ lastToken' = t /\ invitations' = Append(invitations, r) /\ handler' = [handler EXCEPT ![h] = w]
      /\ UNCHANGED <<users, sessions, mail, accepted, overlapped, troubled>>
      BY DEF Insert
<1>6. provider' = provider /\ inbox' = inbox /\ outbox' = outbox  BY <1>5 DEF mail
<1> HIDE DEF r, w
<1>7. /\ invitations' \in Seq(Invitation) /\ Len(invitations') = n
      /\ n \notin Ids /\ Ids' = Ids \cup {n}
      /\ invitations'[n] = r /\ \A i \in Ids : invitations'[i] = invitations[i]
      BY <1>0, <1>3, <1>5, RowAdded
<1>8. /\ handler' \in [Handler -> WorkType] /\ handler'[h] = w
      /\ \A g \in Handler : g # h => handler'[g] = handler[g]
      BY <1>0, <1>4, <1>5, HandlerStep
<1>9. \A i \in Ids : /\ Open(i)' = Open(i) /\ Live(i)' = Live(i)
                     /\ invitations[i].token \in 1..MaxToken /\ invitations[i].token < t
    <2>1. \A i \in Ids : Open(i)' = Open(i) /\ Live(i)' = Live(i)  BY <1>7 DEF Open, Live
    <2>2. \A i \in Ids : invitations[i].token \in 1..MaxToken  BY <1>0, Types DEF Invitation
    <2>3. \A i \in Ids : invitations[i].token <= lastToken  BY <1>0 DEF TokenInv
    <2> QED  BY <1>2, <2>1, <2>2, <2>3
<1>10. TypeOK'
    <2>0. /\ \A i \in Ids : invitations'[i].token = invitations[i].token /\ invitations[i].token # t
          /\ invitations'[n].token = t /\ \A i \in Ids' : i \in Ids \/ i = n
          BY <1>2, <1>3, <1>7, <1>9
    <2>1. \A i, j \in Ids' : invitations'[i].token = invitations'[j].token => i = j
        <3>1. \A i, j \in Ids : invitations[i].token = invitations[j].token => i = j  BY <1>0 DEF TypeOK
        <3> HIDE DEF n, t
        <3> QED  BY <2>0, <3>1
    <2>2. lastToken' \in 0..MaxToken /\ Len(invitations') <= MaxInvitations  BY <1>2, <1>5, <1>7
    <2> QED  BY <1>0, <1>5, <1>6, <1>7, <1>8, <2>1, <2>2 DEF TypeOK, WorkType
<1>20. t \in Nat /\ t <= t /\ lastToken <= t /\ \A x \in Nat : x <= lastToken => x <= t /\ x # t  BY <1>2
<1>21. \A i \in Ids : invitations[i].token <= t  BY <1>2, <1>9
<1> HIDE DEF n, t
<1>11. WorkInv'
    <2>1. ASSUME NEW g \in Handler, At(g, "inserting")'
          PROVE  handler'[g].invitation = 0 /\ handler'[g].email \in Address
        <3>1. g # h  BY <1>4, <1>8, <2>1 DEF At
        <3> QED  BY <1>0, <1>8, <2>1, <3>1 DEF WorkInv, At
    <2>2. ASSUME NEW g \in Handler, HasRow(g)'
          PROVE  /\ handler'[g].invitation \in Ids' /\ handler'[g].token \in 1..MaxToken
                 /\ handler'[g].email = invitations'[handler'[g].invitation].email
                 /\ handler'[g].role = invitations'[handler'[g].invitation].role
        <3>1. CASE g = h  BY <1>2, <1>3, <1>4, <1>7, <1>8, <3>1
        <3>2. CASE g # h
            <4>1. handler'[g] = handler[g] /\ HasRow(g)  BY <1>8, <2>2, <3>2 DEF HasRow
            <4> QED  BY <1>0, <1>7, <4>1 DEF WorkInv
        <3> QED  BY <3>1, <3>2
    <2>3. ASSUME NEW g \in Handler, At(g, "redeeming")'
          PROVE  /\ Open(handler[g].invitation)' /\ handler'[g].token = invitations'[handler'[g].invitation].token
                 /\ \A f \in Handler : At(f, "redeeming")' /\ handler'[f].invitation = handler'[g].invitation => f = g
        <3>1. \A f \in Handler : At(f, "redeeming")' => At(f, "redeeming") /\ handler'[f] = handler[f]
              BY <1>4, <1>8 DEF At
        <3>2. At(g, "redeeming") /\ handler'[g] = handler[g] /\ handler[g].invitation \in Ids
              BY <1>0, <2>3, <3>1 DEF WorkInv, At, HasRow
        <3>3. invitations'[handler[g].invitation] = invitations[handler[g].invitation]  BY <1>7, <3>2
        <3>4. Open(handler[g].invitation)'  BY <1>0, <3>2, <3>3 DEF WorkInv, Open
        <3> QED  BY <1>0, <3>1, <3>2, <3>3, <3>4 DEF WorkInv
    <2>4. \A g \in Handler : At(g, "redeeming")' => handler'[g] = handler[g]  BY <1>4, <1>8 DEF At
    <2> QED  BY <2>1, <2>2, <2>3, <2>4 DEF WorkInv
<1>12. TokenInv'
    <2>1. \A i \in Ids' : invitations'[i].token <= lastToken'  BY <1>3, <1>5, <1>7, <1>20, <1>21
    <2>2. inbox \subseteq Address \X (1..MaxToken)  BY <1>0 DEF TypeOK
    <2>3. \A m \in inbox : m[2] <= lastToken /\ m[2] \in Nat  BY <1>0, <2>2 DEF TokenInv
    <2>4. \A m \in inbox' : m[2] <= lastToken' /\ m[2] # t  BY <1>20, <1>5, <1>6, <2>3
    <2>5. \A g \in Handler : g # h /\ Mailing(g)' =>
              /\ Mailing(g) /\ handler'[g] = handler[g] /\ handler[g].token <= lastToken /\ handler[g].token \in Nat
        <3>1. \A g \in Handler : handler[g].token \in 0..MaxToken  BY <1>0, Types DEF WorkType
        <3> QED  BY <1>0, <1>8, <3>1 DEF TokenInv, Mailing
    <2>6. ASSUME NEW g \in Handler, Mailing(g)'
          PROVE  /\ handler'[g].token <= lastToken'
                 /\ \A f \in Handler : Mailing(f)' /\ handler'[f].token = handler'[g].token => f = g
                 /\ \A i \in Ids' : invitations'[i].token = handler'[g].token => handler'[g].invitation = i
                 /\ \A m \in inbox' : m[2] = handler'[g].token => m[1] = handler'[g].email
        <3>1. CASE g = h
            <4>1. handler'[g].token = t /\ handler'[g].invitation = n  BY <1>4, <1>8, <3>1
            <4>2. \A f \in Handler : Mailing(f)' /\ handler'[f].token = t => f = h  BY <1>20, <2>5
            <4>3. \A i \in Ids' : invitations'[i].token = t => i = n  BY <1>7, <1>9
            <4>4. t <= lastToken' /\ \A m \in inbox' : m[2] # t  BY <1>20, <1>5, <2>4
            <4> QED  BY <3>1, <4>1, <4>2, <4>3, <4>4
        <3>2. CASE g # h
            <4>1. /\ Mailing(g) /\ handler'[g] = handler[g] /\ handler[g].token <= lastToken
                  /\ handler[g].token \in Nat /\ handler[g].token # t /\ handler[g].token <= t
                  BY <1>20, <2>5, <2>6, <3>2
            <4>2. \A f \in Handler : Mailing(f)' /\ handler'[f].token = handler[g].token => f = g
                  BY <1>0, <1>4, <1>8, <2>5, <4>1 DEF TokenInv
            <4>3. \A i \in Ids' : invitations'[i].token = handler[g].token => handler[g].invitation = i
                  BY <1>0, <1>3, <1>7, <4>1 DEF TokenInv
            <4>4. handler[g].token <= lastToken' /\ \A m \in inbox' : m[2] = handler[g].token => m[1] = handler[g].email
                  BY <1>0, <1>5, <1>6, <4>1 DEF TokenInv
            <4> QED  BY <4>1, <4>2, <4>3, <4>4
        <3> QED  BY <3>1, <3>2
    <2> QED  BY <2>1, <2>4, <2>6 DEF TokenInv
<1>13. LookInv'
    <2>1. ASSUME NEW g \in Handler, At(g, "inserting")', handler'[g].email \notin overlapped'
          PROVE  /\ \A i \in Ids' : invitations'[i].email = handler'[g].email => ~Live(i)'
                 /\ \A f \in Handler : At(f, "inserting")' /\ handler'[f].email = handler'[g].email => f = g
        <3>1. g # h /\ handler'[g] = handler[g] /\ At(g, "inserting") /\ handler[g].email \notin overlapped
              BY <1>4, <1>5, <1>8, <2>1 DEF At
        <3>2. handler[h].email # handler[g].email  BY <1>0, <1>1, <3>1 DEF LookInv
        <3>3. \A i \in Ids : invitations'[i].email = handler[g].email => ~Live(i)'
              BY <1>0, <1>7, <1>9, <3>1 DEF LookInv
        <3>4. invitations'[n].email # handler[g].email  BY <1>3, <1>7, <3>2
        <3>5. \A f \in Handler : At(f, "inserting")' => At(f, "inserting") /\ handler'[f] = handler[f]
              BY <1>4, <1>8 DEF At
        <3> QED  BY <1>0, <1>7, <3>1, <3>3, <3>4, <3>5 DEF LookInv
    <2> QED  BY <2>1 DEF LookInv
<1>14. SentInv'  BY <1>0, <1>4, <1>6, <1>8 DEF SentInv, At
<1>15. SpentOnce'
    <2>1. RowsStaySpent
        <3>1. \A i \in Ids' : i \notin Ids => ~invitations'[i].used  BY <1>3, <1>7
        <3> QED  BY <1>7, <3>1 DEF RowsStaySpent
    <2>2. SigningInGoesOn  BY <1>1, <1>5, <1>8 DEF SigningInGoesOn, At
    <2> QED  BY <1>5, <2>1, <2>2, SpentKept DEF IInv
<1>16. OneActiveUnlessOverlapped'
    <2>1. \A i, j \in Ids : Live(i)' /\ Live(j)' /\ invitations'[i].email = invitations'[j].email =>
              i = j \/ invitations'[i].email \in overlapped'
          BY <1>5, <1>7, <1>9 DEF IInv, OneActiveUnlessOverlapped
    <2>2. \A i \in Ids : Live(i)' /\ invitations'[i].email = handler[h].email => handler[h].email \in overlapped'
          BY <1>0, <1>1, <1>5, <1>7, <1>9 DEF LookInv
    <2>3. invitations'[n].email = handler[h].email  BY <1>3, <1>7
    <2> QED  BY <1>7, <2>1, <2>2, <2>3 DEF OneActiveUnlessOverlapped
<1>17. WorkingLinkArrives'
    <2> SUFFICES ASSUME provider = "smtp" PROVE WorkingLinkArrives'  BY <1>6 DEF WorkingLinkArrives
    <2>1. WorkingLinkArrives  BY DEF IInv
    <2>2. \A g \in Handler : handler[g].at \in {"mailing", "recording"} => handler'[g] = handler[g]
          BY <1>1, <1>8 DEF At
    <2>3. \A i \in Ids' : \/ <<invitations'[i].email, invitations'[i].token>> \in inbox'
                          \/ i \in troubled'
                          \/ \E g \in Handler : handler'[g].at = "mailing" /\ handler'[g].token = invitations'[i].token
        <3>1. handler'[h].at = "mailing" /\ handler'[h].token = invitations'[n].token  BY <1>3, <1>4, <1>7, <1>8
        <3>2. \A i \in Ids : \/ <<invitations[i].email, invitations[i].token>> \in inbox
                             \/ i \in troubled
                             \/ \E g \in Handler : handler'[g].at = "mailing" /\ handler'[g].token = invitations[i].token
              BY <2>1, <2>2 DEF WorkingLinkArrives
        <3>3. \A i \in Ids : invitations'[i] = invitations[i]  BY <1>7
        <3>4. inbox' = inbox /\ troubled' = troubled /\ \A i \in Ids' : i \in Ids \/ i = n  BY <1>5, <1>6, <1>7
        <3> QED  BY <3>1, <3>2, <3>3, <3>4
    <2>4. \A m \in inbox : \/ \E s \in outbox : s.recipient = m[1] /\ s.token = m[2]
                           \/ \E g \in Handler : handler'[g].at = "recording" /\ handler'[g].token = m[2]
                           \/ troubled # {}
          BY <2>1, <2>2 DEF WorkingLinkArrives
    <2>5. \A s \in outbox : s.status = "SENT" => <<s.recipient, s.token>> \in inbox  BY <2>1 DEF WorkingLinkArrives
    <2> QED  BY <1>5, <1>6, <2>3, <2>4, <2>5 DEF WorkingLinkArrives
<1> QED  BY <1>10, <1>11, <1>12, <1>13, <1>14, <1>15, <1>16, <1>17 DEF IInv

(* An invitation is sent again, with a new token. *)
LEMMA Resent ==
    ASSUME IInv, NEW h \in Handler, Resend(h)
    PROVE  IInv'
<1> DEFINE t == lastToken + 1
<1>0. TypeOK /\ WorkInv /\ TokenInv /\ LookInv /\ SentInv  BY DEF IInv
<1>1. PICK n \in Ids :
          /\ Live(n) /\ ~Locked(n)
          /\ invitations' = [invitations EXCEPT ![n].token = lastToken + 1]
          /\ handler' = [handler EXCEPT ![h] =
                Work("mailing", n, lastToken + 1, invitations[n].email, invitations[n].role)]
      BY DEF Resend
<1> DEFINE r == [invitations[n] EXCEPT !.token = t]
           w == Work("mailing", n, t, invitations[n].email, invitations[n].role)
<1>2. /\ lastToken \in Nat /\ t \in 1..MaxToken /\ n \in 0..MaxInvitations /\ invitations[n] \in Invitation
      /\ invitations[n].email \in Address /\ invitations[n].role \in Role
    <2>1. /\ lastToken \in Nat /\ lastToken < MaxToken /\ MaxToken \in Nat /\ MaxInvitations \in Nat
          /\ n \in 1..MaxInvitations /\ invitations[n] \in Invitation
          BY <1>0, Types DEF Resend
    <2> QED  BY <2>1 DEF Invitation
<1>3. /\ r \in Invitation /\ r.token = t /\ r.email = invitations[n].email /\ r.role = invitations[n].role
      /\ r.used = invitations[n].used /\ r.revoked = invitations[n].revoked /\ r.expired = invitations[n].expired
      BY <1>2, RowShape
<1>4. /\ w \in WorkType /\ w.at = "mailing" /\ w.invitation = n /\ w.token = t
      /\ w.email = invitations[n].email /\ w.role = invitations[n].role
      BY <1>2, WorkShape
<1>5. /\ lastToken' = t /\ handler[h].at = "idle"
      /\ UNCHANGED <<users, sessions, mail, accepted, overlapped, troubled>>
      BY DEF Resend
<1>6. provider' = provider /\ inbox' = inbox /\ outbox' = outbox  BY <1>5 DEF mail
<1>7. /\ invitations' \in Seq(Invitation) /\ Len(invitations') = Len(invitations) /\ Ids' = Ids
      /\ invitations'[n] = r /\ \A i \in Ids : i # n => invitations'[i] = invitations[i]
    <2>1. invitations' = [invitations EXCEPT ![n] = r]  BY <1>1
    <2> HIDE DEF r
    <2> QED  BY <1>0, <1>3, <2>1, RowStep
<1>8. /\ handler' \in [Handler -> WorkType] /\ handler'[h] = w
      /\ \A g \in Handler : g # h => handler'[g] = handler[g]
    <2>1. handler' = [handler EXCEPT ![h] = w]  BY <1>1
    <2> HIDE DEF w
    <2> QED  BY <1>0, <1>4, <2>1, HandlerStep
<1> HIDE DEF r, w
<1>9. /\ \A i \in Ids : invitations[i].token \in Nat /\ invitations[i].token <= lastToken
      /\ \A x \in Nat : x <= lastToken => x <= t /\ x # t
      /\ t \in Nat /\ t <= t
    <2>1. \A i \in Ids : invitations[i].token \in 1..MaxToken  BY <1>0, Types DEF Invitation
    <2>2. \A i \in Ids : invitations[i].token <= lastToken  BY <1>0 DEF TokenInv
    <2> QED  BY <1>2, <2>1, <2>2
<1> HIDE DEF t
<1>10. \A i \in Ids : /\ invitations'[i].email = invitations[i].email /\ invitations'[i].role = invitations[i].role
                      /\ invitations'[i].used = invitations[i].used /\ invitations'[i].revoked = invitations[i].revoked
                      /\ invitations'[i].expired = invitations[i].expired
       BY <1>3, <1>7
<1>11. ~invitations[n].used /\ \A g \in Handler : At(g, "redeeming") => handler[g].invitation # n
       BY <1>1 DEF Live, Open, Locked, At
<1>12. \A i \in Ids : Live(i)' = Live(i) /\ Open(i)' = Open(i)  BY <1>10 DEF Live, Open
<1>13. TypeOK'
    <2>1. \A i, j \in Ids : invitations[i].token = invitations[j].token => i = j  BY <1>0 DEF TypeOK
    <2>2. \A i, j \in Ids' : invitations'[i].token = invitations'[j].token => i = j
          BY <1>3, <1>7, <1>9, <2>1
    <2>3. lastToken' \in 0..MaxToken /\ Len(invitations') <= MaxInvitations  BY <1>0, <1>2, <1>5, <1>7, Types
    <2> QED  BY <1>0, <1>5, <1>6, <1>7, <1>8, <2>2, <2>3 DEF TypeOK, WorkType
<1>14. WorkInv'
    <2>1. ASSUME NEW g \in Handler, At(g, "inserting")'
          PROVE  handler'[g].invitation = 0 /\ handler'[g].email \in Address
        <3>1. g # h  BY <1>4, <1>8, <2>1 DEF At
        <3> QED  BY <1>0, <1>8, <2>1, <3>1 DEF WorkInv, At
    <2>2. ASSUME NEW g \in Handler, HasRow(g)'
          PROVE  /\ handler'[g].invitation \in Ids' /\ handler'[g].token \in 1..MaxToken
                 /\ handler'[g].email = invitations'[handler'[g].invitation].email
                 /\ handler'[g].role = invitations'[handler'[g].invitation].role
        <3>1. CASE g = h  BY <1>2, <1>3, <1>4, <1>7, <1>8, <3>1
        <3>2. CASE g # h
            <4>1. handler'[g] = handler[g] /\ HasRow(g)  BY <1>8, <2>2, <3>2 DEF HasRow
            <4> QED  BY <1>0, <1>7, <1>10, <4>1 DEF WorkInv
        <3> QED  BY <3>1, <3>2
    <2>3. ASSUME NEW g \in Handler, At(g, "redeeming")'
          PROVE  /\ Open(handler[g].invitation)' /\ handler'[g].token = invitations'[handler'[g].invitation].token
                 /\ \A f \in Handler : At(f, "redeeming")' /\ handler'[f].invitation = handler'[g].invitation => f = g
        <3>1. \A f \in Handler : At(f, "redeeming")' => At(f, "redeeming") /\ handler'[f] = handler[f]
              BY <1>4, <1>8 DEF At
        <3>2. At(g, "redeeming") /\ handler'[g] = handler[g] /\ handler[g].invitation \in Ids
              BY <1>0, <2>3, <3>1 DEF WorkInv, At, HasRow
        <3>3. invitations'[handler[g].invitation] = invitations[handler[g].invitation]  BY <1>7, <1>11, <3>2
        <3>4. Open(handler[g].invitation)'  BY <1>0, <3>2, <3>3 DEF WorkInv, Open
        <3> QED  BY <1>0, <3>1, <3>2, <3>3, <3>4 DEF WorkInv
    <2>4. \A g \in Handler : At(g, "redeeming")' => handler'[g] = handler[g]  BY <1>4, <1>8 DEF At
    <2> QED  BY <2>1, <2>2, <2>3, <2>4 DEF WorkInv
<1>15. TokenInv'
    <2>1. \A i \in Ids' : invitations'[i].token <= lastToken'  BY <1>3, <1>5, <1>7, <1>9
    <2>2. inbox \subseteq Address \X (1..MaxToken)  BY <1>0 DEF TypeOK
    <2>3. \A m \in inbox : m[2] <= lastToken /\ m[2] \in Nat  BY <1>0, <2>2 DEF TokenInv
    <2>4. \A m \in inbox' : m[2] <= lastToken' /\ m[2] # t  BY <1>5, <1>6, <1>9, <2>3
    <2>5. \A g \in Handler : g # h /\ Mailing(g)' =>
              /\ Mailing(g) /\ handler'[g] = handler[g] /\ handler[g].token <= lastToken /\ handler[g].token \in Nat
        <3>1. \A g \in Handler : handler[g].token \in 0..MaxToken  BY <1>0, Types DEF WorkType
        <3> QED  BY <1>0, <1>8, <3>1 DEF TokenInv, Mailing
    <2>6. ASSUME NEW g \in Handler, Mailing(g)'
          PROVE  /\ handler'[g].token <= lastToken'
                 /\ \A f \in Handler : Mailing(f)' /\ handler'[f].token = handler'[g].token => f = g
                 /\ \A i \in Ids' : invitations'[i].token = handler'[g].token => handler'[g].invitation = i
                 /\ \A m \in inbox' : m[2] = handler'[g].token => m[1] = handler'[g].email
        <3>1. CASE g = h
            <4>1. handler'[g].token = t /\ handler'[g].invitation = n  BY <1>4, <1>8, <3>1
            <4>2. \A f \in Handler : Mailing(f)' /\ handler'[f].token = t => f = h  BY <1>9, <2>5
            <4>3. \A i \in Ids' : invitations'[i].token = t => i = n  BY <1>7, <1>9
            <4>4. t <= lastToken' /\ \A m \in inbox' : m[2] # t  BY <1>5, <1>9, <2>4
            <4> QED  BY <3>1, <4>1, <4>2, <4>3, <4>4
        <3>2. CASE g # h
            <4>1. /\ Mailing(g) /\ handler'[g] = handler[g] /\ handler[g].token <= lastToken
                  /\ handler[g].token \in Nat /\ handler[g].token # t /\ handler[g].token <= t
                  BY <1>9, <2>5, <2>6, <3>2
            <4>2. \A f \in Handler : Mailing(f)' /\ handler'[f].token = handler[g].token => f = g
                  BY <1>0, <1>4, <1>8, <2>5, <4>1 DEF TokenInv
            <4>3. \A i \in Ids' : invitations'[i].token = handler[g].token => handler[g].invitation = i
                  BY <1>0, <1>3, <1>7, <4>1 DEF TokenInv
            <4>4. handler[g].token <= lastToken' /\ \A m \in inbox' : m[2] = handler[g].token => m[1] = handler[g].email
                  BY <1>0, <1>5, <1>6, <4>1 DEF TokenInv
            <4> QED  BY <4>1, <4>2, <4>3, <4>4
        <3> QED  BY <3>1, <3>2
    <2> QED  BY <2>1, <2>4, <2>6 DEF TokenInv
<1>16. \A g \in Handler : At(g, "inserting")' => At(g, "inserting") /\ handler'[g] = handler[g]
       BY <1>4, <1>8 DEF At
<1>17. LookInv'  BY <1>0, <1>5, <1>7, <1>10, <1>12, <1>16 DEF LookInv
<1>18. SentInv'  BY <1>0, <1>4, <1>6, <1>8 DEF SentInv, At
<1>19. SpentOnce'
    <2>1. RowsStaySpent
        <3>1. \A i \in Ids : invitations[i].used => invitations'[i].token = invitations[i].token  BY <1>7, <1>11
        <3> QED  BY <1>7, <1>10, <3>1 DEF RowsStaySpent
    <2>2. SigningInGoesOn  BY <1>5, <1>8 DEF SigningInGoesOn, At
    <2> QED  BY <1>5, <2>1, <2>2, SpentKept DEF IInv
<1>20. OneActiveUnlessOverlapped'  BY <1>5, <1>7, <1>10, <1>12 DEF IInv, OneActiveUnlessOverlapped
<1>21. WorkingLinkArrives'
    <2> SUFFICES ASSUME provider = "smtp" PROVE WorkingLinkArrives'  BY <1>6 DEF WorkingLinkArrives
    <2>1. WorkingLinkArrives  BY DEF IInv
    <2>2. \A g \in Handler : handler[g].at \in {"mailing", "recording"} => handler'[g] = handler[g]  BY <1>5, <1>8
    <2>3. \A i \in Ids' : \/ <<invitations'[i].email, invitations'[i].token>> \in inbox'
                          \/ i \in troubled'
                          \/ \E g \in Handler : handler'[g].at = "mailing" /\ handler'[g].token = invitations'[i].token
        <3>1. handler'[h].at = "mailing" /\ handler'[h].token = invitations'[n].token  BY <1>3, <1>4, <1>7, <1>8
        <3>2. \A i \in Ids : \/ <<invitations[i].email, invitations[i].token>> \in inbox
                             \/ i \in troubled
                             \/ \E g \in Handler : handler'[g].at = "mailing" /\ handler'[g].token = invitations[i].token
              BY <2>1, <2>2 DEF WorkingLinkArrives
        <3>3. inbox' = inbox /\ troubled' = troubled  BY <1>5, <1>6
        <3> QED  BY <1>7, <3>1, <3>2, <3>3
    <2>4. \A m \in inbox : \/ \E s \in outbox : s.recipient = m[1] /\ s.token = m[2]
                           \/ \E g \in Handler : handler'[g].at = "recording" /\ handler'[g].token = m[2]
                           \/ troubled # {}
          BY <2>1, <2>2 DEF WorkingLinkArrives
    <2>5. \A s \in outbox : s.status = "SENT" => <<s.recipient, s.token>> \in inbox  BY <2>1 DEF WorkingLinkArrives
    <2> QED  BY <1>5, <1>6, <2>3, <2>4, <2>5 DEF WorkingLinkArrives
<1> QED  BY <1>13, <1>14, <1>15, <1>17, <1>18, <1>19, <1>20, <1>21 DEF IInv

(* An invitation is revoked, ... *)
LEMMA Revoked ==
    ASSUME IInv, NEW i \in Ids, Revoke(i)
    PROVE  IInv'
<1> DEFINE r == [invitations[i] EXCEPT !.revoked = TRUE]
<1>0. TypeOK /\ WorkInv /\ TokenInv /\ LookInv /\ SentInv /\ OneActiveUnlessOverlapped  BY DEF IInv
<1>1. invitations[i] \in Invitation /\ invitations' = [invitations EXCEPT ![i] = r]  BY <1>0, Types DEF Revoke
<1>2. /\ r \in Invitation /\ r.revoked /\ r.token = invitations[i].token /\ r.email = invitations[i].email
      /\ r.role = invitations[i].role /\ r.used = invitations[i].used /\ r.expired = invitations[i].expired
      BY <1>1, RowShape
<1> HIDE DEF r
<1>3. /\ invitations' \in Seq(Invitation) /\ Len(invitations') = Len(invitations)
      /\ Ids' = Ids /\ invitations'[i] = r /\ \A j \in Ids : j # i => invitations'[j] = invitations[j]
      BY <1>0, <1>1, <1>2, RowStep
<1>4. /\ handler' = handler /\ lastToken' = lastToken /\ overlapped' = overlapped /\ accepted' = accepted
      /\ users' = users /\ sessions' = sessions /\ troubled' = troubled /\ UNCHANGED mail
      /\ ~invitations[i].used /\ ~Locked(i)
      BY DEF Revoke, Open
<1>5. inbox' = inbox /\ outbox' = outbox /\ provider' = provider  BY <1>4 DEF mail
<1>6. SameLinks  BY <1>2, <1>3 DEF SameLinks
<1>7. NoneRevived  BY <1>2, <1>3 DEF NoneRevived, Live, Open
<1>8. LocksHold
    <2>1. ASSUME NEW h \in Handler, At(h, "redeeming"), Open(handler[h].invitation)
          PROVE  ~invitations'[handler[h].invitation].used /\ ~invitations'[handler[h].invitation].revoked
        <3>1. handler[h].invitation \in Ids /\ handler[h].invitation # i
              BY <1>0, <1>4, <2>1 DEF WorkInv, HasRow, At, Locked
        <3> QED  BY <1>3, <2>1, <3>1 DEF Open
    <2> QED  BY <2>1 DEF LocksHold
<1>9. WorkInv' /\ TokenInv' /\ LookInv' /\ SentInv' /\ OneActiveUnlessOverlapped'
      BY <1>0, <1>4, <1>5, <1>6, <1>7, <1>8, RowsMayClose
<1>10. TypeOK'
    <2>0. \A j, k \in Ids : invitations[j].token = invitations[k].token => j = k  BY <1>0 DEF TypeOK
    <2>1. \A j, k \in Ids' : invitations'[j].token = invitations'[k].token => j = k  BY <1>6, <2>0 DEF SameLinks
    <2> QED  BY <1>0, <1>3, <1>4, <1>5, <2>1 DEF TypeOK
<1>11. RowsStaySpent /\ SigningInGoesOn  BY <1>2, <1>3, <1>4 DEF RowsStaySpent, SigningInGoesOn
<1>12. SpentOnce'  BY <1>4, <1>11, SpentKept DEF IInv
<1>13. MailGoesOn  BY <1>4 DEF MailGoesOn
<1>14. WorkingLinkArrives'  BY <1>0, <1>4, <1>6, <1>13, LinkKept DEF IInv
<1> QED  BY <1>9, <1>10, <1>12, <1>14 DEF IInv

(* ... or expires. *)
LEMMA Expired ==
    ASSUME IInv, NEW i \in Ids, Expire(i)
    PROVE  IInv'
<1> DEFINE r == [invitations[i] EXCEPT !.expired = TRUE]
<1>0. TypeOK /\ WorkInv /\ TokenInv /\ LookInv /\ SentInv /\ OneActiveUnlessOverlapped  BY DEF IInv
<1>1. invitations[i] \in Invitation /\ invitations' = [invitations EXCEPT ![i] = r]  BY <1>0, Types DEF Expire
<1>2. /\ r \in Invitation /\ r.expired /\ r.token = invitations[i].token /\ r.email = invitations[i].email
      /\ r.role = invitations[i].role /\ r.used = invitations[i].used /\ r.revoked = invitations[i].revoked
      BY <1>1, RowShape
<1> HIDE DEF r
<1>3. /\ invitations' \in Seq(Invitation) /\ Len(invitations') = Len(invitations)
      /\ Ids' = Ids /\ invitations'[i] = r /\ \A j \in Ids : j # i => invitations'[j] = invitations[j]
      BY <1>0, <1>1, <1>2, RowStep
<1>4. /\ handler' = handler /\ lastToken' = lastToken /\ overlapped' = overlapped /\ accepted' = accepted
      /\ users' = users /\ sessions' = sessions /\ troubled' = troubled /\ UNCHANGED mail
      BY DEF Expire
<1>5. inbox' = inbox /\ outbox' = outbox /\ provider' = provider  BY <1>4 DEF mail
<1>6. SameLinks  BY <1>2, <1>3 DEF SameLinks
<1>7. NoneRevived  BY <1>2, <1>3 DEF NoneRevived, Live, Open
<1>8. LocksHold
    <2>1. ASSUME NEW h \in Handler, At(h, "redeeming"), Open(handler[h].invitation)
          PROVE  ~invitations'[handler[h].invitation].used /\ ~invitations'[handler[h].invitation].revoked
        <3>1. handler[h].invitation \in Ids  BY <1>0, <2>1 DEF WorkInv, HasRow, At
        <3>2. /\ invitations'[handler[h].invitation].used = invitations[handler[h].invitation].used
              /\ invitations'[handler[h].invitation].revoked = invitations[handler[h].invitation].revoked
              BY <1>2, <1>3, <3>1
        <3> QED  BY <2>1, <3>2 DEF Open
    <2> QED  BY <2>1 DEF LocksHold
<1>9. WorkInv' /\ TokenInv' /\ LookInv' /\ SentInv' /\ OneActiveUnlessOverlapped'
      BY <1>0, <1>4, <1>5, <1>6, <1>7, <1>8, RowsMayClose
<1>10. TypeOK'
    <2>0. \A j, k \in Ids : invitations[j].token = invitations[k].token => j = k  BY <1>0 DEF TypeOK
    <2>1. \A j, k \in Ids' : invitations'[j].token = invitations'[k].token => j = k  BY <1>6, <2>0 DEF SameLinks
    <2> QED  BY <1>0, <1>3, <1>4, <1>5, <2>1 DEF TypeOK
<1>11. RowsStaySpent /\ SigningInGoesOn  BY <1>2, <1>3, <1>4 DEF RowsStaySpent, SigningInGoesOn
<1>12. SpentOnce'  BY <1>4, <1>11, SpentKept DEF IInv
<1>13. MailGoesOn  BY <1>4 DEF MailGoesOn
<1>14. WorkingLinkArrives'  BY <1>0, <1>4, <1>6, <1>13, LinkKept DEF IInv
<1> QED  BY <1>9, <1>10, <1>12, <1>14 DEF IInv

(* A transaction has found and locked the row to redeem. *)
LEMMA Redeeming ==
    ASSUME IInv, NEW h \in Handler, Redeem(h)
    PROVE  IInv'
<1>0. TypeOK /\ WorkInv /\ TokenInv /\ LookInv /\ SentInv  BY DEF IInv
<1>1. PICK n \in Ids :
          /\ Live(n) /\ ~Locked(n)
          /\ handler' = [handler EXCEPT ![h] =
                Work("redeeming", n, invitations[n].token, invitations[n].email, invitations[n].role)]
      BY DEF Redeem
<1> DEFINE w == Work("redeeming", n, invitations[n].token, invitations[n].email, invitations[n].role)
<1>2. /\ handler[h].at = "idle" /\ invitations' = invitations /\ users' = users /\ sessions' = sessions
      /\ lastToken' = lastToken /\ UNCHANGED mail /\ accepted' = accepted /\ overlapped' = overlapped
      /\ troubled' = troubled
      BY DEF Redeem
<1>3. /\ n \in 0..MaxInvitations /\ invitations[n].token \in 1..MaxToken /\ invitations[n].token \in 0..MaxToken
      /\ invitations[n].email \in Address /\ invitations[n].role \in Role
    <2>1. n \in 1..MaxInvitations /\ MaxInvitations \in Nat /\ MaxToken \in Nat /\ invitations[n] \in Invitation
          BY <1>0, Types
    <2>2. /\ invitations[n].token \in 1..MaxToken /\ invitations[n].email \in Address /\ invitations[n].role \in Role
          BY <2>1 DEF Invitation
    <2> QED  BY <2>1, <2>2
<1>4. /\ w \in WorkType /\ w.at = "redeeming" /\ w.invitation = n /\ w.token = invitations[n].token
      /\ w.email = invitations[n].email /\ w.role = invitations[n].role
      BY <1>3, WorkShape
<1>5. /\ handler' \in [Handler -> WorkType] /\ handler'[h] = w
      /\ \A g \in Handler : g # h => handler'[g] = handler[g]
    <2>1. handler' = [handler EXCEPT ![h] = w]  BY <1>1
    <2> HIDE DEF w
    <2> QED  BY <1>0, <1>4, <2>1, HandlerStep
<1> HIDE DEF w
<1>6. inbox' = inbox /\ outbox' = outbox /\ provider' = provider  BY <1>2 DEF mail
<1>7. overlapped \subseteq Address /\ troubled \subseteq 1..MaxInvitations  BY <1>0 DEF TypeOK
<1>8. TypeOK' /\ Ids' = Ids  BY <1>0, <1>2, <1>5, <1>7, TypesHandler
<1>9. \A i \in Ids : Open(i)' = Open(i) /\ Live(i)' = Live(i)  BY <1>2 DEF Open, Live
<1>10. Open(n) /\ \A g \in Handler : At(g, "redeeming") => handler[g].invitation # n
       BY <1>1 DEF Live, Locked, At
<1>11. WorkInv'
    <2>1. ASSUME NEW g \in Handler, At(g, "inserting")'
          PROVE  handler'[g].invitation = 0 /\ handler'[g].email \in Address
        <3>1. g # h  BY <1>4, <1>5, <2>1 DEF At
        <3> QED  BY <1>0, <1>5, <2>1, <3>1 DEF WorkInv, At
    <2>2. ASSUME NEW g \in Handler, HasRow(g)'
          PROVE  /\ handler'[g].invitation \in Ids' /\ handler'[g].token \in 1..MaxToken
                 /\ handler'[g].email = invitations'[handler'[g].invitation].email
                 /\ handler'[g].role = invitations'[handler'[g].invitation].role
        <3>1. CASE g = h  BY <1>2, <1>3, <1>4, <1>5, <1>8, <3>1
        <3>2. CASE g # h
            <4>1. handler'[g] = handler[g] /\ HasRow(g)  BY <1>5, <2>2, <3>2 DEF HasRow
            <4> QED  BY <1>0, <1>2, <1>8, <4>1 DEF WorkInv
        <3> QED  BY <3>1, <3>2
    <2>3. ASSUME NEW g \in Handler, At(g, "redeeming")'
          PROVE  /\ ~invitations[handler'[g].invitation].used /\ ~invitations[handler'[g].invitation].revoked
                 /\ handler'[g].token = invitations[handler'[g].invitation].token
                 /\ \A f \in Handler : At(f, "redeeming")' /\ handler'[f].invitation = handler'[g].invitation => f = g
        <3>1. \A f \in Handler : f # h /\ At(f, "redeeming")' =>
                  At(f, "redeeming") /\ handler'[f] = handler[f] /\ handler[f].invitation # n
              BY <1>5, <1>10 DEF At
        <3>2. CASE g = h  BY <1>4, <1>5, <1>10, <3>1, <3>2 DEF Open
        <3>3. CASE g # h
            <4>1. At(g, "redeeming") /\ handler'[g] = handler[g] /\ handler[g].invitation # n  BY <2>3, <3>1, <3>3
            <4> QED  BY <1>0, <1>4, <1>5, <3>1, <4>1 DEF WorkInv, Open
        <3> QED  BY <3>2, <3>3
    <2> QED  BY <1>2, <2>1, <2>2, <2>3 DEF WorkInv, Open
<1>12. \A g \in Handler : Mailing(g)' => Mailing(g) /\ handler'[g] = handler[g]  BY <1>4, <1>5 DEF Mailing
<1>13. TokenInv'  BY <1>0, <1>2, <1>6, <1>8, <1>12 DEF TokenInv
<1>14. \A g \in Handler : At(g, "inserting")' => At(g, "inserting") /\ handler'[g] = handler[g]
       BY <1>4, <1>5 DEF At
<1>15. LookInv'  BY <1>0, <1>2, <1>8, <1>9, <1>14 DEF LookInv
<1>16. SentInv'  BY <1>0, <1>4, <1>5, <1>6 DEF SentInv, At
<1>17. RowsStaySpent /\ SigningInGoesOn  BY <1>2, <1>5, <1>8 DEF RowsStaySpent, SigningInGoesOn, At
<1>18. SpentOnce'  BY <1>2, <1>17, SpentKept DEF IInv
<1>19. OneActiveUnlessOverlapped'  BY <1>2, <1>8, <1>9 DEF IInv, OneActiveUnlessOverlapped
<1>20. SameLinks /\ MailGoesOn  BY <1>2, <1>5, <1>8 DEF SameLinks, MailGoesOn, Mailing
<1>21. WorkingLinkArrives'  BY <1>0, <1>2, <1>20, LinkKept DEF IInv
<1> QED  BY <1>8, <1>11, <1>13, <1>15, <1>16, <1>18, <1>19, <1>21 DEF IInv

(* Without a mail server nothing is sent. *)
LEMMA MailNotSent ==
    ASSUME IInv, NEW h \in Handler, NotSent(h)
    PROVE  IInv'
<1>0. TypeOK  BY DEF IInv
<1>1. /\ Finish(h) /\ provider = "log" /\ At(h, "mailing") /\ UNCHANGED <<invitations, users, sessions, lastToken, mail, accepted>>
      /\ overlapped' = overlapped /\ troubled' = troubled
      BY DEF NotSent, At
<1>2. /\ invitations' = invitations /\ lastToken' = lastToken /\ inbox' = inbox /\ provider' = provider
      /\ accepted' = accepted /\ users' = users /\ sessions' = sessions
      BY <1>1 DEF mail
<1>3. /\ handler' \in [Handler -> WorkType] /\ \A g \in Handler : g # h => handler'[g] = handler[g]
      /\ WorkInv' /\ TokenInv' /\ LookInv' /\ SentInv' /\ OneActiveUnlessOverlapped'
      BY <1>1, <1>2, FinishKeeps
<1>4. overlapped \subseteq Address /\ troubled \subseteq 1..MaxInvitations  BY <1>0 DEF TypeOK
<1>5. TypeOK' /\ Ids' = Ids  BY <1>0, <1>1, <1>3, <1>4, TypesHandler
<1>6. RowsStaySpent /\ SigningInGoesOn  BY <1>1, <1>2, <1>3, <1>5 DEF RowsStaySpent, SigningInGoesOn, At
<1>7. SpentOnce'  BY <1>2, <1>6, SpentKept DEF IInv
<1>8. WorkingLinkArrives'  BY <1>1, <1>2 DEF WorkingLinkArrives
<1> QED  BY <1>3, <1>5, <1>7, <1>8 DEF IInv

(* A mail arrives. *)
LEMMA MailSent ==
    ASSUME IInv, NEW h \in Handler, Send(h)
    PROVE  IInv'
<1> DEFINE w == [handler[h] EXCEPT !.at = "recording"]
           m0 == <<handler[h].email, handler[h].token>>
<1>0. TypeOK /\ WorkInv /\ TokenInv /\ LookInv /\ SentInv  BY DEF IInv
<1>1. /\ At(h, "mailing") /\ provider = "smtp" /\ inbox' = inbox \cup {m0}
      /\ handler' = [handler EXCEPT ![h] = w]
      /\ UNCHANGED <<invitations, users, sessions, lastToken, provider, outbox, accepted, overlapped, troubled>>
      BY DEF Send, At, Arrives
<1>2. handler[h] \in WorkType  BY <1>0, Types
<1>3. /\ w \in WorkType /\ w.at = "recording" /\ w.invitation = handler[h].invitation /\ w.token = handler[h].token
      /\ w.email = handler[h].email /\ w.role = handler[h].role
      BY <1>2, NextThing
<1> HIDE DEF w
<1>4. /\ handler' \in [Handler -> WorkType] /\ handler'[h] = w
      /\ \A g \in Handler : g # h => handler'[g] = handler[g]
      BY <1>0, <1>1, <1>3, HandlerStep
<1>5. Mailing(h) /\ HasRow(h)  BY <1>1 DEF At, Mailing, HasRow
<1>6. /\ handler[h].email \in Address /\ handler[h].token \in 1..MaxToken /\ handler[h].invitation \in Ids
      /\ handler[h].email = invitations[handler[h].invitation].email
    <2>1. \A i \in Ids : invitations[i].email \in Address  BY <1>0, Types DEF Invitation
    <2> QED  BY <1>0, <1>5, <2>1 DEF WorkInv
<1>7. TypeOK' /\ Ids' = Ids
    <2>1. inbox \subseteq Address \X (1..MaxToken) /\ troubled \subseteq 1..MaxInvitations
          /\ outbox \subseteq [recipient : Address, token : 1..MaxToken, status : {"SENT", "FAILED"}]
          BY <1>0 DEF TypeOK
    <2>2. inbox' \subseteq Address \X (1..MaxToken)  BY <1>1, <1>6, <2>1
    <2> QED  BY <1>0, <1>1, <1>4, <2>1, <2>2, TypesMail
<1>8. \A g \in Handler : /\ HasRow(g)' <=> HasRow(g)
                         /\ Mailing(g)' <=> Mailing(g)
                         /\ handler'[g].invitation = handler[g].invitation /\ handler'[g].token = handler[g].token
                         /\ handler'[g].email = handler[g].email /\ handler'[g].role = handler[g].role
                         /\ At(g, "redeeming")' <=> At(g, "redeeming")
                         /\ At(g, "inserting")' <=> At(g, "inserting")
    <2>1. \A g \in Handler : g # h => handler'[g] = handler[g]  BY <1>4
    <2>2. HasRow(h)' /\ Mailing(h)' /\ ~At(h, "redeeming")' /\ ~At(h, "inserting")'  BY <1>3, <1>4 DEF HasRow, Mailing, At
    <2>3. HasRow(h) /\ Mailing(h) /\ ~At(h, "redeeming") /\ ~At(h, "inserting")  BY <1>1, <1>5 DEF At
    <2> QED  BY <1>3, <1>4, <2>1, <2>2, <2>3 DEF HasRow, Mailing, At
<1>9. \A i \in Ids : Open(i)' = Open(i) /\ Live(i)' = Live(i)  BY <1>1 DEF Open, Live
<1>10. WorkInv'
    <2>1. ASSUME NEW g \in Handler
          PROVE  /\ At(g, "inserting")' => handler'[g].invitation = 0 /\ handler'[g].email \in Address
                 /\ HasRow(g)' => /\ handler'[g].invitation \in Ids' /\ handler'[g].token \in 1..MaxToken
                                  /\ handler'[g].email = invitations'[handler'[g].invitation].email
                                  /\ handler'[g].role = invitations'[handler'[g].invitation].role
          BY <1>0, <1>1, <1>7, <1>8 DEF WorkInv
    <2>2. ASSUME NEW g \in Handler, At(g, "redeeming")'
          PROVE  /\ ~invitations'[handler'[g].invitation].used /\ ~invitations'[handler'[g].invitation].revoked
                 /\ handler'[g].token = invitations'[handler'[g].invitation].token
                 /\ \A f \in Handler : At(f, "redeeming")' /\ handler'[f].invitation = handler'[g].invitation => f = g
          BY <1>0, <1>1, <1>8, <2>2 DEF WorkInv, Open
    <2> QED  BY <2>1, <2>2 DEF WorkInv, Open
<1>11. TokenInv'
    <2>1. \A m \in inbox' : m \in inbox \/ (m[1] = handler[h].email /\ m[2] = handler[h].token)  BY <1>1
    <2>2. \A m \in inbox' : m[2] <= lastToken  BY <1>0, <1>5, <2>1 DEF TokenInv
    <2>3. ASSUME NEW g \in Handler, Mailing(g)
          PROVE  \A m \in inbox' : m[2] = handler[g].token => m[1] = handler[g].email
          BY <1>0, <1>5, <2>1, <2>3 DEF TokenInv
    <2> QED  BY <1>0, <1>1, <1>7, <1>8, <2>2, <2>3 DEF TokenInv
<1>12. LookInv'  BY <1>0, <1>1, <1>7, <1>8, <1>9 DEF LookInv
<1>13. SentInv'  BY <1>0, <1>1, <1>3, <1>4 DEF SentInv, At
<1>14. RowsStaySpent /\ SigningInGoesOn  BY <1>1, <1>4, <1>7 DEF RowsStaySpent, SigningInGoesOn, At
<1>15. SpentOnce'  BY <1>1, <1>14, SpentKept DEF IInv
<1>16. OneActiveUnlessOverlapped'  BY <1>1, <1>7, <1>9 DEF IInv, OneActiveUnlessOverlapped
<1>17. WorkingLinkArrives'
    <2>1. WorkingLinkArrives  BY DEF IInv
    <2>2. ASSUME NEW i \in Ids
          PROVE  \/ <<invitations[i].email, invitations[i].token>> \in inbox'
                 \/ i \in troubled
                 \/ \E g \in Handler : handler'[g].at = "mailing" /\ handler'[g].token = invitations[i].token
        <3>1. CASE handler[h].token = invitations[i].token
            <4>1. handler[h].invitation = i  BY <1>0, <1>5, <3>1 DEF TokenInv
            <4> QED  BY <1>1, <1>6, <3>1, <4>1
        <3>2. CASE handler[h].token # invitations[i].token
            <4>1. \A g \in Handler : handler[g].at = "mailing" /\ handler[g].token = invitations[i].token =>
                      handler'[g] = handler[g]
                  BY <1>4, <3>2
            <4> QED  BY <1>1, <2>1, <4>1 DEF WorkingLinkArrives
        <3> QED  BY <3>1, <3>2
    <2>3. \A s \in outbox : s.status = "SENT" => <<s.recipient, s.token>> \in inbox'
          BY <1>1, <2>1 DEF WorkingLinkArrives
    <2>4. ASSUME NEW m \in inbox'
          PROVE  \/ \E s \in outbox : s.recipient = m[1] /\ s.token = m[2]
                 \/ \E g \in Handler : handler'[g].at = "recording" /\ handler'[g].token = m[2]
                 \/ troubled # {}
        <3>1. CASE m = m0
            <4>1. m[2] = handler[h].token  BY <3>1
            <4> QED  BY <1>3, <1>4, <4>1
        <3>2. CASE m \in inbox
            <4>1. \A g \in Handler : handler[g].at = "recording" => handler'[g] = handler[g]  BY <1>1, <1>4 DEF At
            <4> QED  BY <1>1, <2>1, <3>2, <4>1 DEF WorkingLinkArrives
        <3> QED  BY <1>1, <3>1, <3>2
    <2> QED  BY <1>1, <1>7, <2>2, <2>3, <2>4 DEF WorkingLinkArrives
<1> QED  BY <1>7, <1>10, <1>11, <1>12, <1>13, <1>15, <1>16, <1>17 DEF IInv

(* It is recorded, ... *)
LEMMA MailRecorded ==
    ASSUME IInv, NEW h \in Handler, Record(h)
    PROVE  IInv'
<1> DEFINE row == [recipient |-> handler[h].email, token |-> handler[h].token, status |-> "SENT"]
<1>0. TypeOK /\ WorkInv /\ TokenInv /\ SentInv  BY DEF IInv
<1>1. /\ Finish(h) /\ At(h, "recording") /\ outbox' = outbox \cup {row}
      /\ UNCHANGED <<invitations, users, sessions, lastToken, provider, accepted, overlapped>>
      /\ inbox' = inbox /\ troubled' = troubled
      BY DEF Record, At, Records
<1>2. Mailing(h) /\ HasRow(h)  BY <1>1 DEF At, Mailing, HasRow
<1>3. /\ handler' \in [Handler -> WorkType] /\ \A g \in Handler : g # h => handler'[g] = handler[g]
      /\ WorkInv' /\ TokenInv' /\ LookInv' /\ SentInv' /\ OneActiveUnlessOverlapped'
      BY <1>1, FinishKeeps
<1>4. handler[h].email \in Address /\ handler[h].token \in 1..MaxToken
    <2>1. \A i \in Ids : invitations[i].email \in Address  BY <1>0, Types DEF Invitation
    <2> QED  BY <1>0, <1>2, <2>1 DEF WorkInv
<1>5. TypeOK' /\ Ids' = Ids
    <2>1. inbox \subseteq Address \X (1..MaxToken) /\ troubled \subseteq 1..MaxInvitations
          /\ outbox \subseteq [recipient : Address, token : 1..MaxToken, status : {"SENT", "FAILED"}]
          BY <1>0 DEF TypeOK
    <2>2. outbox' \subseteq [recipient : Address, token : 1..MaxToken, status : {"SENT", "FAILED"}]  BY <1>1, <1>4, <2>1
    <2> QED  BY <1>0, <1>1, <1>3, <2>1, <2>2, TypesMail
<1>6. RowsStaySpent /\ SigningInGoesOn  BY <1>1, <1>3, <1>5 DEF RowsStaySpent, SigningInGoesOn, At
<1>7. SpentOnce'  BY <1>1, <1>6, SpentKept DEF IInv
<1>8. WorkingLinkArrives'
    <2> SUFFICES ASSUME provider = "smtp" PROVE WorkingLinkArrives'  BY <1>1 DEF WorkingLinkArrives
    <2>1. WorkingLinkArrives  BY DEF IInv
    <2>2. \A i \in Ids : \/ <<invitations[i].email, invitations[i].token>> \in inbox
                         \/ i \in troubled
                         \/ \E g \in Handler : handler'[g].at = "mailing" /\ handler'[g].token = invitations[i].token
        <3>1. \A g \in Handler : handler[g].at = "mailing" => handler'[g] = handler[g]  BY <1>1, <1>3 DEF At
        <3> QED  BY <2>1, <3>1 DEF WorkingLinkArrives
    <2>3. \A s \in outbox' : s.status = "SENT" => <<s.recipient, s.token>> \in inbox
        <3>1. <<row.recipient, row.token>> \in inbox  BY <1>0, <1>1 DEF SentInv
        <3> QED  BY <1>1, <2>1, <3>1 DEF WorkingLinkArrives
    <2>4. ASSUME NEW m \in inbox
          PROVE  \/ \E s \in outbox' : s.recipient = m[1] /\ s.token = m[2]
                 \/ \E g \in Handler : handler'[g].at = "recording" /\ handler'[g].token = m[2]
                 \/ troubled # {}
        <3>1. CASE m[2] = handler[h].token
            <4>1. m[1] = handler[h].email  BY <1>0, <1>2, <3>1 DEF TokenInv
            <4>2. row \in outbox' /\ row.recipient = m[1] /\ row.token = m[2]  BY <1>1, <3>1, <4>1
            <4> QED  BY <4>2
        <3>2. CASE m[2] # handler[h].token
            <4>1. \A g \in Handler : handler[g].token = m[2] => handler'[g] = handler[g]  BY <1>3, <3>2
            <4> QED  BY <1>1, <2>1, <4>1 DEF WorkingLinkArrives
        <3> QED  BY <3>1, <3>2
    <2> QED  BY <1>1, <1>5, <2>2, <2>3, <2>4 DEF WorkingLinkArrives
<1> QED  BY <1>3, <1>5, <1>7, <1>8 DEF IInv

(* ... or as failed, though it may have arrived. *)
LEMMA MailFailed ==
    ASSUME IInv, NEW h \in Handler, SendFails(h)
    PROVE  IInv'
<1> DEFINE row == [recipient |-> handler[h].email, token |-> handler[h].token, status |-> "FAILED"]
<1>0. TypeOK /\ WorkInv /\ TokenInv /\ SentInv  BY DEF IInv
<1>1. /\ Finish(h) /\ Trouble(h) /\ outbox' = outbox \cup {row}
      /\ UNCHANGED <<invitations, users, sessions, lastToken, provider, accepted, overlapped>>
      /\ provider = "smtp"
      BY DEF SendFails, Records
<1>2. Mailing(h) /\ HasRow(h) /\ (inbox' = inbox \/ Arrives(h))  BY DEF SendFails, Mailing, HasRow
<1>3. /\ handler' \in [Handler -> WorkType] /\ \A g \in Handler : g # h => handler'[g] = handler[g]
      /\ WorkInv' /\ TokenInv' /\ LookInv' /\ SentInv' /\ OneActiveUnlessOverlapped'
      BY <1>1, <1>2, FinishKeeps
<1>4. handler[h].email \in Address /\ handler[h].token \in 1..MaxToken
    <2>1. \A i \in Ids : invitations[i].email \in Address  BY <1>0, Types DEF Invitation
    <2> QED  BY <1>0, <1>2, <2>1 DEF WorkInv
<1>5. /\ troubled \subseteq troubled' /\ troubled' \subseteq 1..MaxInvitations
      /\ handler[h].invitation \in troubled'
      BY <1>0, <1>1, <1>2, TroubleShape
<1>6. TypeOK' /\ Ids' = Ids
    <2>1. inbox \subseteq Address \X (1..MaxToken)
          /\ outbox \subseteq [recipient : Address, token : 1..MaxToken, status : {"SENT", "FAILED"}]
          BY <1>0 DEF TypeOK
    <2>2. outbox' \subseteq [recipient : Address, token : 1..MaxToken, status : {"SENT", "FAILED"}]  BY <1>1, <1>4, <2>1
    <2>3. inbox' \subseteq Address \X (1..MaxToken)  BY <1>2, <1>4, <2>1 DEF Arrives
    <2> QED  BY <1>0, <1>1, <1>3, <1>5, <2>2, <2>3, TypesMail
<1>7. RowsStaySpent /\ SigningInGoesOn  BY <1>1, <1>3, <1>5, <1>6 DEF RowsStaySpent, SigningInGoesOn
<1>8. SpentOnce'  BY <1>1, <1>7, SpentKept DEF IInv
<1>9. WorkingLinkArrives'
    <2>1. WorkingLinkArrives /\ inbox \subseteq inbox'  BY <1>2 DEF IInv, Arrives
    <2>2. ASSUME NEW i \in Ids
          PROVE  \/ <<invitations[i].email, invitations[i].token>> \in inbox'
                 \/ i \in troubled'
                 \/ \E g \in Handler : handler'[g].at = "mailing" /\ handler'[g].token = invitations[i].token
        <3>1. CASE handler[h].token = invitations[i].token
            <4>1. handler[h].invitation = i  BY <1>0, <1>2, <3>1 DEF TokenInv
            <4> QED  BY <1>5, <4>1
        <3>2. CASE handler[h].token # invitations[i].token
            <4>1. \A g \in Handler : handler[g].token = invitations[i].token => handler'[g] = handler[g]
                  BY <1>3, <3>2
            <4> QED  BY <1>1, <1>5, <2>1, <4>1 DEF WorkingLinkArrives
        <3> QED  BY <3>1, <3>2
    <2>3. \A s \in outbox' : s.status = "SENT" => <<s.recipient, s.token>> \in inbox'
        <3>1. row.status # "SENT"  OBVIOUS
        <3> HIDE DEF row
        <3> QED  BY <1>1, <2>1, <3>1 DEF WorkingLinkArrives
    <2>4. troubled' # {}  BY <1>5
    <2> QED  BY <1>1, <1>6, <2>2, <2>3, <2>4 DEF WorkingLinkArrives
<1> QED  BY <1>3, <1>6, <1>8, <1>9 DEF IInv

(* A handler fails. *)
LEMMA Failed ==
    ASSUME IInv, NEW h \in Handler, Fail(h)
    PROVE  IInv'
<1>0. TypeOK /\ WorkInv /\ TokenInv  BY DEF IInv
<1>1. /\ Finish(h) /\ Trouble(h) /\ invitations' = invitations /\ users' = users /\ sessions' = sessions
      /\ lastToken' = lastToken /\ UNCHANGED mail /\ accepted' = accepted /\ overlapped' = overlapped
      BY DEF Fail
<1>2. inbox' = inbox  BY <1>1 DEF mail
<1>3. /\ handler' \in [Handler -> WorkType] /\ \A g \in Handler : g # h => handler'[g] = handler[g]
      /\ WorkInv' /\ TokenInv' /\ LookInv' /\ SentInv' /\ OneActiveUnlessOverlapped'
      BY <1>1, <1>2, FinishKeeps
<1>4. /\ troubled \subseteq troubled' /\ troubled' \subseteq 1..MaxInvitations
      /\ HasRow(h) => handler[h].invitation \in troubled'
      BY <1>0, <1>1, TroubleShape
<1>5. overlapped \subseteq Address  BY <1>0 DEF TypeOK
<1>6. TypeOK' /\ Ids' = Ids  BY <1>0, <1>1, <1>3, <1>4, <1>5, TypesHandler
<1>7. RowsStaySpent  BY <1>1, <1>6 DEF RowsStaySpent
<1>8. SigningInGoesOn  BY <1>3, <1>4 DEF SigningInGoesOn, HasRow, At
<1>9. MailGoesOn  BY <1>3, <1>4 DEF MailGoesOn, HasRow, Mailing
<1>10. SameLinks  BY <1>1, <1>6 DEF SameLinks
<1>11. SpentOnce'  BY <1>1, <1>7, <1>8, SpentKept DEF IInv
<1>12. WorkingLinkArrives'  BY <1>0, <1>1, <1>9, <1>10, LinkKept DEF IInv
<1> QED  BY <1>3, <1>6, <1>11, <1>12 DEF IInv

(* Accounts that redeeming did not make come and go. *)
LEMMA OthersKept ==
    ASSUME IInv, UNCHANGED <<invitations, handler, lastToken, mail, accepted, overlapped, troubled>>
    PROVE  /\ Ids' = Ids /\ WorkInv' /\ TokenInv' /\ LookInv' /\ SentInv' /\ OneActiveUnlessOverlapped'
           /\ WorkingLinkArrives'
           /\ UsedOrRevoked' /\ UsedIsAccepted' /\ AcceptedOnce' /\ AcceptedAsSent'
<1>1. /\ invitations' = invitations /\ handler' = handler /\ lastToken' = lastToken /\ overlapped' = overlapped
      /\ accepted' = accepted /\ troubled' = troubled /\ inbox' = inbox /\ UNCHANGED mail
      BY DEF mail
<1>2. Ids' = Ids  BY <1>1 DEF Ids
<1>3. SameLinks /\ NoneRevived /\ MailGoesOn
      BY <1>1, <1>2 DEF SameLinks, NoneRevived, MailGoesOn, Live, Open
<1>4. LocksHold  BY <1>1 DEF LocksHold, Open
<1>5. WorkInv' /\ TokenInv' /\ LookInv' /\ SentInv' /\ OneActiveUnlessOverlapped'
      BY <1>1, <1>3, <1>4, RowsMayClose DEF IInv
<1>6. WorkingLinkArrives'  BY <1>1, <1>3, LinkKept DEF IInv
<1>7. UsedOrRevoked /\ UsedIsAccepted /\ AcceptedOnce /\ AcceptedAsSent  BY SpentParts DEF IInv
<1>8. UsedOrRevoked' /\ UsedIsAccepted' /\ AcceptedOnce' /\ AcceptedAsSent'
      BY <1>1, <1>2, <1>7 DEF UsedOrRevoked, UsedIsAccepted, AcceptedOnce, AcceptedAsSent
<1> QED  BY <1>2, <1>5, <1>6, <1>8

(* Somebody signs up. *)
LEMMA SignedUp ==
    ASSUME IInv, NEW email \in Address, SignUp(email)
    PROVE  IInv'
<1> DEFINE account == [email |-> email, role |-> "USER", invitation |-> 0]
<1>0. TypeOK /\ AccountsAccepted /\ OneAccount /\ SignedIn  BY SpentParts DEF IInv
<1>1. /\ ~Taken(email) /\ users' = users \cup {account} /\ sessions' = sessions
      /\ UNCHANGED <<invitations, handler, lastToken, mail, accepted, overlapped, troubled>>
      BY DEF SignUp
<1>2. account \in Account /\ account.email = email /\ account.invitation = 0
      BY RoleAssumption, BoundAssumption DEF Account
<1> HIDE DEF account
<1>3. TypeOK'
    <2>1. users \subseteq Account /\ sessions \subseteq users  BY <1>0 DEF TypeOK
    <2>2. users' \subseteq Account /\ sessions' \subseteq users'  BY <1>1, <1>2, <2>1
    <2> QED  BY <1>0, <1>1, <2>2 DEF TypeOK, mail, Ids
<1>4. AccountsAccepted'  BY <1>0, <1>1, <1>2 DEF AccountsAccepted
<1>5. OneAccount'  BY <1>0, <1>1, <1>2 DEF OneAccount, Taken
<1>6. SignedIn'  BY <1>0, <1>1, <1>2 DEF SignedIn
<1>7. /\ WorkInv' /\ TokenInv' /\ LookInv' /\ SentInv' /\ OneActiveUnlessOverlapped' /\ WorkingLinkArrives'
      /\ UsedOrRevoked' /\ UsedIsAccepted' /\ AcceptedOnce' /\ AcceptedAsSent'
      BY <1>1, OthersKept
<1>8. SpentOnce'
      BY <1>4, <1>5, <1>6, <1>7
      DEF SpentOnce, UsedOrRevoked, UsedIsAccepted, AcceptedOnce, AcceptedAsSent, AccountsAccepted, OneAccount, SignedIn
<1> QED  BY <1>3, <1>7, <1>8 DEF IInv

(* An account is deleted, with its sessions. *)
LEMMA Deleted ==
    ASSUME IInv, NEW account \in users, DeleteAccount(account)
    PROVE  IInv'
<1>0. TypeOK /\ AccountsAccepted /\ OneAccount /\ SignedIn  BY SpentParts DEF IInv
<1>1. /\ users' = users \ {account} /\ sessions' = sessions \ {account}
      /\ UNCHANGED <<invitations, handler, lastToken, mail, accepted, overlapped, troubled>>
      BY DEF DeleteAccount
<1>2. TypeOK'
    <2>1. users \subseteq Account /\ sessions \subseteq users  BY <1>0 DEF TypeOK
    <2>2. users' \subseteq Account /\ sessions' \subseteq users'  BY <1>1, <2>1
    <2> QED  BY <1>0, <1>1, <2>2 DEF TypeOK, mail, Ids
<1>3. AccountsAccepted'  BY <1>0, <1>1 DEF AccountsAccepted
<1>4. OneAccount'  BY <1>0, <1>1 DEF OneAccount
<1>5. SignedIn'  BY <1>0, <1>1 DEF SignedIn
<1>6. /\ WorkInv' /\ TokenInv' /\ LookInv' /\ SentInv' /\ OneActiveUnlessOverlapped' /\ WorkingLinkArrives'
      /\ UsedOrRevoked' /\ UsedIsAccepted' /\ AcceptedOnce' /\ AcceptedAsSent'
      BY <1>1, OthersKept
<1>7. SpentOnce'
      BY <1>3, <1>4, <1>5, <1>6
      DEF SpentOnce, UsedOrRevoked, UsedIsAccepted, AcceptedOnce, AcceptedAsSent, AccountsAccepted, OneAccount, SignedIn
<1> QED  BY <1>2, <1>6, <1>7 DEF IInv

(* The account that was made is signed in. *)
LEMMA SessionOpened ==
    ASSUME IInv, NEW h \in Handler, OpenSession(h)
    PROVE  IInv'
<1>0. TypeOK /\ SentInv /\ TokenInv /\ SpentOnce  BY DEF IInv
<1>1. /\ Finish(h) /\ At(h, "signing in") /\ invitations' = invitations /\ users' = users /\ accepted' = accepted
      /\ sessions' = sessions \cup {u \in users : u.invitation = handler[h].invitation}
      /\ lastToken' = lastToken /\ UNCHANGED mail /\ overlapped' = overlapped /\ troubled' = troubled
      BY DEF OpenSession, At
<1>2. inbox' = inbox /\ outbox' = outbox /\ provider' = provider  BY <1>1 DEF mail
<1>3. /\ handler' \in [Handler -> WorkType] /\ \A g \in Handler : g # h => handler'[g] = handler[g]
      /\ WorkInv' /\ TokenInv' /\ LookInv' /\ SentInv' /\ OneActiveUnlessOverlapped'
      BY <1>1, <1>2, FinishKeeps
<1>4. Ids' = Ids  BY <1>1 DEF Ids
<1>5. TypeOK'
    <2>1. sessions \subseteq users  BY <1>0 DEF TypeOK
    <2>2. sessions' \subseteq users'  BY <1>1, <2>1
    <2> QED  BY <1>0, <1>1, <1>2, <1>3, <1>4, <2>2 DEF TypeOK, WorkType
<1>6. UsedOrRevoked /\ UsedIsAccepted /\ AcceptedOnce /\ AcceptedAsSent /\ AccountsAccepted /\ OneAccount /\ SignedIn
      BY <1>0, SpentParts
<1>7. /\ UsedOrRevoked' /\ UsedIsAccepted' /\ AcceptedOnce' /\ AcceptedAsSent' /\ AccountsAccepted' /\ OneAccount'
    <2>1. invitations' = invitations /\ accepted' = accepted /\ users' = users  BY <1>1
    <2>2. UsedOrRevoked' /\ UsedIsAccepted'  BY <1>4, <1>6, <2>1 DEF UsedOrRevoked, UsedIsAccepted
    <2>3. AcceptedOnce' /\ AcceptedAsSent'  BY <1>4, <1>6, <2>1 DEF AcceptedOnce, AcceptedAsSent
    <2>4. AccountsAccepted' /\ OneAccount'  BY <1>6, <2>1 DEF AccountsAccepted, OneAccount
    <2> QED  BY <2>2, <2>3, <2>4
<1>8. SignedIn'
    <2>1. ASSUME NEW u \in users
          PROVE  \/ u.invitation \in troubled \cup {0} \/ u \in sessions'
                 \/ \E g \in Handler : handler'[g].at = "signing in" /\ handler'[g].invitation = u.invitation
        <3>1. CASE u.invitation = handler[h].invitation  BY <1>1, <3>1
        <3>2. CASE u.invitation # handler[h].invitation
            <4>1. \A g \in Handler : handler[g].invitation = u.invitation => handler'[g] = handler[g]  BY <1>3, <3>2
            <4> QED  BY <1>1, <1>6, <4>1 DEF SignedIn
        <3> QED  BY <3>1, <3>2
    <2> QED  BY <1>1, <2>1 DEF SignedIn
<1>9. SpentOnce'
      BY <1>7, <1>8
      DEF SpentOnce, UsedOrRevoked, UsedIsAccepted, AcceptedOnce, AcceptedAsSent, AccountsAccepted, OneAccount, SignedIn
<1>10. SameLinks /\ MailGoesOn  BY <1>1, <1>3, <1>4 DEF SameLinks, MailGoesOn, Mailing, At
<1>11. WorkingLinkArrives'  BY <1>0, <1>1, <1>10, LinkKept DEF IInv
<1> QED  BY <1>3, <1>5, <1>9, <1>11 DEF IInv

(* The address has got an account meanwhile. *)
LEMMA Rejected ==
    ASSUME IInv, NEW h \in Handler, Join(h), Taken(handler[h].email)
    PROVE  IInv'
<1>0. TypeOK /\ TokenInv  BY DEF IInv
<1>1. /\ Finish(h) /\ At(h, "redeeming") /\ invitations' = invitations /\ users' = users /\ accepted' = accepted
      /\ sessions' = sessions /\ lastToken' = lastToken /\ UNCHANGED mail /\ overlapped' = overlapped
      /\ troubled' = troubled
      BY DEF Join, At
<1>2. inbox' = inbox  BY <1>1 DEF mail
<1>3. /\ handler' \in [Handler -> WorkType] /\ \A g \in Handler : g # h => handler'[g] = handler[g]
      /\ WorkInv' /\ TokenInv' /\ LookInv' /\ SentInv' /\ OneActiveUnlessOverlapped'
      BY <1>1, <1>2, FinishKeeps
<1>4. overlapped \subseteq Address /\ troubled \subseteq 1..MaxInvitations  BY <1>0 DEF TypeOK
<1>5. TypeOK' /\ Ids' = Ids  BY <1>0, <1>1, <1>3, <1>4, TypesHandler
<1>6. RowsStaySpent /\ SigningInGoesOn  BY <1>1, <1>3, <1>5 DEF RowsStaySpent, SigningInGoesOn, At
<1>7. SameLinks /\ MailGoesOn  BY <1>1, <1>3, <1>5 DEF SameLinks, MailGoesOn, Mailing, At
<1>8. SpentOnce'  BY <1>1, <1>6, SpentKept DEF IInv
<1>9. WorkingLinkArrives'  BY <1>0, <1>1, <1>7, LinkKept DEF IInv
<1> QED  BY <1>3, <1>5, <1>8, <1>9 DEF IInv

(* The account is made and the invitation used up. *)
LEMMA Joined ==
    ASSUME IInv, NEW h \in Handler, Join(h), ~Taken(handler[h].email)
    PROVE  IInv'
<1> DEFINE n == handler[h].invitation
           r == [invitations[n] EXCEPT !.used = TRUE]
           w == [handler[h] EXCEPT !.at = "signing in"]
           account == [email |-> handler[h].email, role |-> handler[h].role, invitation |-> n]
           a == [invitation |-> n, token |-> handler[h].token, email |-> handler[h].email, role |-> handler[h].role]
           last == Len(accepted) + 1
<1>0. /\ TypeOK /\ WorkInv /\ TokenInv /\ LookInv /\ SentInv
      /\ UsedOrRevoked /\ UsedIsAccepted /\ AcceptedOnce /\ AcceptedAsSent /\ AccountsAccepted /\ OneAccount /\ SignedIn
      BY SpentParts DEF IInv
<1>1. /\ At(h, "redeeming") /\ users' = users \cup {account}
      /\ invitations' = [invitations EXCEPT ![n].used = TRUE]
      /\ accepted' = Append(accepted, a) /\ handler' = [handler EXCEPT ![h] = w]
      /\ sessions' = sessions /\ lastToken' = lastToken /\ UNCHANGED mail /\ overlapped' = overlapped
      /\ troubled' = troubled
      BY DEF Join, At
<1>2. HasRow(h)  BY <1>1 DEF At, HasRow
<1>3. /\ n \in Ids /\ n \in 1..MaxInvitations /\ n # 0 /\ invitations[n] \in Invitation
      /\ ~invitations[n].used /\ ~invitations[n].revoked
      /\ handler[h].token = invitations[n].token /\ handler[h].email = invitations[n].email
      /\ handler[h].role = invitations[n].role
      /\ \A g \in Handler : At(g, "redeeming") /\ handler[g].invitation = n => g = h
    <2>1. n \in Ids  BY <1>0, <1>2 DEF WorkInv
    <2>2. n \in 1..MaxInvitations /\ invitations[n] \in Invitation /\ MaxInvitations \in Nat  BY <1>0, <2>1, Types
    <2>3. /\ Open(n) /\ handler[h].token = invitations[n].token
          /\ \A g \in Handler : At(g, "redeeming") /\ handler[g].invitation = n => g = h
          BY <1>0, <1>1 DEF WorkInv
    <2>4. handler[h].email = invitations[n].email /\ handler[h].role = invitations[n].role
          BY <1>0, <1>2 DEF WorkInv
    <2>5. ~invitations[n].used /\ ~invitations[n].revoked  BY <2>3 DEF Open
    <2> HIDE DEF n
    <2>6. n # 0  BY <2>2
    <2> QED  BY <2>1, <2>2, <2>3, <2>4, <2>5, <2>6
<1>4. handler[h].email \in Address /\ handler[h].role \in Role /\ handler[h].token \in 1..MaxToken  BY <1>3 DEF Invitation
<1>5. /\ r \in Invitation /\ r.used /\ r.token = invitations[n].token /\ r.email = invitations[n].email
      /\ r.role = invitations[n].role /\ r.revoked = invitations[n].revoked /\ r.expired = invitations[n].expired
      BY <1>3, RowShape
<1>6. /\ w \in WorkType /\ w.at = "signing in" /\ w.invitation = n
    <2>1. handler[h] \in WorkType  BY <1>0, Types
    <2> QED  BY <2>1, NextThing
<1>7. account \in Account /\ account.invitation = n /\ account.email = handler[h].email /\ account.role = handler[h].role
      BY <1>3, <1>4, BoundAssumption DEF Account
<1>8. a \in Redemption /\ a.invitation = n /\ a.email = handler[h].email /\ a.role = handler[h].role
      BY <1>3, <1>4 DEF Redemption
<1>9. a = [invitation |-> n, token |-> invitations[n].token, email |-> invitations[n].email, role |-> invitations[n].role]
      BY <1>3
<1>10. invitations' = [invitations EXCEPT ![n] = r]  BY <1>1
<1> HIDE DEF r, w, account, a, n
<1>11. /\ invitations' \in Seq(Invitation) /\ Len(invitations') = Len(invitations) /\ Ids' = Ids
       /\ invitations'[n] = r /\ \A i \in Ids : i # n => invitations'[i] = invitations[i]
       BY <1>0, <1>3, <1>5, <1>10, RowStep
<1>12. /\ handler' \in [Handler -> WorkType] /\ handler'[h] = w
       /\ \A g \in Handler : g # h => handler'[g] = handler[g]
       BY <1>0, <1>1, <1>6, HandlerStep
<1>13. /\ accepted' \in Seq(Redemption) /\ last \notin DOMAIN accepted /\ DOMAIN accepted' = DOMAIN accepted \cup {last}
       /\ accepted'[last] = a /\ \A k \in DOMAIN accepted : accepted'[k] = accepted[k]
    <2>1. accepted \in Seq(Redemption)  BY <1>0 DEF TypeOK
    <2>2. DOMAIN accepted = 1..Len(accepted) /\ Len(accepted) \in Nat  BY <2>1, LenProperties
    <2>3. /\ accepted' \in Seq(Redemption) /\ Len(accepted') = Len(accepted) + 1 /\ accepted'[last] = a
          /\ \A k \in 1..Len(accepted) : accepted'[k] = accepted[k]
          BY <1>1, <1>8, <2>1, AppendProperties
    <2>4. DOMAIN accepted' = 1..Len(accepted')  BY <2>3, LenProperties
    <2> QED  BY <2>2, <2>3, <2>4
<1> HIDE DEF last
<1>14. inbox' = inbox /\ outbox' = outbox /\ provider' = provider  BY <1>1 DEF mail
<1>15. \A i \in Ids : /\ invitations'[i].email = invitations[i].email /\ invitations'[i].role = invitations[i].role
                      /\ invitations'[i].token = invitations[i].token
       BY <1>5, <1>11
<1>16. \A i \in Ids : /\ Live(i)' => Live(i)
                      /\ i # n => Open(i)' = Open(i)
       BY <1>5, <1>11 DEF Live, Open
<1>17. TypeOK'
    <2>1. \A i, j \in Ids : invitations[i].token = invitations[j].token => i = j  BY <1>0 DEF TypeOK
    <2>2. \A i, j \in Ids' : invitations'[i].token = invitations'[j].token => i = j  BY <1>11, <1>15, <2>1
    <2>3. users \subseteq Account /\ sessions \subseteq users  BY <1>0 DEF TypeOK
    <2>4. users' \subseteq Account /\ sessions' \subseteq users'  BY <1>1, <1>7, <2>3
    <2>5. Len(invitations') <= MaxInvitations  BY <1>0, <1>11, Types
    <2> QED  BY <1>0, <1>1, <1>11, <1>12, <1>13, <1>14, <2>2, <2>4, <2>5 DEF TypeOK, WorkType
<1>18. \A g \in Handler : /\ At(g, "redeeming")' => At(g, "redeeming") /\ handler'[g] = handler[g] /\ g # h
                          /\ At(g, "inserting")' => At(g, "inserting") /\ handler'[g] = handler[g]
                          /\ Mailing(g)' => Mailing(g) /\ handler'[g] = handler[g]
       BY <1>6, <1>12 DEF At, Mailing
<1>19. WorkInv'
    <2>1. ASSUME NEW g \in Handler, HasRow(g)'
          PROVE  /\ handler'[g].invitation \in Ids' /\ handler'[g].token \in 1..MaxToken
                 /\ handler'[g].email = invitations'[handler'[g].invitation].email
                 /\ handler'[g].role = invitations'[handler'[g].invitation].role
        <3>1. CASE g = h
            <4>1. w.token = handler[h].token /\ w.email = handler[h].email /\ w.role = handler[h].role
                <5>1. handler[h] \in WorkType  BY <1>0, Types
                <5> QED  BY <5>1, NextThing DEF w
            <4> QED  BY <1>3, <1>4, <1>6, <1>11, <1>12, <1>15, <3>1, <4>1
        <3>2. CASE g # h
            <4>1. handler'[g] = handler[g] /\ HasRow(g)  BY <1>12, <2>1, <3>2 DEF HasRow
            <4> QED  BY <1>0, <1>11, <1>15, <4>1 DEF WorkInv
        <3> QED  BY <3>1, <3>2
    <2>2. ASSUME NEW g \in Handler, At(g, "redeeming")'
          PROVE  /\ Open(handler[g].invitation)' /\ handler'[g].token = invitations'[handler'[g].invitation].token
                 /\ \A f \in Handler : At(f, "redeeming")' /\ handler'[f].invitation = handler'[g].invitation => f = g
        <3>1. At(g, "redeeming") /\ handler'[g] = handler[g] /\ g # h /\ handler[g].invitation \in Ids
              BY <1>0, <1>18, <2>2 DEF WorkInv, At, HasRow
        <3>2. handler[g].invitation # n  BY <1>3, <3>1
        <3>3. invitations'[handler[g].invitation] = invitations[handler[g].invitation]  BY <1>11, <3>1, <3>2
        <3>4. Open(handler[g].invitation)'  BY <1>0, <3>1, <3>3 DEF WorkInv, Open
        <3> QED  BY <1>0, <1>18, <3>1, <3>3, <3>4 DEF WorkInv
    <2>3. \A g \in Handler : At(g, "inserting")' => handler'[g].invitation = 0 /\ handler'[g].email \in Address
          BY <1>0, <1>18 DEF WorkInv
    <2>4. \A g \in Handler : At(g, "redeeming")' => handler'[g] = handler[g]  BY <1>18
    <2> QED  BY <2>1, <2>2, <2>3, <2>4 DEF WorkInv
<1>20. TokenInv'  BY <1>0, <1>1, <1>11, <1>14, <1>15, <1>18 DEF TokenInv
<1>21. LookInv'  BY <1>0, <1>1, <1>11, <1>15, <1>16, <1>18 DEF LookInv
<1>22. SentInv'  BY <1>0, <1>14, <1>18 DEF SentInv, At, Mailing
<1>23. OneActiveUnlessOverlapped'  BY <1>1, <1>11, <1>15, <1>16 DEF IInv, OneActiveUnlessOverlapped
<1>24. WorkingLinkArrives'
    <2>1. SameLinks  BY <1>11, <1>15 DEF SameLinks
    <2>2. MailGoesOn  BY <1>1, <1>12 DEF MailGoesOn, Mailing, At
    <2> QED  BY <1>0, <1>1, <2>1, <2>2, LinkKept DEF IInv
<1>25. \A k \in DOMAIN accepted : accepted[k].invitation \in Ids /\ accepted[k].invitation # n
    <2>1. \A k \in DOMAIN accepted : accepted[k].invitation # n  BY <1>0, <1>3 DEF UsedIsAccepted
    <2> QED  BY <1>0, <2>1 DEF AcceptedAsSent
<1>26. UsedOrRevoked'  BY <1>0, <1>3, <1>5, <1>11 DEF UsedOrRevoked
<1>27. UsedIsAccepted'
    <2>1. ASSUME NEW i \in Ids
          PROVE  invitations'[i].used <=> \E k \in DOMAIN accepted' : accepted'[k].invitation = i
        <3>1. CASE i = n  BY <1>5, <1>8, <1>11, <1>13, <3>1
        <3>2. CASE i # n
            <4>1. invitations'[i] = invitations[i]  BY <1>11, <3>2
            <4>2. invitations[i].used <=> \E k \in DOMAIN accepted : accepted[k].invitation = i
                  BY <1>0 DEF UsedIsAccepted
            <4> QED  BY <1>8, <1>13, <3>2, <4>1, <4>2
        <3> QED  BY <3>1, <3>2
    <2> QED  BY <1>11, <2>1 DEF UsedIsAccepted
<1>28. AcceptedOnce'
    <2>1. \A k, l \in DOMAIN accepted : accepted[k].invitation = accepted[l].invitation => k = l
          BY <1>0 DEF AcceptedOnce
    <2>2. \A k, l \in DOMAIN accepted' : accepted'[k].invitation = accepted'[l].invitation => k = l
          BY <1>8, <1>13, <1>25, <2>1
    <2> QED  BY <2>2 DEF AcceptedOnce
<1>29. AcceptedAsSent'
    <2>1. ASSUME NEW k \in DOMAIN accepted', NEW i, i = accepted'[k].invitation
          PROVE  i \in Ids' /\ accepted'[k] = [invitation |-> i, token |-> invitations'[i].token,
                                               email |-> invitations'[i].email, role |-> invitations'[i].role]
        <3>1. CASE k = last
            <4>1. i = n /\ accepted'[k] = a  BY <1>8, <1>13, <2>1, <3>1
            <4> QED  BY <1>3, <1>9, <1>11, <1>15, <4>1
        <3>2. CASE k \in DOMAIN accepted
            <4>1. accepted'[k] = accepted[k] /\ i \in Ids  BY <1>13, <1>25, <2>1, <3>2
            <4>2. accepted[k] = [invitation |-> i, token |-> invitations[i].token,
                                 email |-> invitations[i].email, role |-> invitations[i].role]
                  BY <1>0, <2>1, <3>2, <4>1 DEF AcceptedAsSent
            <4> QED  BY <1>11, <1>15, <4>1, <4>2
        <3> QED  BY <1>13, <3>1, <3>2
    <2> QED  BY <2>1 DEF AcceptedAsSent
<1>30. AccountsAccepted'
    <2>1. \E k \in DOMAIN accepted' : /\ accepted'[k].invitation = account.invitation
                                      /\ accepted'[k].email = account.email /\ accepted'[k].role = account.role
          BY <1>7, <1>8, <1>13
    <2>2. ASSUME NEW u \in users, u.invitation # 0
          PROVE  \E k \in DOMAIN accepted' : /\ accepted'[k].invitation = u.invitation
                                             /\ accepted'[k].email = u.email /\ accepted'[k].role = u.role
          BY <1>0, <1>13, <2>2 DEF AccountsAccepted
    <2> QED  BY <1>1, <2>1, <2>2 DEF AccountsAccepted
<1>31. OneAccount'  BY <1>0, <1>1, <1>7 DEF OneAccount, Taken
<1>32. SignedIn'
    <2>1. handler'[h].at = "signing in" /\ handler'[h].invitation = account.invitation  BY <1>6, <1>7, <1>12
    <2>2. \A g \in Handler : handler[g].at = "signing in" => handler'[g] = handler[g]  BY <1>1, <1>12 DEF At
    <2>3. ASSUME NEW u \in users
          PROVE  \/ u.invitation \in troubled \cup {0} \/ u \in sessions
                 \/ \E g \in Handler : handler'[g].at = "signing in" /\ handler'[g].invitation = u.invitation
          BY <1>0, <2>2 DEF SignedIn
    <2> QED  BY <1>1, <2>1, <2>3 DEF SignedIn
<1>33. SpentOnce'
       BY <1>26, <1>27, <1>28, <1>29, <1>30, <1>31, <1>32
       DEF SpentOnce, UsedOrRevoked, UsedIsAccepted, AcceptedOnce, AcceptedAsSent, AccountsAccepted, OneAccount, SignedIn
<1> QED  BY <1>17, <1>19, <1>20, <1>21, <1>22, <1>23, <1>24, <1>33 DEF IInv

-----------------------------------------------------------------------------
(* Theorems. *)

(* Every step keeps the invariant. *)
LEMMA NextIInv == IInv /\ [Next]_vars => IInv'
<1> SUFFICES ASSUME IInv, [Next]_vars PROVE IInv'  OBVIOUS
<1>1. CASE UNCHANGED vars
    <2>1. /\ UNCHANGED <<invitations, handler, lastToken, mail, accepted, overlapped, troubled>>
          /\ users' = users /\ sessions' = sessions
          BY <1>1 DEF vars, mail
    <2>2. TypeOK /\ AccountsAccepted /\ OneAccount /\ SignedIn  BY SpentParts DEF IInv
    <2>3. TypeOK'  BY <2>1, <2>2 DEF TypeOK, mail, Ids
    <2>4. AccountsAccepted' /\ OneAccount' /\ SignedIn'  BY <2>1, <2>2 DEF AccountsAccepted, OneAccount, SignedIn
    <2>5. /\ WorkInv' /\ TokenInv' /\ LookInv' /\ SentInv' /\ OneActiveUnlessOverlapped' /\ WorkingLinkArrives'
          /\ UsedOrRevoked' /\ UsedIsAccepted' /\ AcceptedOnce' /\ AcceptedAsSent'
          BY <2>1, OthersKept
    <2>6. SpentOnce'
          BY <2>4, <2>5
          DEF SpentOnce, UsedOrRevoked, UsedIsAccepted, AcceptedOnce, AcceptedAsSent, AccountsAccepted, OneAccount, SignedIn
    <2> QED  BY <2>3, <2>5, <2>6 DEF IInv
<1>2. ASSUME NEW h \in Handler, Create(h) PROVE IInv'      BY <1>2, LookedFor, Inserted DEF Create
<1>3. ASSUME NEW h \in Handler, queueEmail(h) PROVE IInv'
      BY <1>3, MailNotSent, MailSent, MailRecorded, MailFailed DEF queueEmail
<1>4. ASSUME NEW h \in Handler, Join(h) PROVE IInv'        BY <1>4, Rejected, Joined
<1> QED  BY <1>1, <1>2, <1>3, <1>4, Resent, Redeeming, SessionOpened, Failed, Revoked, Expired, SignedUp, Deleted DEF Next

(* IInv always holds. *)
THEOREM Invariant == Spec => []IInv
<1>1. Init => IInv  BY InitIInv
<1>2. IInv /\ [Next]_vars => IInv'  BY NextIInv
<1> QED  BY <1>1, <1>2, PTL DEF Spec

(* The tables and handlers have their types, and whatever is resent, a     *)
(* token leads to one invitation.                                          *)
THEOREM TypeCorrect == Spec => []TypeOK
<1>1. IInv => TypeOK  BY DEF IInv
<1> QED  BY <1>1, Invariant, PTL

(* Redeeming (invitations/redeem) spends an invitation once, for its own   *)
(* address, role and last link; none that was revoked makes an account.    *)
THEOREM RedeemedOnce == Spec => []SpentOnce
<1>1. IInv => SpentOnce  BY DEF IInv
<1> QED  BY <1>1, Invariant, PTL

(* The look before the insert (admin/invitations) keeps duplicates out     *)
(* except of two creations that looked at the same time.                   *)
THEOREM NoDuplicates == Spec => []OneActiveUnlessOverlapped
<1>1. IInv => OneActiveUnlessOverlapped  BY DEF IInv
<1> QED  BY <1>1, Invariant, PTL

(* What queueEmail sends and records: the working link arrives unless its  *)
(* handler failed, and SENT is said of delivered mail only.                *)
THEOREM LinkArrives == Spec => []WorkingLinkArrives
<1>1. IInv => WorkingLinkArrives  BY DEF IInv
<1> QED  BY <1>1, Invariant, PTL
=============================================================================
