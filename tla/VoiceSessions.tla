---------------------------- MODULE VoiceSessions ----------------------------
(***************************************************************************)
(* Realtime voice sessions.  A call passes the rate limit, counts the      *)
(* user's live sessions and inserts its own in one transaction, asks the   *)
(* provider outside of it, and writes what the provider answered.  The     *)
(* count locks the configuration, in a mode that excludes no other count.  *)
(*                                                                         *)
(* Time is what is left: of a session's maximum, and of a rate window.     *)
(***************************************************************************)
EXTENDS RateLimit, Sequences, FiniteSets

CONSTANTS
    User,
    Call,             \* calls being handled at the same time
    ConcurrentLimit,  \* concurrent_user_limit of the active configuration
    MaxSeconds,       \* session_max_seconds of it
    MaxSessions,      \* bound on the rows
    MaxRequests       \* bound on the requests of a window

ASSUME VoiceAssumption == ConcurrentLimit \in Nat /\ MaxSeconds \in Nat \ {0} /\ MaxSessions \in Nat

VARIABLES
    sessions,    \* the rows of voice_sessions
    call,        \* what each call is about to do
    told,        \* the sessions whose id its user has been told
    bucket,      \* the bucket of each user; its key names the request's source too, which is
                 \* the same for all requests while TRUST_PROXY is not set
    overlapped,  \* history: users of whom two calls counted before either inserted
    admitted     \* history: requests let through in the last ticks, by how many ticks

voiceVars == <<sessions, call, told, bucket, overlapped, admitted>>

Ids == DOMAIN sessions
Idle == [at |-> "idle"]

VoiceInit ==
    /\ sessions = <<>> /\ told = {} /\ overlapped = {}
    /\ call = [c \in Call |-> Idle]
    /\ bucket = [u \in User |-> NoBucket]
    /\ admitted = [u \in User |-> [ago \in 1..Window |-> 0]]

\* Mutant: only an answer or an end would free a place, never time.
HoldsUntilEnded(n) == sessions[n].status \in {"PENDING", "ACTIVE"}

Holds(n) == sessions[n].status \in {"PENDING", "ACTIVE"} /\ sessions[n].left > 0
Live(u) == {n \in Ids : sessions[n].user = u /\ Holds(n)}

\* Mutant: sessions that the provider has not answered yet would not count.
ConnectedOnly(u) == Cardinality({n \in Live(u) : sessions[n].status = "ACTIVE"})

Concurrent(u) == Cardinality(Live(u))

----------------------------------------------------------------------------

\* The route: a request above the rate is refused before anything is read.
POST(c, u) ==
    /\ call[c] = Idle /\ Counted(bucket[u]).count <= MaxRequests
    /\ bucket' = [bucket EXCEPT ![u] = Counted(@)]
    /\ IF Allowed(bucket[u])
       THEN /\ call' = [call EXCEPT ![c] = [at |-> "admitted", user |-> u]]
            /\ admitted' = [admitted EXCEPT ![u] = [ago \in 1..Window |-> @[ago] + 1]]
       ELSE UNCHANGED <<call, admitted>>
    /\ UNCHANGED <<sessions, told, overlapped>>

Finish(c) == call' = [call EXCEPT ![c] = Idle]

Count(c) ==
    /\ call[c].at = "admitted"
    /\ LET u == call[c].user
       IN  IF Concurrent(u) >= ConcurrentLimit
           THEN Finish(c) /\ UNCHANGED overlapped
           ELSE /\ call' = [call EXCEPT ![c].at = "counted"]
                /\ overlapped' = IF \E d \in Call : call[d] = [at |-> "counted", user |-> u]
                                 THEN overlapped \cup {u} ELSE overlapped
    /\ UNCHANGED <<sessions, told, bucket, admitted>>

\* Mutant: the user would be told of the session before the provider answers.
InsertAndTell(c) ==
    /\ call[c].at = "counted" /\ Len(sessions) < MaxSessions
    /\ sessions' = Append(sessions, [user |-> call[c].user, status |-> "PENDING", left |-> MaxSeconds])
    /\ call' = [call EXCEPT ![c] = [at |-> "calling", session |-> Len(sessions) + 1]]
    /\ told' = told \cup {Len(sessions) + 1}
    /\ UNCHANGED <<bucket, overlapped, admitted>>

Insert(c) ==
    /\ call[c].at = "counted" /\ Len(sessions) < MaxSessions
    /\ sessions' = Append(sessions, [user |-> call[c].user, status |-> "PENDING", left |-> MaxSeconds])
    /\ call' = [call EXCEPT ![c] = [at |-> "calling", session |-> Len(sessions) + 1]]
    /\ UNCHANGED <<told, bucket, overlapped, admitted>>

\* The row takes the answer whatever has become of it since.
ProviderAnswers(c) ==
    /\ call[c].at = "calling"
    /\ sessions' = [sessions EXCEPT ![call[c].session].status = "ACTIVE"]
    /\ told' \in {told, told \cup {call[c].session}}  \* the audit after it may throw
    /\ Finish(c)
    /\ UNCHANGED <<bucket, overlapped, admitted>>

ProviderRefuses(c) ==
    /\ call[c].at = "calling"
    /\ sessions' = [sessions EXCEPT ![call[c].session].status = "REJECTED"]
    /\ Finish(c)
    /\ UNCHANGED <<told, bucket, overlapped, admitted>>

\* A statement or the provider call throws, or the server ends: what is
\* committed stays, a PENDING row too.
Fail(c) ==
    /\ call[c] # Idle
    /\ Finish(c)
    /\ UNCHANGED <<sessions, told, bucket, overlapped, admitted>>

createRealtimeCall(c) == Count(c) \/ Insert(c) \/ ProviderAnswers(c) \/ ProviderRefuses(c) \/ Fail(c)

endRealtimeCall(n) ==
    /\ n \in told /\ sessions[n].status \in {"PENDING", "ACTIVE"}
    /\ sessions' = [sessions EXCEPT ![n].status = "ENDED"]
    /\ UNCHANGED <<call, told, bucket, overlapped, admitted>>

VoiceTick ==
    /\ \/ \E n \in Ids : sessions[n].left > 0
       \/ \E u \in User : bucket[u].left > 0 \/ admitted[u][Window] > 0
    /\ sessions' = [n \in Ids |-> [sessions[n] EXCEPT !.left = IF @ = 0 THEN 0 ELSE @ - 1]]
    /\ bucket' = [u \in User |-> Later(bucket[u])]
    /\ admitted' = [u \in User |-> [ago \in 1..Window |-> IF ago = 1 THEN 0 ELSE admitted[u][ago - 1]]]
    /\ UNCHANGED <<call, told, overlapped>>

VoiceNext ==
    \/ \E c \in Call : (\E u \in User : POST(c, u)) \/ createRealtimeCall(c)
    \/ \E n \in Ids : endRealtimeCall(n)
    \/ VoiceTick

\* Time passes; nobody has to end a call, and the provider has to answer none.
VoiceSpec == VoiceInit /\ [][VoiceNext]_voiceVars /\ WF_voiceVars(VoiceTick)

----------------------------------------------------------------------------
(* Properties.                                                             *)

\* Rows, calls and buckets have their types; a call that waits for the provider
\* has a PENDING row of its own, and no user is told of a row before its answer.
VoiceTypeOK ==
    /\ sessions \in Seq([user : User, status : {"PENDING", "ACTIVE", "ENDED", "REJECTED"}, left : 0..MaxSeconds])
    /\ call \in [Call -> {Idle} \cup [at : {"admitted", "counted"}, user : User] \cup [at : {"calling"}, session : Ids]]
    /\ bucket \in [User -> [count : Nat, left : 0..Window]]
    /\ admitted \in [User -> [1..Window -> Nat]]
    /\ told \subseteq {n \in Ids : sessions[n].status \in {"ACTIVE", "ENDED"}}
    /\ \A c, d \in Call : call[c].at = "calling" /\ call[d].at = "calling" /\ call[c].session = call[d].session => c = d
    /\ \A c \in Call : call[c].at = "calling" => sessions[call[c].session].status = "PENDING"

\* A user has more live sessions than the configuration allows only when two of
\* the user's calls have counted before either inserted.
LimitExceededOnlyByOverlap ==
    \A u \in User : u \notin overlapped => Cardinality(Live(u)) <= ConcurrentLimit

\* However requests are timed, in the time of one window fewer of a bucket pass than
\* two windows let through: a window begins with a request of its own.  With TRUST_PROXY
\* set a user has a bucket for every source, and the bound is each bucket's.
AtMostTwoWindows ==
    \A u \in User : admitted[u][Window] < 2 * Limit

\* A session gives its place back, though its call failed or is never answered,
\* or nobody ends it.
PlaceComesBack == \A n \in 1..MaxSessions : (n \in Ids /\ Holds(n)) ~> ~(n \in Ids /\ Holds(n))
=============================================================================
