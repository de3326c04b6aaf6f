---------------------------- MODULE ChatService ----------------------------
(***************************************************************************)
(* The chat path: the API gateway (services/api), the orchestrator         *)
(* (services/orchestrator) and the agent's call of the model               *)
(* (agents/frank-core), with the gateway's and the orchestrator's time     *)
(* limits, the limit on idle connections, lost connections and crashes of  *)
(* the orchestrator.                                                       *)
(*                                                                         *)
(* Time passes in ticks.  A process that is up fires a timer when it is    *)
(* due; a process that hangs is one that has crashed without anybody       *)
(* noticing.                                                               *)
(***************************************************************************)
EXTENDS Naturals

CONSTANTS
    Request,
    Null,
    Limits,       \* the time limits a deployment may have, in ticks
    MaxCrashes    \* bound on crashes of the orchestrator

ASSUME LimitAssumption ==
    Limits \subseteq [api : Nat \ {0}, model : Nat \ {0}, idle : Nat \ {0}]
ASSUME CrashAssumption == MaxCrashes \in Nat

VARIABLES
    gateway,   \* where the gateway is with a request
    input,     \* what the client sent
    age,       \* ticks since the gateway set its timer
    answer,    \* what the gateway's handler sent
    client,    \* whether the client waits, was told, or lost its connection
    orch,      \* where the orchestrator is with it
    status,    \* the orchestrator's response
    callAge,   \* ticks since the model was called
    started,   \* the request's age when the model was called
    limited,   \* the orchestrator's limit has ended the call
    replied,   \* the model gave a usable reply
    up,        \* the orchestrator is running
    tokens,    \* the bearer token it has loaded is the gateway's
    limits,    \* the deployment's time limits
    crashes

vars == <<gateway, input, age, answer, client, orch, status, callAge, started, limited,
          replied, up, tokens, limits, crashes>>

gatewayVars == <<gateway, input, age, answer, client>>
callVars == <<callAge, started, limited, replied>>
hostVars == <<up, tokens, limits, crashes>>

ApiLimit == limits.api       \* API_ORCHESTRATOR_TIMEOUT_MS
ModelLimit == limits.model   \* ORCHESTRATOR_TIMEOUT_MS
IdleLimit == limits.idle     \* connectionTimeout of both servers

(* token: the bearer token is right; body: "malformed" (not JSON, too long) *)
(* is refused before the handler runs, "invalid" by the schema; longId: the *)
(* client chose an x-request-id of more than 128 characters.                *)
Input == [token : BOOLEAN, body : {"malformed", "invalid", "valid"}, longId : BOOLEAN]

\* The codes of the two services; "OK" for a reply.
Code == {"UNAUTHORIZED", "INVALID_REQUEST", "MODEL_SECRET_MISSING", "MODEL_TIMEOUT",
         "MODEL_FAILURE", "ORCHESTRATOR_UNAVAILABLE", "OK"}

ASSUME NullAssumption == Null \notin Code

Open == {"calling", "body"}

----------------------------------------------------------------------------

Init ==
    /\ gateway = [r \in Request |-> "new"]
    /\ input = [r \in Request |-> Null]
    /\ age = [r \in Request |-> 0]
    /\ answer = [r \in Request |-> Null]
    /\ client = [r \in Request |-> "waiting"]
    /\ orch = [r \in Request |-> "none"]
    /\ status = [r \in Request |-> Null]
    /\ callAge = [r \in Request |-> 0]
    /\ started = [r \in Request |-> 0]
    /\ limited = [r \in Request |-> FALSE]
    /\ replied = [r \in Request |-> FALSE]
    /\ up = TRUE
    /\ tokens \in BOOLEAN
    /\ limits \in Limits
    /\ crashes = 0

\* Mutant: a success would not be recorded as answered.
RespondInternally(r, code) ==
    /\ gateway' = [gateway EXCEPT ![r] = "answered"]
    /\ client' = [client EXCEPT ![r] = "told"]
    /\ answer' = IF code = "OK" THEN answer ELSE [answer EXCEPT ![r] = code]

\* A response to a connection that is gone is lost.
Respond(r, code) ==
    /\ gateway' = [gateway EXCEPT ![r] = "answered"]
    /\ answer' = [answer EXCEPT ![r] = code]
    /\ client' = [client EXCEPT ![r] = IF @ = "waiting" THEN "told" ELSE @]

\* Fastify parses the body before the handler looks at the token.
RefusalFor(in) ==
    IF in.body = "malformed" THEN "INVALID_REQUEST"
    ELSE IF ~in.token THEN "UNAUTHORIZED"
    ELSE "INVALID_REQUEST"

Admissible(in) == in.token /\ in.body = "valid"

Refuse(r) ==
    /\ gateway[r] = "new"
    /\ \E in \in Input :
          /\ ~Admissible(in)
          /\ input' = [input EXCEPT ![r] = in]
          /\ Respond(r, RefusalFor(in))
    /\ UNCHANGED <<age, orch, status, callVars, hostVars>>

\* The gateway sets its timer and calls POST /internal/run.
Admit(r) ==
    /\ gateway[r] = "new"
    /\ \E in \in Input :
          /\ Admissible(in)
          /\ input' = [input EXCEPT ![r] = in]
    /\ gateway' = [gateway EXCEPT ![r] = "calling"]
    /\ orch' = [orch EXCEPT ![r] = "sent"]
    /\ UNCHANGED <<age, answer, client, status, callVars, hostVars>>

OrchestratorAnswers(r, code) ==
    /\ orch' = [orch EXCEPT ![r] = "answering"]
    /\ status' = [status EXCEPT ![r] = code]

\* /internal/run refuses what it cannot hand to the model.  The file of the OpenAI key
\* is read at every request: it may be missing or empty at one and there at the next.
OrchestratorRefuses(r) ==
    /\ up /\ orch[r] = "sent"
    /\ \/ ~tokens /\ OrchestratorAnswers(r, "UNAUTHORIZED")
       \/ tokens /\ input[r].longId /\ OrchestratorAnswers(r, "INVALID_REQUEST")
       \/ tokens /\ ~input[r].longId /\ OrchestratorAnswers(r, "MODEL_SECRET_MISSING")
    /\ UNCHANGED <<gatewayVars, callVars, hostVars>>

CallModel(r) ==
    /\ up /\ orch[r] = "sent"
    /\ tokens /\ ~input[r].longId
    /\ orch' = [orch EXCEPT ![r] = "calling"]
    /\ started' = [started EXCEPT ![r] = age[r]]
    /\ UNCHANGED <<gatewayVars, status, callAge, limited, replied, hostVars>>

ModelReplies(r) ==
    /\ up /\ orch[r] = "calling"
    /\ OrchestratorAnswers(r, "OK")
    /\ replied' = [replied EXCEPT ![r] = TRUE]
    /\ UNCHANGED <<gatewayVars, callAge, started, limited, hostVars>>

\* An error of the provider, no text, or a reply the contract rejects.
ModelFails(r) ==
    /\ up /\ orch[r] = "calling"
    /\ OrchestratorAnswers(r, "MODEL_FAILURE")
    /\ UNCHANGED <<gatewayVars, callVars, hostVars>>

(* The signal of the call fires.  classifyModelError looks for a            *)
(* TimeoutError or an AbortError; the client library reports an aborted     *)
(* request as an APIUserAbortError.                                         *)
AbortError == {"TimeoutError", "APIUserAbortError"}

Classified(error) == IF error = "TimeoutError" THEN "MODEL_TIMEOUT" ELSE "MODEL_FAILURE"

\* Mutant: the call of the model would get no signal.
NoModelTimer(r) == FALSE

ModelTimer(r) == up /\ orch[r] = "calling" /\ callAge[r] = ModelLimit

ModelLimitReached(r) ==
    /\ ModelTimer(r)
    /\ \E error \in AbortError : OrchestratorAnswers(r, Classified(error))
    /\ limited' = [limited EXCEPT ![r] = TRUE]
    /\ UNCHANGED <<gatewayVars, callAge, started, replied, hostVars>>

\* The response begins to arrive: fetch resolves, the body is still to come.
ReceiveStatus(r) ==
    /\ gateway[r] = "calling" /\ orch[r] = "answering"
    /\ gateway' = [gateway EXCEPT ![r] = "body"]
    /\ UNCHANGED <<input, age, answer, client, orch, status, callVars, hostVars>>

\* Mutant: every unreadable response would be reported as a timeout.
UnreadIsTimeout(code, bodyRead) ==
    IF ~bodyRead \/ code = "MODEL_TIMEOUT" THEN "MODEL_TIMEOUT"
    ELSE IF code \in {"OK", "MODEL_SECRET_MISSING"} THEN code
    ELSE "ORCHESTRATOR_UNAVAILABLE"

\* What the gateway makes of a response; a body it could not read is null.
Translated(code, bodyRead) ==
    IF code = "OK" /\ bodyRead THEN "OK"
    ELSE IF code = "MODEL_SECRET_MISSING" /\ bodyRead THEN "MODEL_SECRET_MISSING"
    ELSE IF code = "MODEL_TIMEOUT" THEN "MODEL_TIMEOUT"
    ELSE "ORCHESTRATOR_UNAVAILABLE"

ReceiveBody(r) ==
    /\ gateway[r] = "body" /\ orch[r] = "answering"
    /\ Respond(r, Translated(status[r], TRUE))
    /\ orch' = [orch EXCEPT ![r] = "done"]
    /\ UNCHANGED <<input, age, status, callVars, hostVars>>

\* The connection is refused or breaks; the gateway does not try again.
ConnectionLost(r) ==
    /\ \/ gateway[r] = "calling" /\ Respond(r, "ORCHESTRATOR_UNAVAILABLE")
       \/ gateway[r] = "body" /\ Respond(r, Translated(status[r], FALSE))
    /\ UNCHANGED <<input, age, orch, status, callVars, hostVars>>

\* Mutant: the timer would be cleared as soon as fetch resolves.
ClearedBeforeBody(r) == gateway[r] = "calling" /\ age[r] = ApiLimit

\* The gateway's timer aborts the fetch, or the reading of the body.
ApiTimer(r) == gateway[r] \in Open /\ age[r] = ApiLimit

ApiLimitReached(r) ==
    /\ ApiTimer(r)
    /\ \/ gateway[r] = "calling" /\ Respond(r, "MODEL_TIMEOUT")
       \/ gateway[r] = "body" /\ Respond(r, Translated(status[r], FALSE))
    /\ UNCHANGED <<input, age, orch, status, callVars, hostVars>>

\* Mutant: an idle limit a tick shorter.
IdleTooEarly(r) == client[r] = "waiting" /\ gateway[r] \in Open /\ age[r] + 1 = IdleLimit

(* connectionTimeout is a limit on idle connections: a server closes a      *)
(* connection on which no byte has moved for so long, whether or not a      *)
(* handler is still at work on its request.                                 *)
ClientIdle(r) == client[r] = "waiting" /\ gateway[r] \in Open /\ age[r] = IdleLimit

CloseClient(r) ==
    /\ ClientIdle(r)
    /\ client' = [client EXCEPT ![r] = "dropped"]
    /\ UNCHANGED <<gateway, input, age, answer, orch, status, callVars, hostVars>>

CallIdle(r) == up /\ gateway[r] = "calling" /\ orch[r] = "calling" /\ callAge[r] = IdleLimit

CloseCall(r) ==
    /\ CallIdle(r)
    /\ Respond(r, "ORCHESTRATOR_UNAVAILABLE")
    /\ UNCHANGED <<input, age, orch, status, callVars, hostVars>>

OrchestratorCrashes ==
    /\ up /\ crashes < MaxCrashes
    /\ up' = FALSE
    /\ crashes' = crashes + 1
    /\ orch' = [r \in Request |-> IF orch[r] = "none" THEN "none" ELSE "done"]
    /\ UNCHANGED <<gatewayVars, status, callVars, tokens, limits>>

\* The bearer token is loaded anew.
OrchestratorStarts ==
    /\ ~up
    /\ up' = TRUE
    /\ tokens' \in BOOLEAN
    /\ UNCHANGED <<gatewayVars, orch, status, callVars, limits, crashes>>

\* Ages count up to the limit they are compared with.
Tick ==
    /\ \A r \in Request : ~ApiTimer(r) /\ ~ModelTimer(r) /\ ~ClientIdle(r) /\ ~CallIdle(r)
    /\ age' = [r \in Request |->
                  IF gateway[r] \in Open /\ age[r] < ApiLimit THEN age[r] + 1 ELSE age[r]]
    /\ callAge' = [r \in Request |->
                      IF orch[r] = "calling" /\ callAge[r] < ModelLimit THEN callAge[r] + 1 ELSE callAge[r]]
    /\ <<age, callAge>> # <<age, callAge>>'
    /\ UNCHANGED <<gateway, input, answer, client, orch, status, started, limited, replied, hostVars>>

Next ==
    \/ \E r \in Request :
          \/ Refuse(r) \/ Admit(r) \/ OrchestratorRefuses(r) \/ CallModel(r)
          \/ ModelReplies(r) \/ ModelFails(r) \/ ModelLimitReached(r)
          \/ ReceiveStatus(r) \/ ReceiveBody(r) \/ ConnectionLost(r) \/ ApiLimitReached(r)
          \/ CloseClient(r) \/ CloseCall(r)
    \/ OrchestratorCrashes \/ OrchestratorStarts \/ Tick

(* Time passes and the timers of a running process fire.  Nothing is        *)
(* assumed of the model, of the network or of the orchestrator's handlers.  *)
Spec ==
    /\ Init /\ [][Next]_vars
    /\ WF_vars(Tick)
    /\ \A r \in Request :
          /\ WF_vars(ApiLimitReached(r)) /\ WF_vars(ModelLimitReached(r))
          /\ WF_vars(CloseClient(r)) /\ WF_vars(CloseCall(r))

----------------------------------------------------------------------------
(* Properties *)

(* Types; the handler has answered exactly when it sent something.          *)
TypeOK ==
    /\ gateway \in [Request -> {"new", "calling", "body", "answered"}]
    /\ input \in [Request -> Input \cup {Null}]
    /\ age \in [Request -> 0..ApiLimit]
    /\ answer \in [Request -> Code \cup {Null}]
    /\ client \in [Request -> {"waiting", "told", "dropped"}]
    /\ orch \in [Request -> {"none", "sent", "calling", "answering", "done"}]
    /\ status \in [Request -> Code \cup {Null}]
    /\ callAge \in [Request -> 0..ModelLimit]
    /\ started \in [Request -> 0..ApiLimit]
    /\ limited \in [Request -> BOOLEAN] /\ replied \in [Request -> BOOLEAN]
    /\ up \in BOOLEAN /\ tokens \in BOOLEAN /\ limits \in Limits /\ crashes \in 0..MaxCrashes
    /\ \A r \in Request : gateway[r] = "answered" <=> answer[r] # Null

(* A client is told MODEL_TIMEOUT only when one of the two limits has run   *)
(* out, and MODEL_SECRET_MISSING only when the model was never called.      *)
FailuresAreTrue ==
    \A r \in Request :
        /\ answer[r] = "MODEL_TIMEOUT" => age[r] = ApiLimit \/ limited[r]
        /\ answer[r] = "MODEL_SECRET_MISSING" => ~replied[r] /\ callAge[r] = 0

(* The gateway's limit is the longer one, so that a call of the model does  *)
(* not outlive a MODEL_TIMEOUT answer: it does only when it began so late   *)
(* that the difference between the limits was used up before it.            *)
CallOutlivesAnswerOnlyIfLate ==
    \A r \in Request :
        answer[r] = "MODEL_TIMEOUT" /\ orch[r] = "calling" => started[r] + ModelLimit >= ApiLimit

(* No connection is closed on a waiting client when idle connections may    *)
(* last longer than the gateway's limit.                                    *)
NoDropWithLongIdleLimit ==
    IdleLimit > ApiLimit => \A r \in Request : client[r] # "dropped"

\* What a client sees of the services.
Contract == INSTANCE ChatContract WITH
    phase <- [r \in Request |->
                 IF gateway[r] = "new" THEN "new"
                 ELSE IF client[r] = "waiting" THEN "open" ELSE "closed"],
    answer <- [r \in Request |-> IF client[r] = "told" THEN answer[r] ELSE Null]

(* The gateway, the orchestrator and the agent together keep the contract,  *)
(* its fairness included: no client waits for ever although the model, the  *)
(* network or the orchestrator never answers the gateway.                   *)
ImplementsContract == Contract!Spec
============================================================================
