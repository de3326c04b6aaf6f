---------------------------- MODULE ChatContract ----------------------------
(***************************************************************************)
(* What a client of POST /v1/chat can count on: a request is refused at    *)
(* once or admitted; an admitted request is answered once, or its          *)
(* connection is closed without an answer, but it never waits for ever,    *)
(* whatever becomes of the services behind the gateway; a success is a     *)
(* reply the model gave to that request; a refused request never reaches   *)
(* the model.                                                              *)
(***************************************************************************)
CONSTANTS Request, Null

Refusal == {"UNAUTHORIZED", "INVALID_REQUEST"}
Failure == {"MODEL_SECRET_MISSING", "MODEL_TIMEOUT", "ORCHESTRATOR_UNAVAILABLE"}

VARIABLES
    phase,     \* "new", "open" or "closed"
    answer,    \* what the client was told
    replied    \* the model has given a usable reply

vars == <<phase, answer, replied>>

Init ==
    /\ phase = [r \in Request |-> "new"]
    /\ answer = [r \in Request |-> Null]
    /\ replied = [r \in Request |-> FALSE]

Refuse(r) ==
    /\ phase[r] = "new"
    /\ phase' = [phase EXCEPT ![r] = "closed"]
    /\ \E code \in Refusal : answer' = [answer EXCEPT ![r] = code]
    /\ UNCHANGED replied

Admit(r) ==
    /\ phase[r] = "new"
    /\ phase' = [phase EXCEPT ![r] = "open"]
    /\ UNCHANGED <<answer, replied>>

\* The model may reply after the client has been told that it did not.
Reply(r) ==
    /\ phase[r] # "new" /\ answer[r] \notin Refusal
    /\ ~replied[r]
    /\ replied' = [replied EXCEPT ![r] = TRUE]
    /\ UNCHANGED <<phase, answer>>

Close(r) ==
    /\ phase[r] = "open"
    /\ phase' = [phase EXCEPT ![r] = "closed"]
    /\ \/ \E code \in Failure : answer' = [answer EXCEPT ![r] = code]
       \/ replied[r] /\ answer' = [answer EXCEPT ![r] = "OK"]
    /\ UNCHANGED replied

Drop(r) ==
    /\ phase[r] = "open"
    /\ phase' = [phase EXCEPT ![r] = "closed"]
    /\ UNCHANGED <<answer, replied>>

Next == \E r \in Request : Refuse(r) \/ Admit(r) \/ Reply(r) \/ Close(r) \/ Drop(r)

Spec == Init /\ [][Next]_vars /\ \A r \in Request : WF_vars(Close(r) \/ Drop(r))
=============================================================================
