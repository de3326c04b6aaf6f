--------------------------- MODULE AssistantProofs ---------------------------
(***************************************************************************)
(* Proofs about the two ways in which a user talks to the assistant:       *)
(* ChatService, for any requests, any time limits and any number of        *)
(* crashes, and, from "Voice sessions" on, VoiceSessions, for any users,   *)
(* calls and limits.                                                       *)
(*                                                                         *)
(* Chat: the gateway, its client and the orchestrator go through a request *)
(* in step (PathInv); what the gateway's handler sent has a cause that     *)
(* stays true (CauseInv); while a call runs, the request is at most as     *)
(* much older than the call as it was when the call began (CallInv).       *)
(*                                                                         *)
(* Voice: a user without an overlap has at most one call that has counted, *)
(* and the place it counted is still free (PlaceInv); the requests let     *)
(* through in a window never pass its count (RateInv).                     *)
(***************************************************************************)
EXTENDS ChatService, VoiceSessions, FiniteSetTheorems, SequenceTheorems, TLAPS

(* Where the three parties can be with one request at the same time. *)
PathInv ==
    \A r \in Request :
        /\ gateway[r] = "new" => client[r] = "waiting" /\ orch[r] = "none" /\ age[r] = 0
        /\ client[r] = "waiting" => gateway[r] # "answered"
        /\ client[r] = "told" => gateway[r] = "answered"
        /\ orch[r] # "none" => gateway[r] # "new" /\ answer[r] \notin Contract!Refusal
        /\ gateway[r] = "body" => orch[r] \in {"answering", "done"}

(* A call of the model, and what has not happened before it. *)
CallInv ==
    \A r \in Request :
        /\ orch[r] \in {"none", "sent"} => callAge[r] = 0 /\ ~limited[r]
        /\ orch[r] \in {"none", "sent", "calling"} => ~replied[r] /\ status[r] = Null
        /\ orch[r] = "calling" => up /\ age[r] <= started[r] + callAge[r]

(* The cause of each response of the orchestrator and of the gateway. *)
CauseInv ==
    \A r \in Request :
        /\ status[r] = "OK" => replied[r]
        /\ status[r] = "MODEL_TIMEOUT" => limited[r]
        /\ status[r] = "MODEL_SECRET_MISSING" => ~replied[r] /\ callAge[r] = 0
        /\ answer[r] = "OK" => replied[r]
        /\ answer[r] = "MODEL_SECRET_MISSING" => status[r] = "MODEL_SECRET_MISSING"
        /\ answer[r] = "MODEL_TIMEOUT" => age[r] = ApiLimit \/ status[r] = "MODEL_TIMEOUT"

(* A connection is dropped only where the idle limit can be reached. *)
DropInv == \A r \in Request : client[r] = "dropped" => IdleLimit <= ApiLimit

IInv == TypeOK /\ PathInv /\ CallInv /\ CauseInv /\ DropInv

-----------------------------------------------------------------------------
(* Lemmas about the operators. *)

(* The limits are positive numbers. *)
LEMMA LimitTypes ==
    ASSUME limits \in Limits
    PROVE  ApiLimit \in Nat \ {0} /\ ModelLimit \in Nat \ {0} /\ IdleLimit \in Nat \ {0}
BY LimitAssumption DEF ApiLimit, ModelLimit, IdleLimit

(* The gateway's translation of a response never reads as a refusal of the *)
(* request, and keeps the three codes it passes on.                        *)
LEMMA TranslatedCodes ==
    ASSUME NEW code, NEW bodyRead \in BOOLEAN
    PROVE  /\ Translated(code, bodyRead) \in {"OK"} \cup Contract!Failure
           /\ Translated(code, bodyRead) = "OK" => code = "OK"
           /\ Translated(code, bodyRead) = "MODEL_TIMEOUT" => code = "MODEL_TIMEOUT"
           /\ Translated(code, bodyRead) = "MODEL_SECRET_MISSING" => code = "MODEL_SECRET_MISSING"
BY DEF Translated, Contract!Failure

(* A refusal is one of the contract's. *)
LEMMA RefusalCodes ==
    ASSUME NEW in PROVE RefusalFor(in) \in Contract!Refusal
BY DEF RefusalFor, Contract!Refusal

-----------------------------------------------------------------------------
(* Types. *)

(* TypeOK holds initially. *)
LEMMA TypeInit == Init => TypeOK
BY LimitTypes, CrashAssumption, NullAssumption DEF Init, TypeOK

(* Every step keeps the types. *)
LEMMA TypeNext ==
    ASSUME TypeOK, [Next]_vars
    PROVE  TypeOK'
<1> USE NullAssumption, CrashAssumption DEF TypeOK
<1>0. ApiLimit \in Nat \ {0} /\ ModelLimit \in Nat \ {0} /\ IdleLimit \in Nat \ {0}
    BY LimitTypes
<1>1. ASSUME NEW r \in Request, Refuse(r) PROVE TypeOK'
    BY <1>1, <1>0, RefusalCodes
       DEF Refuse, Respond, Contract!Refusal, Code, callVars, hostVars, ApiLimit, ModelLimit
<1>2. ASSUME NEW r \in Request, Admit(r) PROVE TypeOK'
    BY <1>2, <1>0 DEF Admit, callVars, hostVars, ApiLimit, ModelLimit
<1>3. ASSUME NEW r \in Request, OrchestratorRefuses(r) PROVE TypeOK'
    BY <1>3, <1>0 DEF OrchestratorRefuses, OrchestratorAnswers, Code, gatewayVars, callVars, hostVars, ApiLimit, ModelLimit
<1>4. ASSUME NEW r \in Request, CallModel(r) PROVE TypeOK'
    BY <1>4, <1>0 DEF CallModel, gatewayVars, hostVars, ApiLimit, ModelLimit
<1>5. ASSUME NEW r \in Request, ModelReplies(r) PROVE TypeOK'
    BY <1>5, <1>0 DEF ModelReplies, OrchestratorAnswers, Code, gatewayVars, hostVars, ApiLimit, ModelLimit
<1>6. ASSUME NEW r \in Request, ModelFails(r) PROVE TypeOK'
    BY <1>6, <1>0 DEF ModelFails, OrchestratorAnswers, Code, gatewayVars, callVars, hostVars, ApiLimit, ModelLimit
<1>7. ASSUME NEW r \in Request, ModelLimitReached(r) PROVE TypeOK'
    BY <1>7, <1>0 DEF ModelLimitReached, OrchestratorAnswers, Classified, Code, gatewayVars, hostVars, ApiLimit, ModelLimit
<1>8. ASSUME NEW r \in Request, ReceiveStatus(r) PROVE TypeOK'
    BY <1>8, <1>0 DEF ReceiveStatus, callVars, hostVars, ApiLimit, ModelLimit
<1>9. ASSUME NEW r \in Request, NEW code \in Code, Respond(r, code),
             orch' \in [Request -> {"none", "sent", "calling", "answering", "done"}],
             UNCHANGED <<input, age, status, callVars, hostVars>>
      PROVE  TypeOK'
    BY <1>9, <1>0 DEF Respond, callVars, hostVars, ApiLimit, ModelLimit
<1>10. \A code : \A read \in BOOLEAN : Translated(code, read) \in Code
    BY DEF Translated, Code
<1>11. ASSUME NEW r \in Request, ReceiveBody(r) PROVE TypeOK'
    BY <1>11, <1>9, <1>10 DEF ReceiveBody
<1>12. ASSUME NEW r \in Request, ConnectionLost(r) PROVE TypeOK'
    <2>1. "ORCHESTRATOR_UNAVAILABLE" \in Code  BY DEF Code
    <2> QED  BY <2>1, <1>12, <1>9, <1>10 DEF ConnectionLost
<1>13. ASSUME NEW r \in Request, ApiLimitReached(r) PROVE TypeOK'
    <2>1. "MODEL_TIMEOUT" \in Code  BY DEF Code
    <2> QED  BY <2>1, <1>13, <1>9, <1>10 DEF ApiLimitReached
<1>14. ASSUME NEW r \in Request, CloseClient(r) PROVE TypeOK'
    BY <1>14, <1>0 DEF CloseClient, callVars, hostVars, ApiLimit, ModelLimit
<1>15. ASSUME NEW r \in Request, CloseCall(r) PROVE TypeOK'
    <2>1. "ORCHESTRATOR_UNAVAILABLE" \in Code  BY DEF Code
    <2> QED  BY <2>1, <1>15, <1>9 DEF CloseCall
<1>16. CASE OrchestratorCrashes
    <2>1. crashes' \in 0..MaxCrashes
        BY <1>16 DEF OrchestratorCrashes
    <2>2. orch' \in [Request -> {"none", "sent", "calling", "answering", "done"}]
        BY <1>16 DEF OrchestratorCrashes
    <2> QED
        BY <1>16, <1>0, <2>1, <2>2 DEF OrchestratorCrashes, gatewayVars, callVars, ApiLimit, ModelLimit
<1>17. CASE OrchestratorStarts
    BY <1>17, <1>0 DEF OrchestratorStarts, gatewayVars, callVars, ApiLimit, ModelLimit
<1>18. CASE Tick
    BY <1>18, <1>0 DEF Tick, hostVars, ApiLimit, ModelLimit
<1>19. CASE UNCHANGED vars
    BY <1>19, <1>0 DEF vars, ApiLimit, ModelLimit
<1> QED
    BY <1>1, <1>2, <1>3, <1>4, <1>5, <1>6, <1>7, <1>8, <1>11, <1>12, <1>13, <1>14, <1>15, <1>16, <1>17, <1>18, <1>19
    DEF Next

(* The values the model works on stay of their types. *)
THEOREM TypeCorrect == Spec => []TypeOK
BY TypeInit, TypeNext, PTL DEF Spec

-----------------------------------------------------------------------------
(* The inductive invariant. *)

(* It holds initially. *)
LEMMA InvInit == Init => IInv
<1> SUFFICES ASSUME Init PROVE IInv  OBVIOUS
<1>1. TypeOK
    BY TypeInit
<1>2. PathInv /\ DropInv
    BY NullAssumption DEF Init, PathInv, DropInv, Contract!Refusal, Code
<1>3. CallInv /\ CauseInv
    BY NullAssumption DEF Init, CallInv, CauseInv, Code
<1> QED  BY <1>1, <1>2, <1>3 DEF IInv

(* An answer of the gateway to a request it has passed on: the answer is   *)
(* not a refusal, and it has its cause.                                    *)
LEMMA RespondKeeps ==
    ASSUME IInv, NEW r \in Request, gateway[r] \in Open, NEW code, Respond(r, code),
           code \in {"OK"} \cup Contract!Failure,
           code = "OK" => replied[r],
           code = "MODEL_SECRET_MISSING" => status[r] = code,
           code = "MODEL_TIMEOUT" => age[r] = ApiLimit \/ status[r] = code,
           \/ UNCHANGED orch
           \/ orch[r] = "answering" /\ orch' = [orch EXCEPT ![r] = "done"],
           UNCHANGED <<input, age, status, callVars, hostVars>>
    PROVE  PathInv' /\ CallInv' /\ CauseInv' /\ DropInv'
<1> USE DEF IInv, TypeOK
<1>1. PathInv'
    BY DEF PathInv, Respond, Open, Contract!Refusal, Contract!Failure
<1>2. CallInv'
    BY DEF CallInv, Respond, callVars, hostVars
<1>3. CauseInv'
    BY DEF CauseInv, Respond, callVars, hostVars, ApiLimit
<1>4. DropInv'
    BY DEF DropInv, Respond, hostVars, ApiLimit, IdleLimit
<1> QED  BY <1>1, <1>2, <1>3, <1>4

(* An answer of the orchestrator to a request it has. *)
LEMMA AnswersKeeps ==
    ASSUME IInv, NEW r \in Request, orch[r] \in {"sent", "calling"}, NEW code, OrchestratorAnswers(r, code),
           code = "OK" <=> replied'[r],
           code = "MODEL_TIMEOUT" => limited'[r],
           code = "MODEL_SECRET_MISSING" => orch[r] = "sent",
           \A q \in Request \ {r} : replied'[q] = replied[q] /\ limited'[q] = limited[q],
           UNCHANGED <<gatewayVars, callAge, started, hostVars>>
    PROVE  PathInv' /\ CallInv' /\ CauseInv' /\ DropInv'
<1> USE NullAssumption DEF IInv, TypeOK, gatewayVars, hostVars
<1>1. PathInv'
    BY DEF PathInv, OrchestratorAnswers, Contract!Refusal
<1>2. CallInv'
    BY DEF CallInv, OrchestratorAnswers
<1>3. CauseInv'
    BY DEF CauseInv, CallInv, OrchestratorAnswers, ApiLimit, Code
<1>4. DropInv'
    BY DEF DropInv, ApiLimit, IdleLimit
<1> QED  BY <1>1, <1>2, <1>3, <1>4

(* Every step keeps it. *)
LEMMA InvNext ==
    ASSUME IInv, [Next]_vars
    PROVE  IInv'
<1> DEFINE I == PathInv /\ CallInv /\ CauseInv /\ DropInv
<1> USE NullAssumption
<1>0. ApiLimit \in Nat \ {0} /\ ModelLimit \in Nat \ {0} /\ IdleLimit \in Nat \ {0}
    BY LimitTypes DEF IInv, TypeOK
<1>T. TypeOK /\ TypeOK'
    BY TypeNext DEF IInv
<1>1. ASSUME NEW r \in Request, Refuse(r) PROVE I'
    <2> USE <1>1 DEF IInv, Refuse, Respond, callVars, hostVars
    <2>1. PathInv'  BY <1>T DEF PathInv, TypeOK
    <2>2. CallInv'  BY <1>T DEF CallInv, TypeOK
    <2>3. CauseInv'
        <3>1. PICK in \in Input : answer' = [answer EXCEPT ![r] = RefusalFor(in)]
            OBVIOUS
        <3> QED  BY <1>T, <3>1, RefusalCodes DEF CauseInv, TypeOK, Contract!Refusal, ApiLimit
    <2>4. DropInv'  BY <1>T DEF DropInv, PathInv, TypeOK, ApiLimit, IdleLimit
    <2> QED  BY <2>1, <2>2, <2>3, <2>4
<1>2. ASSUME NEW r \in Request, Admit(r) PROVE I'
    <2> USE <1>2 DEF IInv, Admit, callVars, hostVars
    <2>1. PathInv'  BY <1>T DEF PathInv, TypeOK, Contract!Refusal, Code
    <2>2. CallInv'  BY <1>T DEF CallInv, PathInv, TypeOK
    <2>3. CauseInv'  BY <1>T DEF CauseInv, TypeOK, ApiLimit
    <2>4. DropInv'  BY <1>T DEF DropInv, TypeOK, ApiLimit, IdleLimit
    <2> QED  BY <2>1, <2>2, <2>3, <2>4
<1>3. ASSUME NEW r \in Request, OrchestratorRefuses(r) PROVE I'
    <2> PICK code \in {"UNAUTHORIZED", "INVALID_REQUEST", "MODEL_SECRET_MISSING"} : OrchestratorAnswers(r, code)
        BY <1>3 DEF OrchestratorRefuses
    <2> QED  BY <1>3, AnswersKeeps DEF OrchestratorRefuses, IInv, CallInv, callVars
<1>4. ASSUME NEW r \in Request, CallModel(r) PROVE I'
    <2> USE <1>4 DEF IInv, CallModel, gatewayVars, hostVars
    <2>1. PathInv'  BY <1>T DEF PathInv, TypeOK
    <2>2. CallInv'  BY <1>T, <1>0 DEF CallInv, TypeOK
    <2>3. CauseInv'  BY <1>T DEF CauseInv, TypeOK, ApiLimit
    <2>4. DropInv'  BY <1>T DEF DropInv, TypeOK, ApiLimit, IdleLimit
    <2> QED  BY <2>1, <2>2, <2>3, <2>4
<1>5. ASSUME NEW r \in Request, ModelReplies(r) PROVE I'
    <2>1. OrchestratorAnswers(r, "OK") /\ replied'[r] /\ \A q \in Request \ {r} : replied'[q] = replied[q]
        BY <1>5, <1>T DEF ModelReplies, TypeOK
    <2> QED  BY <1>5, <2>1, AnswersKeeps DEF ModelReplies
<1>6. ASSUME NEW r \in Request, ModelFails(r) PROVE I'
    BY <1>6, AnswersKeeps DEF ModelFails, IInv, CallInv, callVars
<1>7. ASSUME NEW r \in Request, ModelLimitReached(r) PROVE I'
    <2> PICK code \in {"MODEL_TIMEOUT", "MODEL_FAILURE"} : OrchestratorAnswers(r, code)
        BY <1>7 DEF ModelLimitReached, Classified
    <2>1. limited'[r] /\ \A q \in Request \ {r} : limited'[q] = limited[q]
        BY <1>7, <1>T DEF ModelLimitReached, TypeOK
    <2> QED  BY <1>7, <2>1, AnswersKeeps DEF ModelLimitReached, ModelTimer, IInv, CallInv
<1>8. ASSUME NEW r \in Request, ReceiveStatus(r) PROVE I'
    <2> USE <1>8 DEF IInv, ReceiveStatus, callVars, hostVars
    <2>1. PathInv'  BY <1>T DEF PathInv, TypeOK
    <2>2. CallInv'  BY <1>T DEF CallInv
    <2>3. CauseInv'  BY <1>T DEF CauseInv, ApiLimit
    <2>4. DropInv'  BY <1>T DEF DropInv, ApiLimit, IdleLimit
    <2> QED  BY <2>1, <2>2, <2>3, <2>4
<1>9. ASSUME NEW r \in Request, gateway[r] = "body", NEW read \in BOOLEAN, Respond(r, Translated(status[r], read)),
             \/ UNCHANGED orch
             \/ orch[r] = "answering" /\ orch' = [orch EXCEPT ![r] = "done"],
             UNCHANGED <<input, age, status, callVars, hostVars>>
      PROVE  I'
    <2> DEFINE code == Translated(status[r], read)
    <2>1. /\ code \in {"OK"} \cup Contract!Failure
          /\ code = "OK" => status[r] = "OK"
          /\ code = "MODEL_TIMEOUT" => status[r] = code
          /\ code = "MODEL_SECRET_MISSING" => status[r] = code
        BY TranslatedCodes
    <2>2. code = "OK" => replied[r]
        BY <2>1 DEF IInv, CauseInv
    <2> QED
        BY <1>9, <2>1, <2>2, RespondKeeps DEF Open
<1>10. ASSUME NEW r \in Request, gateway[r] = "calling", NEW code \in {"ORCHESTRATOR_UNAVAILABLE", "MODEL_TIMEOUT"},
              Respond(r, code), code = "MODEL_TIMEOUT" => age[r] = ApiLimit,
              UNCHANGED <<input, age, orch, status, callVars, hostVars>>
      PROVE  I'
    BY <1>10, RespondKeeps DEF Open, Contract!Failure
<1>11. ASSUME NEW r \in Request, ReceiveBody(r) PROVE I'
    BY <1>11, <1>9 DEF ReceiveBody
<1>12. ASSUME NEW r \in Request, ConnectionLost(r) PROVE I'
    BY <1>12, <1>9, <1>10 DEF ConnectionLost
<1>13. ASSUME NEW r \in Request, ApiLimitReached(r) PROVE I'
    BY <1>13, <1>9, <1>10 DEF ApiLimitReached, ApiTimer
<1>14. ASSUME NEW r \in Request, CloseClient(r) PROVE I'
    <2> USE <1>14 DEF IInv, CloseClient, ClientIdle, callVars, hostVars
    <2>1. PathInv'  BY <1>T DEF PathInv, TypeOK, Open
    <2>2. CallInv'  BY <1>T DEF CallInv
    <2>3. CauseInv'  BY <1>T DEF CauseInv, ApiLimit
    <2>4. IdleLimit <= ApiLimit  BY <1>T, <1>0 DEF TypeOK
    <2>5. DropInv'  BY <1>T, <2>4 DEF DropInv, TypeOK, ApiLimit, IdleLimit
    <2> QED  BY <2>1, <2>2, <2>3, <2>5
<1>15. ASSUME NEW r \in Request, CloseCall(r) PROVE I'
    BY <1>15, <1>10 DEF CloseCall, CallIdle
<1>16. ASSUME OrchestratorCrashes PROVE I'
    <2> USE <1>16 DEF IInv, OrchestratorCrashes, gatewayVars, callVars
    <2>1. PathInv'  BY <1>T DEF PathInv, TypeOK
    <2>2. CallInv'  BY <1>T DEF CallInv, TypeOK
    <2>3. CauseInv'  BY <1>T DEF CauseInv, ApiLimit
    <2>4. DropInv'  BY <1>T DEF DropInv, ApiLimit, IdleLimit
    <2> QED  BY <2>1, <2>2, <2>3, <2>4
<1>17. ASSUME OrchestratorStarts PROVE I'
    <2> USE <1>17 DEF IInv, OrchestratorStarts, gatewayVars, callVars
    <2>1. PathInv'  BY <1>T DEF PathInv
    <2>2. CallInv'  BY <1>T DEF CallInv
    <2>3. CauseInv'  BY <1>T DEF CauseInv, ApiLimit
    <2>4. DropInv'  BY <1>T DEF DropInv, ApiLimit, IdleLimit
    <2> QED  BY <2>1, <2>2, <2>3, <2>4
<1>18. ASSUME Tick PROVE I'
    <2> USE <1>18 DEF IInv, Tick, hostVars
    <2>1. PathInv'  BY <1>T DEF PathInv, Open
    <2>2. CallInv'
        <3> SUFFICES ASSUME NEW r \in Request, orch[r] = "calling"
                     PROVE  age'[r] <= started[r] + callAge'[r]
            BY <1>T DEF CallInv, TypeOK
        <3>1. up /\ age[r] <= started[r] + callAge[r]
            BY DEF CallInv
        <3>2. callAge[r] < ModelLimit
            <4>1. callAge[r] # ModelLimit
                BY <3>1 DEF ModelTimer
            <4>2. callAge[r] \in 0..ModelLimit
                BY <1>T DEF TypeOK
            <4> QED  BY <4>1, <4>2, <1>0
        <3>3. callAge'[r] = callAge[r] + 1 /\ age'[r] <= age[r] + 1
            BY <3>2, <1>T, <1>0 DEF TypeOK
        <3> QED  BY <3>1, <3>3, <1>T, <1>0 DEF TypeOK
    <2>3. CauseInv'
        <3> SUFFICES ASSUME NEW r \in Request PROVE CauseInv!(r)'
            BY DEF CauseInv
        <3>1. status[r] = "MODEL_SECRET_MISSING" => callAge'[r] = callAge[r]
            BY DEF CallInv, Code
        <3>2. age[r] = ApiLimit => age'[r] = age[r]
            BY <1>0
        <3> QED  BY <3>1, <3>2 DEF CauseInv, ApiLimit
    <2>4. DropInv'  BY <1>T DEF DropInv, ApiLimit, IdleLimit
    <2> QED  BY <2>1, <2>2, <2>3, <2>4
<1>19. ASSUME UNCHANGED vars PROVE I'
    <2> USE <1>19 DEF IInv, vars, callVars
    <2>1. PathInv'  BY DEF PathInv
    <2>2. CallInv'  BY DEF CallInv
    <2>3. CauseInv'  BY DEF CauseInv, ApiLimit
    <2>4. DropInv'  BY DEF DropInv, ApiLimit, IdleLimit
    <2> QED  BY <2>1, <2>2, <2>3, <2>4
<1>20. I'
    BY <1>1, <1>2, <1>3, <1>4, <1>5, <1>6, <1>7, <1>8, <1>11, <1>12, <1>13, <1>14, <1>15, <1>16, <1>17, <1>18, <1>19
    DEF Next
<1> QED  BY <1>T, <1>20 DEF IInv

(* The inductive invariant holds in every reachable state. *)
THEOREM Invariance == Spec => []IInv
BY InvInit, InvNext, PTL DEF Spec

-----------------------------------------------------------------------------
(* What a client is told is true. *)

(* MODEL_TIMEOUT is sent only when one of the two limits has run out, and  *)
(* MODEL_SECRET_MISSING only when the model was never called.              *)
THEOREM TimeoutsAndMissingKeysAreTrue == Spec => []FailuresAreTrue
<1>1. IInv => FailuresAreTrue
    BY DEF IInv, CauseInv, FailuresAreTrue
<1> QED  BY <1>1, Invariance, PTL

(* A call of the model that is still running when MODEL_TIMEOUT has been   *)
(* answered began when the difference between the limits was used up.      *)
THEOREM LateCallsAlone == Spec => []CallOutlivesAnswerOnlyIfLate
<1>1. IInv => CallOutlivesAnswerOnlyIfLate
    <2> SUFFICES ASSUME IInv, NEW r \in Request, answer[r] = "MODEL_TIMEOUT", orch[r] = "calling"
                 PROVE  started[r] + ModelLimit >= ApiLimit
        BY DEF CallOutlivesAnswerOnlyIfLate
    <2>1. status[r] = Null /\ age[r] <= started[r] + callAge[r]
        BY DEF IInv, CallInv
    <2>2. age[r] = ApiLimit
        BY <2>1, NullAssumption DEF IInv, CauseInv, Code
    <2>3. ApiLimit \in Nat /\ ModelLimit \in Nat
        BY LimitTypes DEF IInv, TypeOK
    <2>4. started[r] \in Nat /\ callAge[r] \in Nat /\ callAge[r] <= ModelLimit
        BY <2>3 DEF IInv, TypeOK
    <2> QED  BY <2>1, <2>2, <2>3, <2>4
<1> QED  BY <1>1, Invariance, PTL

(* With an idle limit above the gateway's no waiting client is dropped.    *)
THEOREM LongIdleLimitDropsNobody == Spec => []NoDropWithLongIdleLimit
<1>1. IInv => NoDropWithLongIdleLimit
    <2> SUFFICES ASSUME IInv, IdleLimit > ApiLimit, NEW r \in Request PROVE client[r] # "dropped"
        BY DEF NoDropWithLongIdleLimit
    <2>1. ApiLimit \in Nat /\ IdleLimit \in Nat
        BY LimitTypes DEF IInv, TypeOK
    <2>2. client[r] = "dropped" => IdleLimit <= ApiLimit
        BY DEF IInv, DropInv
    <2> QED  BY <2>1, <2>2
<1> QED  BY <1>1, Invariance, PTL

-----------------------------------------------------------------------------
(* The services implement the contract: the safety part of the refinement. *)

(* The client's view of a request, as the contract has it. *)
Phase == [r \in Request |->
             IF gateway[r] = "new" THEN "new"
             ELSE IF client[r] = "waiting" THEN "open" ELSE "closed"]
Told == [r \in Request |-> IF client[r] = "told" THEN answer[r] ELSE Null]

(* The initial state is the contract's. *)
LEMMA ContractInit == Init => Contract!Init
BY DEF Init, Contract!Init

(* Steps behind the gateway that give no reply are invisible to the client. *)
LEMMA HiddenStutters ==
    ASSUME UNCHANGED <<client, answer, replied>>,
           \A r \in Request : gateway'[r] = gateway[r] \/ (gateway[r] \in Open /\ gateway'[r] \in Open)
    PROVE  UNCHANGED Contract!vars
<1>1. Phase' = Phase
    BY DEF Phase, Open
<1>2. Told' = Told
    BY DEF Told
<1> QED  BY <1>1, <1>2 DEF Phase, Told, Contract!vars

(* The handler's answer closes the request of a client that waits, and is  *)
(* lost on one that does not.                                              *)
LEMMA RespondCloses ==
    ASSUME IInv, NEW r \in Request, gateway[r] \in Open, NEW code, Respond(r, code),
           code \in {"OK"} \cup Contract!Failure,
           code = "OK" => replied[r],
           UNCHANGED replied
    PROVE  Contract!Close(r) \/ UNCHANGED Contract!vars
<1> USE DEF IInv, TypeOK
<1>1. CASE client[r] = "waiting"
    <2>1. Phase[r] = "open" /\ Phase' = [Phase EXCEPT ![r] = "closed"]
        BY <1>1 DEF Phase, Respond, Open
    <2>2. Told' = [Told EXCEPT ![r] = code]
        BY <1>1 DEF Told, Respond
    <2> QED  BY <2>1, <2>2 DEF Phase, Told, Contract!Close
<1>2. CASE client[r] # "waiting"
    <2>1. client[r] = "dropped"
        BY <1>2 DEF PathInv, Open
    <2>2. Phase' = Phase
        BY <2>1 DEF Phase, Respond, Open
    <2>3. Told' = Told
        BY <2>1 DEF Told, Respond
    <2> QED  BY <2>2, <2>3 DEF Phase, Told, Contract!vars
<1> QED  BY <1>1, <1>2

(* Every step is a step of the contract, or the client does not see it.    *)
LEMMA ContractNext ==
    ASSUME IInv, [Next]_vars
    PROVE  [Contract!Next]_(Contract!vars)
<1> USE DEF IInv, TypeOK
<1>1. ASSUME NEW r \in Request, Refuse(r) PROVE Contract!Refuse(r)
    <2> PICK in \in Input : Respond(r, RefusalFor(in))
        BY <1>1 DEF Refuse
    <2>1. gateway[r] = "new" /\ client[r] = "waiting" /\ UNCHANGED replied
        BY <1>1 DEF Refuse, PathInv, callVars
    <2>2. Phase[r] = "new" /\ Phase' = [Phase EXCEPT ![r] = "closed"]
        BY <2>1 DEF Phase, Respond
    <2>3. Told' = [Told EXCEPT ![r] = RefusalFor(in)]
        BY <2>1 DEF Told, Respond
    <2> QED  BY <2>1, <2>2, <2>3, RefusalCodes DEF Phase, Told, Contract!Refuse
<1>2. ASSUME NEW r \in Request, Admit(r) PROVE Contract!Admit(r)
    <2>1. gateway[r] = "new" /\ client[r] = "waiting" /\ UNCHANGED replied
        BY <1>2 DEF Admit, PathInv, callVars
    <2>2. Phase[r] = "new" /\ Phase' = [Phase EXCEPT ![r] = "open"]
        BY <1>2, <2>1 DEF Phase, Admit
    <2>3. Told' = Told
        BY <1>2 DEF Told, Admit
    <2> QED  BY <2>1, <2>2, <2>3 DEF Phase, Told, Contract!Admit
<1>3. ASSUME NEW r \in Request,
             OrchestratorRefuses(r) \/ CallModel(r) \/ ModelFails(r) \/ ModelLimitReached(r) \/ ReceiveStatus(r)
      PROVE  UNCHANGED Contract!vars
    <2>1. UNCHANGED <<client, answer, replied>>
        BY <1>3 DEF OrchestratorRefuses, CallModel, ModelFails, ModelLimitReached, ReceiveStatus, gatewayVars, callVars
    <2>2. UNCHANGED gateway \/ (gateway[r] = "calling" /\ gateway' = [gateway EXCEPT ![r] = "body"])
        BY <1>3 DEF OrchestratorRefuses, CallModel, ModelFails, ModelLimitReached, ReceiveStatus, gatewayVars
    <2>3. \A q \in Request : gateway'[q] = gateway[q] \/ (gateway[q] \in Open /\ gateway'[q] \in Open)
        BY <2>2 DEF Open
    <2> QED  BY <2>1, <2>3, HiddenStutters
<1>4. ASSUME NEW r \in Request, ModelReplies(r) PROVE Contract!Reply(r)
    <2>1. gateway[r] # "new" /\ answer[r] \notin Contract!Refusal /\ ~replied[r]
        BY <1>4 DEF ModelReplies, PathInv, CallInv
    <2>2. Phase' = Phase /\ Told' = Told /\ Phase[r] # "new" /\ Told[r] \notin Contract!Refusal
        BY <1>4, <2>1, NullAssumption DEF ModelReplies, gatewayVars, Phase, Told, Contract!Refusal, Code
    <2>3. replied' = [replied EXCEPT ![r] = TRUE]
        BY <1>4 DEF ModelReplies
    <2> QED  BY <2>1, <2>2, <2>3 DEF Phase, Told, Contract!Reply
<1>5. ASSUME NEW r \in Request, gateway[r] = "body", NEW read \in BOOLEAN,
             Respond(r, Translated(status[r], read)), UNCHANGED replied
      PROVE  Contract!Close(r) \/ UNCHANGED Contract!vars
    <2> DEFINE code == Translated(status[r], read)
    <2>1. code \in {"OK"} \cup Contract!Failure /\ (code = "OK" => status[r] = "OK")
        BY TranslatedCodes
    <2>2. code = "OK" => replied[r]
        BY <2>1 DEF CauseInv
    <2> QED  BY <1>5, <2>1, <2>2, RespondCloses DEF Open
<1>6. ASSUME NEW r \in Request, gateway[r] = "calling", NEW code \in {"ORCHESTRATOR_UNAVAILABLE", "MODEL_TIMEOUT"},
             Respond(r, code), UNCHANGED replied
      PROVE  Contract!Close(r) \/ UNCHANGED Contract!vars
    BY <1>6, RespondCloses DEF Open, Contract!Failure
<1>7. ASSUME NEW r \in Request,
             ReceiveBody(r) \/ ConnectionLost(r) \/ ApiLimitReached(r) \/ CloseCall(r)
      PROVE  Contract!Close(r) \/ UNCHANGED Contract!vars
    BY <1>7, <1>5, <1>6 DEF ReceiveBody, ConnectionLost, ApiLimitReached, CloseCall, CallIdle, callVars
<1>8. ASSUME NEW r \in Request, CloseClient(r) PROVE Contract!Drop(r)
    <2>1. client[r] = "waiting" /\ gateway[r] \in Open /\ UNCHANGED <<gateway, answer, replied>>
        BY <1>8 DEF CloseClient, ClientIdle, callVars
    <2>2. Phase[r] = "open" /\ Phase' = [Phase EXCEPT ![r] = "closed"]
        BY <1>8, <2>1 DEF Phase, CloseClient, Open
    <2>3. Told' = Told
        BY <1>8, <2>1 DEF Told, CloseClient
    <2> QED  BY <2>1, <2>2, <2>3 DEF Phase, Told, Contract!Drop
<1>9. ASSUME OrchestratorCrashes \/ OrchestratorStarts \/ Tick \/ UNCHANGED vars
      PROVE  UNCHANGED Contract!vars
    <2>1. UNCHANGED <<client, answer, replied>>
        BY <1>9 DEF OrchestratorCrashes, OrchestratorStarts, Tick, vars, gatewayVars, callVars
    <2>2. UNCHANGED gateway
        BY <1>9 DEF OrchestratorCrashes, OrchestratorStarts, Tick, vars, gatewayVars
    <2>3. \A q \in Request : gateway'[q] = gateway[q]
        BY <2>2
    <2> QED  BY <2>1, <2>3, HiddenStutters
<1> QED
    BY <1>1, <1>2, <1>3, <1>4, <1>7, <1>8, <1>9 DEF Next, Contract!Next

(* Every behaviour of the services is one the contract allows.             *)
THEOREM ContractKept == Spec => Contract!Init /\ [][Contract!Next]_(Contract!vars)
BY ContractInit, ContractNext, Invariance, PTL DEF Spec

-----------------------------------------------------------------------------
(***************************************************************************)
(* Voice sessions.                                                         *)
(***************************************************************************)

(* The rows of voice_sessions, what a call can be at, and that no two      *)
(* calls wait for one row.                                                 *)
Status == {"PENDING", "ACTIVE", "ENDED", "REJECTED"}
Row == [user : User, status : Status, left : 0..MaxSeconds]
Handling(ids) ==
    {Idle} \cup [at : {"admitted", "counted"}, user : User] \cup [at : {"calling"}, session : ids]
OneRowEach ==
    \A c, d \in Call :
        call[c].at = "calling" /\ call[d].at = "calling" /\ call[c].session = call[d].session => c = d
CountedFor(c, u) == call[c] = [at |-> "counted", user |-> u]

(* A user without an overlap: one call at most has counted, and it found   *)
(* a place that is still free.                                             *)
PlaceInv ==
    \A u \in User : u \notin overlapped =>
        /\ Cardinality(Live(u)) <= ConcurrentLimit
        /\ \A c \in Call : CountedFor(c, u) =>
              /\ Cardinality(Live(u)) < ConcurrentLimit
              /\ \A d \in Call : CountedFor(d, u) => d = c

(* The window of a bucket is `began` ticks old.  Requests were let through *)
(* in its first tick, no more since than the limit, and fewer than the     *)
(* limit in what of the last Window ticks lies before it.                  *)
Began(u) == Window - bucket[u].left + 1

UserRate(u) ==
    /\ \A ago \in 2..Window : admitted[u][ago - 1] <= admitted[u][ago]
    /\ IF bucket[u].left = 0
       THEN admitted[u][1] = 0 /\ admitted[u][Window] < Limit
       ELSE /\ admitted[u][Began(u)] <= Limit /\ admitted[u][Began(u)] <= bucket[u].count
            /\ admitted[u][Began(u)] >= 1
            /\ Began(u) > 1 => admitted[u][Began(u) - 1] < admitted[u][Began(u)]
            /\ admitted[u][Window] < admitted[u][Began(u)] + Limit

RateInv == \A u \in User : UserRate(u)

VoiceInv == VoiceTypeOK /\ PlaceInv /\ RateInv

(* The constants, by name. *)
LEMMA VoiceNumbers ==
    /\ ConcurrentLimit \in Nat /\ MaxSeconds \in Nat \ {0} /\ MaxSessions \in Nat
    /\ Limit \in Nat \ {0} /\ Window \in Nat \ {0}
BY VoiceAssumption, RateAssumption

(* What VoiceTypeOK says of a call and of the rows. *)
LEMMA CallTypes ==
    ASSUME VoiceTypeOK
    PROVE  /\ sessions \in Seq(Row) /\ Ids = 1..Len(sessions) /\ Len(sessions) \in Nat
           /\ \A n \in Ids : sessions[n] \in Row
           /\ \A c \in Call :
                 /\ call[c].at \in {"idle", "admitted", "counted", "calling"}
                 /\ call[c].at = "idle" <=> call[c] = Idle
                 /\ call[c].at \in {"admitted", "counted"} =>
                       call[c].user \in User /\ call[c] = [at |-> call[c].at, user |-> call[c].user]
                 /\ call[c].at = "calling" => /\ call[c].session \in Ids
                                              /\ sessions[call[c].session].status = "PENDING"
<1>1. sessions \in Seq(Row)
    BY DEF VoiceTypeOK, Row, Status
<1>2. ASSUME NEW c \in Call
      PROVE  /\ call[c].at \in {"idle", "admitted", "counted", "calling"}
             /\ call[c].at = "idle" <=> call[c] = Idle
             /\ call[c].at \in {"admitted", "counted"} =>
                   call[c].user \in User /\ call[c] = [at |-> call[c].at, user |-> call[c].user]
             /\ call[c].at = "calling" => call[c].session \in Ids
    <2>1. \/ call[c] = Idle
          \/ call[c] \in [at : {"admitted", "counted"}, user : User]
          \/ call[c] \in [at : {"calling"}, session : Ids]
        BY DEF VoiceTypeOK
    <2>2. CASE call[c] = Idle
        BY <2>2 DEF Idle
    <2>3. CASE call[c] \in [at : {"admitted", "counted"}, user : User]
        BY <2>3 DEF Idle
    <2>4. CASE call[c] \in [at : {"calling"}, session : Ids]
        BY <2>4 DEF Idle
    <2> QED  BY <2>1, <2>2, <2>3, <2>4
<1> QED  BY <1>1, <1>2 DEF VoiceTypeOK, Ids

(* The live sessions of a user are finitely many. *)
LEMMA LiveFinite ==
    ASSUME VoiceTypeOK, NEW u
    PROVE  IsFiniteSet(Live(u)) /\ Cardinality(Live(u)) \in Nat
<1>1. IsFiniteSet(Ids)
    BY CallTypes, FS_Interval
<1>2. Live(u) \in SUBSET Ids
    BY DEF Live
<1> QED  BY <1>1, <1>2, FS_Subset, FS_CardinalityType

(* A step that brings no live session and after which no other call has    *)
(* counted keeps PlaceInv.                                                 *)
LEMMA PlaceKept ==
    ASSUME VoiceTypeOK, PlaceInv, UNCHANGED overlapped,
           \A u \in User : Live(u)' \subseteq Live(u),
           \A c \in Call, u \in User : CountedFor(c, u)' => CountedFor(c, u)
    PROVE  PlaceInv'
<1>1. \A u \in User : Cardinality(Live(u)') <= Cardinality(Live(u)) /\ Cardinality(Live(u)') \in Nat
    <2> SUFFICES ASSUME NEW u \in User
                 PROVE  Cardinality(Live(u)') <= Cardinality(Live(u)) /\ Cardinality(Live(u)') \in Nat
        OBVIOUS
    <2> DEFINE Old == Live(u)
               New == Live(u)'
    <2>1. IsFiniteSet(Old) /\ New \in SUBSET Old
        BY LiveFinite
    <2> HIDE DEF Old, New
    <2>2. IsFiniteSet(New) /\ Cardinality(New) <= Cardinality(Old)
        BY <2>1, FS_Subset
    <2> QED  BY <2>2, FS_CardinalityType DEF Old, New
<1>2. ASSUME NEW u \in User, u \notin overlapped
      PROVE  /\ Cardinality(Live(u)') <= ConcurrentLimit
             /\ \A c \in Call : CountedFor(c, u)' =>
                   /\ Cardinality(Live(u)') < ConcurrentLimit
                   /\ \A d \in Call : CountedFor(d, u)' => d = c
    <2>1. Cardinality(Live(u)) \in Nat /\ ConcurrentLimit \in Nat
        BY LiveFinite, VoiceNumbers
    <2>2. Cardinality(Live(u)') <= ConcurrentLimit
        BY <1>1, <1>2, <2>1 DEF PlaceInv
    <2>3. \A c \in Call : CountedFor(c, u)' => Cardinality(Live(u)') < ConcurrentLimit
        BY <1>1, <1>2, <2>1 DEF PlaceInv
    <2>4. \A c, d \in Call : CountedFor(c, u)' /\ CountedFor(d, u)' => d = c
        BY <1>2 DEF PlaceInv
    <2> QED  BY <2>2, <2>3, <2>4
<1> QED  BY <1>2 DEF PlaceInv

(* The initial state satisfies the invariant. *)
LEMMA VoiceInvInit ==
    ASSUME VoiceInit
    PROVE  VoiceInv
<1> USE VoiceNumbers DEF VoiceInit
<1>1. sessions = <<>> /\ Ids = {} /\ Len(sessions) = 0
    BY DEF Ids
<1>2. \A c \in Call : call[c] = Idle /\ call[c].at = "idle"
    BY DEF Idle
<1>3. VoiceTypeOK
    <2>1. sessions \in Seq([user : User, status : {"PENDING", "ACTIVE", "ENDED", "REJECTED"}, left : 0..MaxSeconds])
        BY <1>1
    <2>2. bucket \in [User -> [count : Nat, left : 0..Window]]
        BY DEF NoBucket
    <2> QED  BY <1>1, <1>2, <2>1, <2>2 DEF VoiceTypeOK
<1>4. PlaceInv
    <2>1. \A u \in User : Live(u) = {}
        BY <1>1 DEF Live
    <2>2. \A u \in User : Cardinality(Live(u)) = 0
        BY <2>1, FS_EmptySet
    <2>3. \A c \in Call, u \in User : ~CountedFor(c, u)
        BY <1>2 DEF CountedFor
    <2> QED  BY <2>2, <2>3 DEF PlaceInv
<1>5. RateInv
    <2>1. ASSUME NEW u \in User
          PROVE  bucket[u].left = 0 /\ \A ago \in 1..Window : admitted[u][ago] = 0
        BY DEF NoBucket
    <2>2. \A ago \in 2..Window : ago \in 1..Window /\ ago - 1 \in 1..Window
        OBVIOUS
    <2>3. 1 \in 1..Window /\ Window \in 1..Window
        OBVIOUS
    <2> QED  BY <2>1, <2>2, <2>3 DEF RateInv, UserRate
<1> QED  BY <1>3, <1>4, <1>5 DEF VoiceInv

(* A step of POST keeps the types. *)
LEMMA PostTypes ==
    ASSUME VoiceTypeOK, NEW c \in Call, NEW u \in User, POST(c, u)
    PROVE  VoiceTypeOK'
<1> USE DEF Handling, OneRowEach
<1> USE VoiceNumbers
<1>1. bucket' \in [User -> [count : Nat, left : 0..Window]]
    <2>1. Counted(bucket[u]) \in [count : Nat, left : 0..Window]
        <3>1. bucket[u] \in [count : Nat, left : 0..Window]
            BY DEF VoiceTypeOK
        <3>2. CASE bucket[u].left = 0
            BY <3>2 DEF Counted
        <3>3. CASE bucket[u].left # 0
            BY <3>1, <3>3 DEF Counted
        <3> QED  BY <3>2, <3>3
    <2> QED  BY <2>1 DEF POST, VoiceTypeOK
<1>2. admitted' \in [User -> [1..Window -> Nat]]
    <2>1. [ago \in 1..Window |-> admitted[u][ago] + 1] \in [1..Window -> Nat]
        BY DEF VoiceTypeOK
    <2> QED  BY <2>1 DEF POST, VoiceTypeOK
<1>3. \/ call' = call
      \/ call' = [call EXCEPT ![c] = [at |-> "admitted", user |-> u]]
    BY DEF POST
<1>4. sessions' = sessions /\ told' = told /\ Ids' = Ids
    BY DEF POST, Ids
<1>5. CASE call' = call
    BY <1>1, <1>2, <1>4, <1>5 DEF VoiceTypeOK
<1>6. CASE call' = [call EXCEPT ![c] = [at |-> "admitted", user |-> u]]
    <2>1. /\ call' \in [Call -> Handling(Ids)]
          /\ call'[c].at = "admitted" /\ \A d \in Call : d # c => call'[d] = call[d]
        BY <1>6 DEF VoiceTypeOK
    <2>2. \A d \in Call : call'[d].at = "calling" => d # c /\ call'[d] = call[d]
        BY <2>1
    <2>3. /\ OneRowEach'
          /\ \A d \in Call : call'[d].at = "calling" => sessions[call'[d].session].status = "PENDING"
        <3>1. /\ OneRowEach
              /\ \A d \in Call : call[d].at = "calling" => sessions[call[d].session].status = "PENDING"
            BY DEF VoiceTypeOK
        <3> QED  BY <2>2, <3>1
    <2>4. /\ sessions \in Seq([user : User, status : {"PENDING", "ACTIVE", "ENDED", "REJECTED"}, left : 0..MaxSeconds])
          /\ told \subseteq {n \in Ids : sessions[n].status \in {"ACTIVE", "ENDED"}}
        BY DEF VoiceTypeOK
    <2> QED  BY <1>1, <1>2, <1>4, <2>1, <2>3, <2>4 DEF VoiceTypeOK
<1> QED  BY <1>3, <1>5, <1>6

(* A step that takes a call out of its hands, and no session from it that  *)
(* another waits for, keeps the types.                                     *)
LEMMA FinishTypes ==
    ASSUME VoiceTypeOK, NEW c \in Call, Finish(c)
    PROVE  /\ call' \in [Call -> Handling(Ids)]
           /\ call'[c].at = "idle" /\ \A d \in Call : d # c => call'[d] = call[d]
           /\ \A d \in Call : call'[d].at = "calling" => d # c /\ call[d].at = "calling" /\ call'[d] = call[d]
<1> USE DEF Handling, OneRowEach
<1>1. call' = [call EXCEPT ![c] = Idle]
    BY DEF Finish
<1>2. Idle.at = "idle"
    BY DEF Idle
<1> QED  BY <1>1, <1>2 DEF VoiceTypeOK

(* A change of one row's status.                                           *)
LEMMA RowChange ==
    ASSUME VoiceTypeOK, NEW n \in Ids, NEW s \in Status,
           sessions' = [sessions EXCEPT ![n].status = s]
    PROVE  /\ sessions' \in Seq(Row) /\ Ids' = Ids
           /\ sessions'[n].status = s /\ sessions'[n].user = sessions[n].user /\ sessions'[n].left = sessions[n].left
           /\ \A m \in Ids : m # n => sessions'[m] = sessions[m]
<1>1. sessions \in Seq(Row) /\ n \in 1..Len(sessions) /\ sessions[n] \in Row
    BY CallTypes
<1> DEFINE row == [sessions[n] EXCEPT !.status = s]
<1>2. row \in Row /\ row.status = s /\ row.user = sessions[n].user /\ row.left = sessions[n].left
    BY <1>1 DEF Row
<1>3. sessions' = [sessions EXCEPT ![n] = row]
    OBVIOUS
<1> HIDE DEF row
<1>4. sessions' \in Seq(Row) /\ DOMAIN sessions' = DOMAIN sessions
    BY <1>1, <1>2, <1>3, ExceptSeq
<1> QED  BY <1>1, <1>2, <1>3, <1>4 DEF Ids

(* A call that ends, having written the status of its session, or nothing, *)
(* keeps the types.                                                        *)
LEMMA CallTypesKept ==
    ASSUME VoiceTypeOK, NEW c \in Call,
           \/ ProviderAnswers(c)
           \/ ProviderRefuses(c)
           \/ Fail(c)
    PROVE  VoiceTypeOK'
<1> USE DEF Handling, OneRowEach
<1>1. Finish(c) /\ bucket' = bucket /\ admitted' = admitted
    BY DEF ProviderAnswers, ProviderRefuses, Fail
<1>2. /\ call' \in [Call -> Handling(Ids)]
      /\ \A d \in Call : call'[d].at = "calling" => d # c /\ call[d].at = "calling" /\ call'[d] = call[d]
    BY <1>1, FinishTypes
<1>3. \/ sessions' = sessions /\ told' = told
      \/ \E s \in {"ACTIVE", "REJECTED"} :
            /\ call[c].at = "calling" /\ sessions' = [sessions EXCEPT ![call[c].session].status = s]
            /\ told' = told \/ (s = "ACTIVE" /\ told' = told \cup {call[c].session})
    BY DEF ProviderAnswers, ProviderRefuses, Fail
<1>4. /\ OneRowEach
      /\ told \subseteq {n \in Ids : sessions[n].status \in {"ACTIVE", "ENDED"}}
      /\ bucket' \in [User -> [count : Nat, left : 0..Window]] /\ admitted' \in [User -> [1..Window -> Nat]]
    BY <1>1 DEF VoiceTypeOK
<1>5. /\ sessions' \in Seq(Row) /\ Ids' = Ids
      /\ told' \subseteq {n \in Ids : sessions'[n].status \in {"ACTIVE", "ENDED"}}
      /\ \A d \in Call : call'[d].at = "calling" => sessions'[call'[d].session].status = "PENDING"
    <2>1. CASE sessions' = sessions /\ told' = told
        BY <1>2, <1>4, <2>1, CallTypes DEF Ids
    <2>2. ASSUME NEW s \in {"ACTIVE", "REJECTED"}, call[c].at = "calling",
                 sessions' = [sessions EXCEPT ![call[c].session].status = s],
                 told' = told \/ (s = "ACTIVE" /\ told' = told \cup {call[c].session})
          PROVE  /\ sessions' \in Seq(Row) /\ Ids' = Ids
                 /\ told' \subseteq {n \in Ids : sessions'[n].status \in {"ACTIVE", "ENDED"}}
                 /\ \A d \in Call : call'[d].at = "calling" => sessions'[call'[d].session].status = "PENDING"
        <3> DEFINE n == call[c].session
        <3>1. n \in Ids /\ sessions[n].status = "PENDING" /\ n \notin told
            BY <1>4, <2>2, CallTypes
        <3>2. /\ sessions' \in Seq(Row) /\ Ids' = Ids
              /\ sessions'[n].status = s /\ \A m \in Ids : m # n => sessions'[m] = sessions[m]
            BY <2>2, <3>1, RowChange DEF Status
        <3>3. \A d \in Call : call'[d].at = "calling" => call'[d].session # n
            BY <1>2, <1>4, <2>2
        <3>4. \A d \in Call : call[d].at = "calling" => call[d].session \in Ids /\ sessions[call[d].session].status = "PENDING"
            BY CallTypes
        <3>5. \A d \in Call : call'[d].at = "calling" => sessions'[call'[d].session].status = "PENDING"
            BY <1>2, <3>2, <3>3, <3>4
        <3> HIDE DEF n
        <3>6. told' \subseteq {m \in Ids : sessions'[m].status \in {"ACTIVE", "ENDED"}}
            BY <1>4, <2>2, <3>1, <3>2 DEF n
        <3> QED  BY <3>2, <3>5, <3>6
    <2> QED  BY <1>3, <2>1, <2>2
<1>6. OneRowEach'
    BY <1>2, <1>4
<1> QED  BY <1>2, <1>4, <1>5, <1>6 DEF VoiceTypeOK, Row, Status

(* A count keeps the types. *)
LEMMA CountTypes ==
    ASSUME VoiceTypeOK, NEW c \in Call, Count(c)
    PROVE  VoiceTypeOK'
<1> USE DEF Handling, OneRowEach
<1>1. /\ sessions' = sessions /\ told' = told /\ bucket' = bucket /\ admitted' = admitted
      /\ Ids' = Ids /\ call[c].at = "admitted"
    BY DEF Count, Ids
<1>2. Finish(c) \/ call' = [call EXCEPT ![c].at = "counted"]
    BY DEF Count
<1>3. /\ call' \in [Call -> Handling(Ids)]
      /\ \A d \in Call : call'[d].at = "calling" => d # c /\ call[d].at = "calling" /\ call'[d] = call[d]
    <2>1. CASE Finish(c)
        BY <2>1, FinishTypes
    <2>2. CASE call' = [call EXCEPT ![c].at = "counted"]
        <3> DEFINE record == [call[c] EXCEPT !.at = "counted"]
        <3>1. call[c] = [at |-> "admitted", user |-> call[c].user] /\ call[c].user \in User
            BY <1>1, CallTypes
        <3>2. record \in [at : {"admitted", "counted"}, user : User] /\ record.at = "counted"
            BY <3>1
        <3>3. call' = [call EXCEPT ![c] = record]
            BY <2>2
        <3> HIDE DEF record
        <3> QED  BY <3>2, <3>3 DEF VoiceTypeOK
    <2> QED  BY <1>2, <2>1, <2>2
<1>4. /\ OneRowEach
      /\ \A d \in Call : call[d].at = "calling" => sessions[call[d].session].status = "PENDING"
    BY DEF VoiceTypeOK
<1>5. /\ OneRowEach'
      /\ \A d \in Call : call'[d].at = "calling" => sessions'[call'[d].session].status = "PENDING"
    BY <1>1, <1>3, <1>4
<1>6. /\ sessions' \in Seq([user : User, status : {"PENDING", "ACTIVE", "ENDED", "REJECTED"}, left : 0..MaxSeconds])
      /\ told' \subseteq {n \in Ids' : sessions'[n].status \in {"ACTIVE", "ENDED"}}
      /\ bucket' \in [User -> [count : Nat, left : 0..Window]] /\ admitted' \in [User -> [1..Window -> Nat]]
    BY <1>1 DEF VoiceTypeOK
<1> QED  BY <1>1, <1>3, <1>5, <1>6 DEF VoiceTypeOK

(* An insert keeps the types: the call waits for a row that nothing else   *)
(* knows of.                                                               *)
LEMMA InsertTypes ==
    ASSUME VoiceTypeOK, NEW c \in Call, Insert(c)
    PROVE  /\ VoiceTypeOK'
           /\ sessions' \in Seq(Row) /\ Ids' = Ids \cup {Len(sessions) + 1} /\ Len(sessions) + 1 \notin Ids
           /\ sessions'[Len(sessions) + 1] = [user |-> call[c].user, status |-> "PENDING", left |-> MaxSeconds]
           /\ \A m \in Ids : sessions'[m] = sessions[m]
<1> USE DEF Handling, OneRowEach
<1> DEFINE n   == Len(sessions) + 1
           row == [user |-> call[c].user, status |-> "PENDING", left |-> MaxSeconds]
           new == [at |-> "calling", session |-> n]
<1>1. /\ sessions' = Append(sessions, row) /\ call' = [call EXCEPT ![c] = new] /\ call[c].at = "counted"
      /\ told' = told /\ bucket' = bucket /\ admitted' = admitted
    BY DEF Insert
<1>2. row \in Row /\ row.status = "PENDING"
    <2>1. call[c].user \in User
        BY <1>1, CallTypes
    <2>2. MaxSeconds \in 0..MaxSeconds
        BY VoiceNumbers
    <2> QED  BY <2>1, <2>2 DEF Row, Status
<1>3. sessions \in Seq(Row) /\ Ids = 1..Len(sessions) /\ Len(sessions) \in Nat
    BY CallTypes
<1> HIDE DEF row
<1>4. /\ sessions' \in Seq(Row) /\ Ids' = Ids \cup {n} /\ n \notin Ids
      /\ sessions'[n] = row /\ \A m \in Ids : sessions'[m] = sessions[m]
    <2>1. sessions' \in Seq(Row) /\ Len(sessions') = n /\ sessions'[n] = row
          /\ \A m \in 1..Len(sessions) : sessions'[m] = sessions[m]
        BY <1>1, <1>2, <1>3, AppendProperties
    <2>2. Ids' = 1..n
        BY <2>1 DEF Ids
    <2> QED  BY <1>3, <2>1, <2>2
<1> HIDE DEF n
<1>5. /\ call' \in [Call -> Handling(Ids')]
      /\ call'[c].at = "calling" /\ call'[c].session = n
      /\ \A d \in Call : d # c => call'[d] = call[d]
    <2>1. call \in [Call -> Handling(Ids)]
        BY DEF VoiceTypeOK
    <2>2. call \in [Call -> Handling(Ids')]
        <3>1. \A d \in Call : call[d] \in Handling(Ids')
            BY <1>4, <2>1
        <3> QED  BY <2>1, <3>1
    <2>3. new \in [at : {"calling"}, session : Ids'] /\ new.at = "calling" /\ new.session = n
        BY <1>4
    <2> HIDE DEF new
    <2> QED  BY <1>1, <2>2, <2>3
<1>6. /\ OneRowEach
      /\ \A d \in Call : call[d].at = "calling" => call[d].session \in Ids /\ sessions[call[d].session].status = "PENDING"
    BY CallTypes DEF VoiceTypeOK
<1>7. OneRowEach'
    BY <1>4, <1>5, <1>6
<1>8. \A d \in Call : call'[d].at = "calling" => sessions'[call'[d].session].status = "PENDING"
    BY <1>2, <1>4, <1>5, <1>6
<1>9. told \subseteq {m \in Ids : sessions[m].status \in {"ACTIVE", "ENDED"}}
    BY DEF VoiceTypeOK
<1>10. told' \subseteq {m \in Ids' : sessions'[m].status \in {"ACTIVE", "ENDED"}}
    BY <1>1, <1>4, <1>9
<1>11. bucket' \in [User -> [count : Nat, left : 0..Window]] /\ admitted' \in [User -> [1..Window -> Nat]]
    BY <1>1 DEF VoiceTypeOK
<1>12. VoiceTypeOK'
    BY <1>4, <1>5, <1>7, <1>8, <1>10, <1>11 DEF VoiceTypeOK, Row, Status
<1> QED  BY <1>4, <1>12 DEF n, row

(* An end that a user asks for keeps the types: the user knows of the      *)
(* session, so that no call waits for it.                                  *)
LEMMA EndTypes ==
    ASSUME VoiceTypeOK, NEW n \in Ids, endRealtimeCall(n)
    PROVE  VoiceTypeOK'
<1> USE DEF Handling, OneRowEach
<1>1. /\ sessions' = [sessions EXCEPT ![n].status = "ENDED"] /\ n \in told
      /\ call' = call /\ told' = told /\ bucket' = bucket /\ admitted' = admitted
    BY DEF endRealtimeCall
<1>2. /\ sessions' \in Seq(Row) /\ Ids' = Ids
      /\ sessions'[n].status = "ENDED" /\ \A m \in Ids : m # n => sessions'[m] = sessions[m]
    BY <1>1, RowChange DEF Status
<1>3. /\ told \subseteq {m \in Ids : sessions[m].status \in {"ACTIVE", "ENDED"}}
      /\ call' \in [Call -> Handling(Ids)]
      /\ OneRowEach'
      /\ bucket' \in [User -> [count : Nat, left : 0..Window]] /\ admitted' \in [User -> [1..Window -> Nat]]
    BY <1>1 DEF VoiceTypeOK
<1>4. told' \subseteq {m \in Ids' : sessions'[m].status \in {"ACTIVE", "ENDED"}}
    BY <1>1, <1>2, <1>3
<1>5. \A c \in Call : call[c].at = "calling" => call[c].session \in Ids /\ sessions[call[c].session].status = "PENDING"
    BY CallTypes
<1>6. sessions[n].status \in {"ACTIVE", "ENDED"}
    BY <1>1, <1>3
<1>7. \A c \in Call : call'[c].at = "calling" => sessions'[call'[c].session].status = "PENDING"
    BY <1>1, <1>2, <1>5, <1>6
<1> QED  BY <1>2, <1>3, <1>4, <1>7 DEF VoiceTypeOK, Row, Status

(* What a tick does to rows and buckets. *)
LEMMA TickChange ==
    ASSUME VoiceTypeOK, VoiceTick
    PROVE  /\ sessions' \in Seq(Row) /\ Ids' = Ids
           /\ \A m \in Ids : /\ sessions'[m].user = sessions[m].user /\ sessions'[m].status = sessions[m].status
                             /\ sessions'[m].left > 0 => sessions[m].left > 0
           /\ bucket' \in [User -> [count : Nat, left : 0..Window]]
           /\ \A u \in User : /\ bucket'[u].count = bucket[u].count
                              /\ bucket'[u].left = IF bucket[u].left = 0 THEN 0 ELSE bucket[u].left - 1
           /\ admitted' \in [User -> [1..Window -> Nat]]
           /\ \A u \in User : /\ admitted'[u][1] = 0
                              /\ \A ago \in 2..Window : admitted'[u][ago] = admitted[u][ago - 1]
<1> USE VoiceNumbers
<1>1. sessions \in Seq(Row) /\ Ids = 1..Len(sessions) /\ Len(sessions) \in Nat /\ \A n \in Ids : sessions[n] \in Row
    BY CallTypes
<1> DEFINE Older(row) == [row EXCEPT !.left = IF @ = 0 THEN 0 ELSE @ - 1]
<1>2. ASSUME NEW row \in Row
      PROVE  /\ Older(row) \in Row /\ Older(row).user = row.user /\ Older(row).status = row.status
             /\ Older(row).left > 0 => row.left > 0
    BY DEF Row
<1>3. sessions' = [n \in Ids |-> Older(sessions[n])]
    BY DEF VoiceTick
<1> HIDE DEF Older
<1>4. sessions' \in [1..Len(sessions) -> Row]
    BY <1>1, <1>2, <1>3
<1>5. sessions' \in Seq(Row) /\ Ids' = Ids
    BY <1>1, <1>3, <1>4, SeqDef DEF Ids
<1>6. \A m \in Ids : /\ sessions'[m].user = sessions[m].user /\ sessions'[m].status = sessions[m].status
                     /\ sessions'[m].left > 0 => sessions[m].left > 0
    BY <1>1, <1>2, <1>3
<1>7. ASSUME NEW u \in User
      PROVE  /\ Later(bucket[u]) \in [count : Nat, left : 0..Window]
             /\ Later(bucket[u]).count = bucket[u].count
             /\ Later(bucket[u]).left = IF bucket[u].left = 0 THEN 0 ELSE bucket[u].left - 1
    <2>1. bucket[u] \in [count : Nat, left : 0..Window]
        BY DEF VoiceTypeOK
    <2> QED  BY <2>1 DEF Later
<1>8. bucket' = [u \in User |-> Later(bucket[u])]
    BY DEF VoiceTick
<1>9. admitted' = [u \in User |-> [ago \in 1..Window |-> IF ago = 1 THEN 0 ELSE admitted[u][ago - 1]]]
    BY DEF VoiceTick
<1>10. ASSUME NEW u \in User
       PROVE  [ago \in 1..Window |-> IF ago = 1 THEN 0 ELSE admitted[u][ago - 1]] \in [1..Window -> Nat]
    <2>1. admitted[u] \in [1..Window -> Nat]
        BY DEF VoiceTypeOK
    <2> QED  BY <2>1
<1>11. admitted' \in [User -> [1..Window -> Nat]]
    BY <1>9, <1>10
<1>12. \A u \in User : /\ admitted'[u][1] = 0
                       /\ \A ago \in 2..Window : admitted'[u][ago] = admitted[u][ago - 1]
    BY <1>9
<1>13. bucket' \in [User -> [count : Nat, left : 0..Window]]
    BY <1>7, <1>8
<1>14. \A u \in User : /\ bucket'[u].count = bucket[u].count
                       /\ bucket'[u].left = IF bucket[u].left = 0 THEN 0 ELSE bucket[u].left - 1
    BY <1>7, <1>8
<1> QED  BY <1>5, <1>6, <1>11, <1>12, <1>13, <1>14

(* A tick keeps the types. *)
LEMMA TickTypes ==
    ASSUME VoiceTypeOK, VoiceTick
    PROVE  VoiceTypeOK'
<1> USE DEF Handling, OneRowEach
<1>1. call' = call /\ told' = told
    BY DEF VoiceTick
<1>2. /\ sessions' \in Seq(Row) /\ Ids' = Ids
      /\ \A m \in Ids : sessions'[m].status = sessions[m].status
      /\ bucket' \in [User -> [count : Nat, left : 0..Window]] /\ admitted' \in [User -> [1..Window -> Nat]]
    BY TickChange
<1>3. /\ told \subseteq {m \in Ids : sessions[m].status \in {"ACTIVE", "ENDED"}}
      /\ call' \in [Call -> Handling(Ids)]
      /\ OneRowEach'
    BY <1>1 DEF VoiceTypeOK
<1>4. told' \subseteq {m \in Ids' : sessions'[m].status \in {"ACTIVE", "ENDED"}}
    BY <1>1, <1>2, <1>3
<1>5. \A c \in Call : call[c].at = "calling" => call[c].session \in Ids /\ sessions[call[c].session].status = "PENDING"
    BY CallTypes
<1>6. \A c \in Call : call'[c].at = "calling" => sessions'[call'[c].session].status = "PENDING"
    BY <1>1, <1>2, <1>5
<1> QED  BY <1>2, <1>3, <1>4, <1>6 DEF VoiceTypeOK, Row, Status

(* A count keeps PlaceInv: a second count before the insert is an overlap. *)
LEMMA CountPlace ==
    ASSUME VoiceTypeOK, PlaceInv, NEW c \in Call, Count(c)
    PROVE  PlaceInv'
<1> DEFINE u == call[c].user
<1>1. sessions' = sessions /\ call[c].at = "admitted" /\ u \in User /\ \A v : Live(v)' = Live(v)
    BY CallTypes DEF Count, Live, Ids, Holds
<1>2. \A d \in Call, v \in User : CountedFor(d, v) => d # c
    BY <1>1 DEF CountedFor
<1>3. CASE Finish(c) /\ overlapped' = overlapped
    <2>1. \A d \in Call, v \in User : CountedFor(d, v)' => CountedFor(d, v)
        BY <1>3, FinishTypes DEF CountedFor
    <2> QED  BY <1>1, <1>3, <2>1, PlaceKept
<1>4. ASSUME Concurrent(u) < ConcurrentLimit, call' = [call EXCEPT ![c].at = "counted"],
             overlapped' = IF \E d \in Call : CountedFor(d, u) THEN overlapped \cup {u} ELSE overlapped
      PROVE  PlaceInv'
    <2>1. call' = [call EXCEPT ![c] = [at |-> "counted", user |-> u]]
        <3>1. call[c] = [at |-> "admitted", user |-> u]
            BY <1>1, CallTypes
        <3>2. [call[c] EXCEPT !.at = "counted"] = [at |-> "counted", user |-> u]
            BY <3>1
        <3> QED  BY <1>4, <3>2
    <2>2. \A d \in Call : d # c => call'[d] = call[d]
        BY <2>1 DEF VoiceTypeOK
    <2>3. call'[c] = [at |-> "counted", user |-> u]
        BY <2>1 DEF VoiceTypeOK
    <2>4. \A v \in User : CountedFor(c, v)' => v = u
        BY <2>3 DEF CountedFor
    <2>5. \A d \in Call, v \in User : CountedFor(d, v)' => (d = c /\ v = u) \/ (d # c /\ CountedFor(d, v))
        BY <2>2, <2>4 DEF CountedFor
    <2>6. ASSUME NEW v \in User, v \notin overlapped'
          PROVE  /\ Cardinality(Live(v)') <= ConcurrentLimit
                 /\ \A d \in Call : CountedFor(d, v)' =>
                       /\ Cardinality(Live(v)') < ConcurrentLimit
                       /\ \A e \in Call : CountedFor(e, v)' => e = d
        <3>1. v \notin overlapped /\ (v = u => \A d \in Call : ~CountedFor(d, u))
            BY <1>4, <2>6
        <3>2. CASE v = u
            <4>1. \A d \in Call : CountedFor(d, v)' => d = c
                BY <2>5, <3>1, <3>2
            <4>2. Cardinality(Live(v)') < ConcurrentLimit
                BY <1>1, <1>4, <3>2 DEF Concurrent
            <4>3. Cardinality(Live(v)') <= ConcurrentLimit
                BY <1>1, <3>1 DEF PlaceInv
            <4> QED  BY <4>1, <4>2, <4>3
        <3>3. CASE v # u
            BY <1>1, <2>5, <3>1, <3>3 DEF PlaceInv
        <3> QED  BY <3>2, <3>3
    <2> QED  BY <2>6 DEF PlaceInv
<1>5. \/ Finish(c) /\ overlapped' = overlapped
      \/ /\ Concurrent(u) < ConcurrentLimit /\ call' = [call EXCEPT ![c].at = "counted"]
         /\ overlapped' = IF \E d \in Call : CountedFor(d, u) THEN overlapped \cup {u} ELSE overlapped
    <2>1. Concurrent(u) \in Nat /\ ConcurrentLimit \in Nat
        <3>1. Cardinality(Live(u)) \in Nat
            BY LiveFinite
        <3> QED  BY <3>1, VoiceNumbers DEF Concurrent
    <2> QED  BY <2>1 DEF Count, CountedFor
<1> QED  BY <1>3, <1>4, <1>5

(* An insert keeps PlaceInv: it takes the place that its count found.      *)
LEMMA InsertPlace ==
    ASSUME VoiceTypeOK, PlaceInv, NEW c \in Call, Insert(c)
    PROVE  PlaceInv'
<1> DEFINE u == call[c].user
           n == Len(sessions) + 1
<1>1. /\ CountedFor(c, u) /\ u \in User /\ overlapped' = overlapped
      /\ call' = [call EXCEPT ![c] = [at |-> "calling", session |-> n]]
    BY CallTypes DEF Insert, CountedFor
<1>2. \A d \in Call, v \in User : CountedFor(d, v)' => d # c /\ CountedFor(d, v)
    BY <1>1 DEF CountedFor, VoiceTypeOK
<1>3. /\ Ids' = Ids \cup {n} /\ sessions'[n].user = u
      /\ \A m \in Ids : sessions'[m] = sessions[m]
    <2>1. /\ Ids' = Ids \cup {n} /\ \A m \in Ids : sessions'[m] = sessions[m]
          /\ sessions'[n] = [user |-> u, status |-> "PENDING", left |-> MaxSeconds]
        BY InsertTypes
    <2> QED  BY <2>1
<1>4. \A v : Live(v)' \subseteq Live(v) \cup {n}
    BY <1>3 DEF Live, Holds
<1>5. \A v \in User : v # u => Live(v)' = Live(v)
    BY <1>3 DEF Live, Holds
<1>6. ASSUME NEW v \in User
      PROVE  /\ Cardinality(Live(v)') <= Cardinality(Live(v)) + 1
             /\ Cardinality(Live(v)') \in Nat /\ Cardinality(Live(v)) \in Nat
    <2> DEFINE Old == Live(v)
               New == Live(v)'
    <2>1. IsFiniteSet(Old) /\ Cardinality(Old) \in Nat
        BY LiveFinite
    <2>2. New \in SUBSET (Old \cup {n})
        BY <1>4
    <2> HIDE DEF Old, New, n
    <2>3. IsFiniteSet(Old \cup {n}) /\ Cardinality(Old \cup {n}) <= Cardinality(Old) + 1 /\ Cardinality(Old \cup {n}) \in Nat
        <3>1. IsFiniteSet(Old \cup {n}) /\ (Cardinality(Old \cup {n}) = Cardinality(Old) \/ Cardinality(Old \cup {n}) = Cardinality(Old) + 1)
            BY <2>1, FS_AddElement
        <3> QED  BY <2>1, <3>1
    <2>4. IsFiniteSet(New) /\ Cardinality(New) <= Cardinality(Old \cup {n})
        BY <2>2, <2>3, FS_Subset
    <2>5. Cardinality(New) \in Nat
        BY <2>4, FS_CardinalityType
    <2> QED  BY <2>1, <2>3, <2>4, <2>5 DEF Old, New
<1>7. ASSUME NEW v \in User, v \notin overlapped'
      PROVE  /\ Cardinality(Live(v)') <= ConcurrentLimit
             /\ \A d \in Call : CountedFor(d, v)' =>
                   /\ Cardinality(Live(v)') < ConcurrentLimit
                   /\ \A e \in Call : CountedFor(e, v)' => e = d
    <2>1. CASE v = u
        <3>1. CountedFor(c, v) /\ v \notin overlapped
            BY <1>1, <1>7, <2>1
        <3>2. Cardinality(Live(v)) < ConcurrentLimit /\ \A d \in Call : CountedFor(d, v) => d = c
            BY <3>1 DEF PlaceInv
        <3>3. \A d \in Call : ~CountedFor(d, v)'
            BY <1>2, <3>2
        <3>4. Cardinality(Live(v)') <= ConcurrentLimit
            BY <1>6, <3>2, VoiceNumbers
        <3> QED  BY <3>3, <3>4
    <2>2. CASE v # u
        BY <1>1, <1>2, <1>5, <1>7, <2>2 DEF PlaceInv
    <2> QED  BY <2>1, <2>2
<1> QED  BY <1>7 DEF PlaceInv

(* The remaining steps bring no live session, and no count. *)
LEMMA PlaceNext ==
    ASSUME VoiceTypeOK, PlaceInv, [VoiceNext]_voiceVars
    PROVE  PlaceInv'
<1>1. ASSUME NEW c \in Call, NEW u \in User, POST(c, u)
      PROVE  PlaceInv'
    <2>1. sessions' = sessions /\ overlapped' = overlapped /\ (call' = call \/ call' = [call EXCEPT ![c] = [at |-> "admitted", user |-> u]])
        BY <1>1 DEF POST
    <2>2. \A v \in User : Live(v)' \subseteq Live(v)
        BY <2>1 DEF Live, Ids, Holds
    <2>3. \A d \in Call, v \in User : CountedFor(d, v)' => CountedFor(d, v)
        <3>1. \A d \in Call : call'[d] = call[d] \/ call'[d] = [at |-> "admitted", user |-> u]
            BY <2>1 DEF VoiceTypeOK
        <3> QED  BY <3>1 DEF CountedFor
    <2> QED  BY <2>1, <2>2, <2>3, PlaceKept
<1>2. ASSUME NEW c \in Call, Finish(c), overlapped' = overlapped,
             \A v \in User : Live(v)' \subseteq Live(v)
      PROVE  PlaceInv'
    <2>1. \A d \in Call, v \in User : CountedFor(d, v)' => CountedFor(d, v)
        BY <1>2, FinishTypes DEF CountedFor
    <2> QED  BY <1>2, <2>1, PlaceKept
<1>3. ASSUME NEW n \in Ids, sessions[n].status \in {"PENDING", "ACTIVE"}, NEW s \in Status,
             sessions' = [sessions EXCEPT ![n].status = s]
      PROVE  \A v \in User : Live(v)' \subseteq Live(v)
    <2>1. /\ Ids' = Ids /\ sessions'[n].user = sessions[n].user /\ sessions'[n].left = sessions[n].left
          /\ \A m \in Ids : m # n => sessions'[m] = sessions[m]
        BY <1>3, RowChange
    <2> QED  BY <1>3, <2>1 DEF Live, Holds
<1>4. ASSUME NEW c \in Call, createRealtimeCall(c)
      PROVE  PlaceInv'
    <2>1. CASE Count(c)
        BY <2>1, CountPlace
    <2>2. CASE Insert(c)
        BY <2>2, InsertPlace
    <2>3. ASSUME NEW s \in {"ACTIVE", "REJECTED"}, call[c].at = "calling", Finish(c), overlapped' = overlapped,
                 sessions' = [sessions EXCEPT ![call[c].session].status = s]
          PROVE  PlaceInv'
        <3>1. call[c].session \in Ids /\ sessions[call[c].session].status = "PENDING"
            BY <2>3, CallTypes
        <3> QED  BY <1>2, <1>3, <2>3, <3>1 DEF Status
    <2>4. CASE ProviderAnswers(c)
        BY <2>3, <2>4 DEF ProviderAnswers
    <2>5. CASE ProviderRefuses(c)
        BY <2>3, <2>5 DEF ProviderRefuses
    <2>6. CASE Fail(c)
        <3>1. Finish(c) /\ sessions' = sessions /\ overlapped' = overlapped
            BY <2>6 DEF Fail
        <3>2. \A v \in User : Live(v)' \subseteq Live(v)
            BY <3>1 DEF Live, Ids, Holds
        <3> QED  BY <1>2, <3>1, <3>2
    <2> QED  BY <1>4, <2>1, <2>2, <2>4, <2>5, <2>6 DEF createRealtimeCall
<1>5. ASSUME NEW n \in Ids, endRealtimeCall(n)
      PROVE  PlaceInv'
    <2>1. /\ sessions[n].status \in {"PENDING", "ACTIVE"} /\ sessions' = [sessions EXCEPT ![n].status = "ENDED"]
          /\ call' = call /\ overlapped' = overlapped
        BY <1>5 DEF endRealtimeCall
    <2>2. \A v \in User : Live(v)' \subseteq Live(v)
        BY <1>3, <2>1 DEF Status
    <2> QED  BY <2>1, <2>2, PlaceKept DEF CountedFor
<1>6. CASE VoiceTick
    <2>1. call' = call /\ overlapped' = overlapped
        BY <1>6 DEF VoiceTick
    <2>2. \A v \in User : Live(v)' \subseteq Live(v)
        BY <1>6, TickChange DEF Live, Holds
    <2> QED  BY <2>1, <2>2, PlaceKept DEF CountedFor
<1>7. CASE UNCHANGED voiceVars
    <2>1. sessions' = sessions /\ call' = call /\ overlapped' = overlapped
        BY <1>7 DEF voiceVars
    <2> QED  BY <2>1 DEF PlaceInv, CountedFor, Live, Ids, Holds
<1> QED  BY <1>1, <1>4, <1>5, <1>6, <1>7 DEF VoiceNext

(* A step keeps the types. *)
LEMMA VoiceTypeNext ==
    ASSUME VoiceTypeOK, [VoiceNext]_voiceVars
    PROVE  VoiceTypeOK'
<1>1. ASSUME NEW c \in Call, createRealtimeCall(c)
      PROVE  VoiceTypeOK'
    BY <1>1, CountTypes, InsertTypes, CallTypesKept DEF createRealtimeCall
<1>2. CASE UNCHANGED voiceVars
    BY <1>2 DEF voiceVars, VoiceTypeOK, Ids
<1> QED  BY <1>1, <1>2, PostTypes, EndTypes, TickTypes DEF VoiceNext

(* What a step does to one user's bucket and history: nothing, the request *)
(* of a POST, or a tick.                                                   *)
Admits(u) == /\ bucket'[u] = Counted(bucket[u]) /\ Allowed(bucket[u])
             /\ \A ago \in 1..Window : admitted'[u][ago] = admitted[u][ago] + 1
Refuses(u) == bucket'[u] = Counted(bucket[u]) /\ ~Allowed(bucket[u]) /\ admitted'[u] = admitted[u]
Ages(u) == /\ bucket'[u].count = bucket[u].count
           /\ bucket'[u].left = IF bucket[u].left = 0 THEN 0 ELSE bucket[u].left - 1
           /\ admitted'[u][1] = 0 /\ \A ago \in 2..Window : admitted'[u][ago] = admitted[u][ago - 1]

(* Any step of the system is one of these for each user. *)
LEMMA UserSteps ==
    ASSUME VoiceTypeOK, [VoiceNext]_voiceVars, NEW u \in User
    PROVE  \/ bucket'[u] = bucket[u] /\ admitted'[u] = admitted[u]
           \/ Admits(u) \/ Refuses(u) \/ Ages(u)
<1>1. ASSUME NEW c \in Call, NEW v \in User, POST(c, v)
      PROVE  (bucket'[u] = bucket[u] /\ admitted'[u] = admitted[u]) \/ Admits(u) \/ Refuses(u)
    <2>1. bucket' = [bucket EXCEPT ![v] = Counted(@)]
        BY <1>1 DEF POST
    <2>2. IF Allowed(bucket[v])
          THEN admitted' = [admitted EXCEPT ![v] = [ago \in 1..Window |-> admitted[v][ago] + 1]]
          ELSE admitted' = admitted
        BY <1>1 DEF POST
    <2>3. bucket \in [User -> [count : Nat, left : 0..Window]] /\ admitted \in [User -> [1..Window -> Nat]]
        BY DEF VoiceTypeOK
    <2>4. CASE u # v
        BY <2>1, <2>2, <2>3, <2>4
    <2>5. CASE u = v /\ Allowed(bucket[u])
        <3>1. admitted'[u] = [ago \in 1..Window |-> admitted[u][ago] + 1]
            BY <2>2, <2>3, <2>5
        <3> QED  BY <2>1, <2>3, <2>5, <3>1 DEF Admits
    <2>6. CASE u = v /\ ~Allowed(bucket[u])
        BY <2>1, <2>2, <2>3, <2>6 DEF Refuses
    <2> QED  BY <2>4, <2>5, <2>6
<1>2. ASSUME NEW c \in Call, createRealtimeCall(c)
      PROVE  bucket' = bucket /\ admitted' = admitted
    BY <1>2 DEF createRealtimeCall, Count, Insert, ProviderAnswers, ProviderRefuses, Fail
<1>3. ASSUME NEW n \in Ids, endRealtimeCall(n)
      PROVE  bucket' = bucket /\ admitted' = admitted
    BY <1>3 DEF endRealtimeCall
<1>4. CASE VoiceTick
    BY <1>4, TickChange DEF Ages
<1>5. CASE UNCHANGED voiceVars
    BY <1>5 DEF voiceVars
<1> QED  BY <1>1, <1>2, <1>3, <1>4, <1>5 DEF VoiceNext

(* A request that passes keeps RateInv. *)
LEMMA AdmitsRate ==
    ASSUME VoiceTypeOK, NEW u \in User, UserRate(u), Admits(u)
    PROVE  UserRate(u)'
<1> USE VoiceNumbers
<1> DEFINE a == admitted[u]
           b == admitted'[u]
<1>1. bucket[u] \in [count : Nat, left : 0..Window] /\ a \in [1..Window -> Nat]
    BY DEF VoiceTypeOK
<1>2. \A ago \in 1..Window : b[ago] = a[ago] + 1
    BY DEF Admits
<1>3. \A ago \in 2..Window : ago - 1 \in 1..Window /\ ago \in 1..Window
    OBVIOUS
<1>4. \A ago \in 2..Window : b[ago - 1] <= b[ago]
    <2> SUFFICES ASSUME NEW ago \in 2..Window
                 PROVE  b[ago - 1] <= b[ago]
        OBVIOUS
    <2>1. a[ago - 1] <= a[ago]
        BY DEF UserRate
    <2> HIDE DEF a, b
    <2>2. b[ago - 1] = a[ago - 1] + 1 /\ b[ago] = a[ago] + 1 /\ a[ago - 1] \in Nat /\ a[ago] \in Nat
        BY <1>1, <1>2, <1>3
    <2> QED  BY <2>1, <2>2
<1>5. CASE bucket[u].left = 0
    <2>1. bucket'[u] = [count |-> 1, left |-> Window]
        BY <1>5 DEF Admits, Counted
    <2>2. Began(u)' = 1
        BY <2>1 DEF Began
    <2>3. a[1] = 0 /\ a[Window] < Limit /\ 1 \in 1..Window /\ Window \in 1..Window
        BY <1>5 DEF UserRate
    <2>4. b[1] = 1 /\ b[Window] = a[Window] + 1
        BY <1>2, <2>3
    <2> HIDE DEF a, b
    <2>5. b[1] <= Limit /\ b[1] <= 1 /\ b[1] >= 1 /\ b[Window] < b[1] + Limit
        BY <1>1, <2>3, <2>4
    <2> QED  BY <1>4, <2>1, <2>2, <2>5 DEF UserRate, a, b
<1>6. CASE bucket[u].left # 0
    <2>1. bucket'[u].left = bucket[u].left /\ bucket'[u].count = bucket[u].count + 1 /\ bucket[u].count + 1 <= Limit
        <3>1. bucket'[u] = [bucket[u] EXCEPT !.count = @ + 1] /\ bucket'[u].count <= Limit
            BY <1>6 DEF Admits, Counted, Allowed
        <3> QED  BY <1>1, <3>1
    <2> DEFINE o == Began(u)
    <2>2. Began(u)' = o /\ o \in 1..Window /\ (o > 1 => o - 1 \in 1..Window) /\ Window \in 1..Window
        BY <1>1, <1>6, <2>1 DEF Began
    <2>3. /\ a[o] <= Limit /\ a[o] <= bucket[u].count /\ a[o] >= 1
          /\ o > 1 => a[o - 1] < a[o]
          /\ a[Window] < a[o] + Limit
        BY <1>6 DEF UserRate
    <2> HIDE DEF o, a, b
    <2>4. b[o] = a[o] + 1 /\ b[Window] = a[Window] + 1 /\ (o > 1 => b[o - 1] = a[o - 1] + 1)
        BY <1>2, <2>2
    <2>5. a[o] \in Nat /\ a[Window] \in Nat /\ (o > 1 => a[o - 1] \in Nat) /\ bucket[u].count \in Nat
        BY <1>1, <2>2
    <2>6. /\ b[o] <= Limit /\ b[o] <= bucket[u].count + 1 /\ b[o] >= 1
          /\ o > 1 => b[o - 1] < b[o]
          /\ b[Window] < b[o] + Limit
        BY <2>1, <2>3, <2>4, <2>5
    <2> QED  BY <1>4, <1>6, <2>1, <2>2, <2>6 DEF UserRate, a, b
<1> QED  BY <1>5, <1>6

(* A refused request keeps RateInv: a window that is over refuses nothing. *)
LEMMA RefusesRate ==
    ASSUME VoiceTypeOK, NEW u \in User, UserRate(u), Refuses(u)
    PROVE  UserRate(u)'
<1> USE VoiceNumbers
<1>1. bucket[u] \in [count : Nat, left : 0..Window] /\ admitted[u] \in [1..Window -> Nat]
    BY DEF VoiceTypeOK
<1>2. bucket[u].left # 0
    BY DEF Refuses, Allowed, Counted
<1>3. bucket'[u].left = bucket[u].left /\ bucket'[u].count = bucket[u].count + 1
    <2>1. bucket'[u] = [bucket[u] EXCEPT !.count = @ + 1]
        BY <1>2 DEF Refuses, Counted
    <2> QED  BY <1>1, <2>1
<1>4. Began(u)' = Began(u) /\ Began(u) \in 1..Window
    BY <1>1, <1>2, <1>3 DEF Began
<1>5. admitted'[u] = admitted[u] /\ admitted[u][Began(u)] \in Nat /\ bucket[u].count \in Nat
    BY <1>1, <1>4 DEF Refuses
<1>6. admitted[u][Began(u)] <= bucket[u].count + 1
    BY <1>2, <1>5 DEF UserRate
<1> QED  BY <1>2, <1>3, <1>4, <1>5, <1>6 DEF UserRate

(* A tick keeps RateInv.  When the window ends, what the last Window ticks *)
(* let through is what passed after its first tick: less than the limit.   *)
LEMMA AgesRate ==
    ASSUME VoiceTypeOK, NEW u \in User, UserRate(u), Ages(u),
           admitted'[u] \in [1..Window -> Nat]
    PROVE  UserRate(u)'
<1> USE VoiceNumbers
<1> DEFINE a == admitted[u]
           b == admitted'[u]
           l == bucket[u].left
<1>1. bucket[u].count \in Nat /\ l \in 0..Window /\ a \in [1..Window -> Nat] /\ b \in [1..Window -> Nat]
    BY DEF VoiceTypeOK
<1>2. b[1] = 0 /\ \A ago \in 2..Window : b[ago] = a[ago - 1]
    BY DEF Ages
<1>3. bucket'[u].count = bucket[u].count /\ bucket'[u].left = IF l = 0 THEN 0 ELSE l - 1
    BY DEF Ages
<1>4. \A ago \in 2..Window : a[ago - 1] <= a[ago]
    BY DEF UserRate
<1> HIDE DEF a, b, l
<1>5. \A ago \in 2..Window : b[ago - 1] <= b[ago]
    <2> SUFFICES ASSUME NEW ago \in 2..Window
                 PROVE  b[ago - 1] <= b[ago]
        OBVIOUS
    <2>1. b[ago] = a[ago - 1] /\ ago - 1 \in 1..Window
        BY <1>2
    <2>2. CASE ago = 2
        BY <1>1, <1>2, <2>1, <2>2
    <2>3. CASE ago # 2
        <3>1. ago - 1 \in 2..Window /\ (ago - 1) - 1 = ago - 2
            BY <2>3
        <3>2. b[ago - 1] = a[(ago - 1) - 1] /\ a[(ago - 1) - 1] <= a[ago - 1]
            BY <1>2, <1>4, <3>1
        <3> QED  BY <2>1, <3>2
    <2> QED  BY <2>2, <2>3
<1>6. b[1] = 0 /\ b[Window] <= a[Window] /\ a[Window] \in Nat /\ b[Window] \in Nat
    BY <1>1, <1>2, <1>4
<1>7. CASE l = 0
    <2>1. a[Window] < Limit
        BY <1>7 DEF UserRate, a, l
    <2>2. b[Window] < Limit
        BY <1>6, <2>1
    <2> QED  BY <1>3, <1>5, <1>6, <1>7, <2>2 DEF UserRate, b
<1>8. ASSUME l # 0
      PROVE  UserRate(u)'
    <2> DEFINE o == Began(u)
    <2>1. o = Window - l + 1 /\ o \in 1..Window
        <3>1. o = Window - l + 1
            BY DEF Began, l
        <3> QED  BY <1>1, <1>8, <3>1
    <2>2. /\ a[o] <= Limit /\ a[o] <= bucket[u].count /\ a[o] >= 1
          /\ o > 1 => a[o - 1] < a[o]
          /\ a[Window] < a[o] + Limit
        BY <1>8 DEF UserRate, a, l
    <2> HIDE DEF o
    <2>3. CASE l = 1
        <3>1. o = Window
            BY <2>1, <2>3
        <3>2. b[Window] < Limit
            <4>1. CASE Window = 1
                BY <1>6, <4>1
            <4>2. CASE Window > 1
                <5>1. b[Window] = a[Window - 1] /\ a[Window - 1] \in Nat
                    BY <1>1, <1>2, <4>2
                <5> QED  BY <1>6, <2>2, <3>1, <4>2, <5>1
            <4> QED  BY <4>1, <4>2
        <3> QED  BY <1>3, <1>5, <1>6, <2>3, <3>2 DEF UserRate, b
    <2>4. CASE l # 1
        <3>1. bucket'[u].left = l - 1 /\ l - 1 # 0 /\ Began(u)' = o + 1 /\ o + 1 \in 2..Window
            BY <1>1, <1>3, <1>8, <2>1, <2>4 DEF Began
        <3>2. b[o + 1] = a[o]
            <4>1. (o + 1) - 1 = o
                BY <2>1
            <4> QED  BY <1>2, <3>1, <4>1
        <3>3. a[o] \in Nat
            BY <1>1, <2>1
        <3>4. b[o] < b[o + 1]
            <4>1. CASE o = 1
                BY <1>6, <2>2, <3>2, <3>3, <4>1
            <4>2. CASE o > 1
                BY <1>2, <2>1, <2>2, <3>2, <4>2
            <4> QED  BY <2>1, <4>1, <4>2
        <3>5. /\ b[o + 1] <= Limit /\ b[o + 1] <= bucket[u].count /\ b[o + 1] >= 1
              /\ b[Window] < b[o + 1] + Limit
            BY <1>1, <1>6, <2>2, <3>2, <3>3
        <3>6. (o + 1) - 1 = o
            BY <2>1
        <3> QED  BY <1>3, <1>5, <3>1, <3>4, <3>5, <3>6 DEF UserRate, b
    <2> QED  BY <2>3, <2>4
<1> QED  BY <1>7, <1>8

(* A step keeps the invariant. *)
LEMMA VoiceInvNext ==
    ASSUME VoiceInv, [VoiceNext]_voiceVars
    PROVE  VoiceInv'
<1> USE DEF VoiceInv
<1>1. VoiceTypeOK'
    BY VoiceTypeNext
<1>2. PlaceInv'
    BY PlaceNext
<1>3. RateInv'
    <2> SUFFICES ASSUME NEW u \in User
                 PROVE  UserRate(u)'
        BY DEF RateInv
    <2>1. UserRate(u)
        BY DEF RateInv
    <2>2. CASE bucket'[u] = bucket[u] /\ admitted'[u] = admitted[u]
        BY <2>1, <2>2 DEF UserRate, Began
    <2>3. admitted'[u] \in [1..Window -> Nat]
        BY <1>1 DEF VoiceTypeOK
    <2> QED  BY <2>1, <2>2, <2>3, UserSteps, AdmitsRate, RefusesRate, AgesRate
<1> QED  BY <1>1, <1>2, <1>3

(* The invariant holds in every reachable state. *)
THEOREM VoiceInvariance == VoiceSpec => []VoiceInv
<1>1. VoiceInit => VoiceInv
    BY VoiceInvInit
<1>2. VoiceInv /\ [VoiceNext]_voiceVars => VoiceInv'
    BY VoiceInvNext
<1> QED  BY <1>1, <1>2, PTL DEF VoiceSpec

(* Rows, calls and buckets of the voice service keep their types; a call   *)
(* that waits for the provider waits for a PENDING row of its own.         *)
THEOREM VoiceTypeCorrect == VoiceSpec => []VoiceTypeOK
<1>1. VoiceInv => VoiceTypeOK
    BY DEF VoiceInv
<1> QED  BY <1>1, VoiceInvariance, PTL

(* createRealtimeCall gives a user more sessions than the configuration    *)
(* allows only when two of the user's calls counted before either inserted.*)
THEOREM OnlyOverlapsExceed == VoiceSpec => []LimitExceededOnlyByOverlap
<1>1. VoiceInv => LimitExceededOnlyByOverlap
    BY DEF VoiceInv, PlaceInv, LimitExceededOnlyByOverlap
<1> QED  BY <1>1, VoiceInvariance, PTL

(* allowRequest lets fewer requests of a bucket pass in the time of one    *)
(* window than two windows allow.                                          *)
THEOREM FewerThanTwoWindows == VoiceSpec => []AtMostTwoWindows
<1>1. VoiceInv => AtMostTwoWindows
    <2> SUFFICES ASSUME VoiceInv, NEW u \in User
                 PROVE  admitted[u][Window] < 2 * Limit
        BY DEF AtMostTwoWindows
    <2> USE VoiceNumbers
    <2>1. bucket[u] \in [count : Nat, left : 0..Window] /\ admitted[u] \in [1..Window -> Nat]
        BY DEF VoiceInv, VoiceTypeOK
    <2>2. UserRate(u)
        BY DEF VoiceInv, RateInv
    <2>3. admitted[u][Window] \in Nat
        BY <2>1
    <2>4. CASE bucket[u].left = 0
        BY <2>2, <2>3, <2>4 DEF UserRate
    <2>5. CASE bucket[u].left # 0
        <3>1. Began(u) \in 1..Window
            BY <2>1, <2>5 DEF Began
        <3>2. admitted[u][Began(u)] \in Nat
            BY <2>1, <3>1
        <3>3. admitted[u][Began(u)] <= Limit /\ admitted[u][Window] < admitted[u][Began(u)] + Limit
            BY <2>2, <2>5 DEF UserRate
        <3> QED  BY <2>3, <3>2, <3>3
    <2> QED  BY <2>4, <2>5
<1> QED  BY <1>1, VoiceInvariance, PTL
=============================================================================
