-------------------------- MODULE PlatformDocument --------------------------
(***************************************************************************)
(* The platform configuration as a document: its types and default         *)
(* (lib/platform/config.ts) and its validation (lib/platform/validation.ts)*)
(*                                                                         *)
(* A JSON value is a pair of its type and its content.  Of a text only     *)
(* what validation can tell apart is kept: "word" stands for any text that *)
(* trimming leaves alone, "padded" for one it shortens to a word, "blank"  *)
(* for one it empties; the values of enumerations keep their names.        *)
(* Error messages are reduced to whether there is one.                     *)
(***************************************************************************)
EXTENDS Naturals, Sequences

Text(s)   == <<"string", s>>
Flag(b)   == <<"boolean", b>>
List(s)   == <<"array", s>>
Object(f) == <<"object", f>>
Undefined == <<"undefined", "">>

Word == Text("word")

isArray(v)  == v[1] = "array"
isRecord(v) == v[1] = "object"
Get(o, key) == IF key \in DOMAIN o[2] THEN o[2][key] ELSE Undefined

trim(s) == CASE s = "padded" -> "word" [] s = "blank" -> "" [] OTHER -> s

stageStatuses     == {"planned", "in-progress", "ready"}
agentStates       == {"staged", "sandbox", "pilot", "active", "blocked"}
authorityLevels   == {"observe", "prepare", "execute_with_approval", "routine_autonomy"}
checklistStatuses == {"not_started", "in_progress", "blocked", "ready_for_review", "approved", "deferred"}
riskLevels        == {"low", "moderate", "high", "critical"}

(* What each kind of item consists of.  A choice has a value that stands   *)
(* in for an unknown one.                                                  *)

Required               == [type |-> "text", allowed |-> {}, standIn |-> ""]
Strings                == [type |-> "list", allowed |-> {}, standIn |-> ""]
Boolean                == [type |-> "flag", allowed |-> {}, standIn |-> ""]
OneOf(allowed, standIn) == [type |-> "choice", allowed |-> allowed, standIn |-> standIn]

PlatformStage ==
    [id |-> Required, title |-> Required, objective |-> Required,
     status |-> OneOf(stageStatuses, "planned"),
     owner |-> Required, targetWindow |-> Required, deliverables |-> Strings]

PlatformCapability ==
    [id |-> Required, name |-> Required, description |-> Required,
     currentState |-> Required, nextStep |-> Required]

PlatformAgent ==
    [id |-> Required, name |-> Required, role |-> Required,
     runtimeState |-> OneOf(agentStates, "staged"),
     authorityLevel |-> OneOf(authorityLevels, "observe"),
     allowedActions |-> Strings, blockedActions |-> Strings, owner |-> Required]

GovernanceChecklistItem ==
    [id |-> Required, phaseId |-> Required, title |-> Required,
     status |-> OneOf(checklistStatuses, "not_started"), owner |-> Required,
     requiredEvidence |-> Strings,
     riskLevel |-> OneOf(riskLevels, "moderate"), blocksProgression |-> Boolean]

----------------------------------------------------------------------------
(* Parsing.  Each function of the code that returns a value and pushes     *)
(* errors is a pair of operators: whether it pushes none, and what it then *)
(* returns.  Whatever is returned along with an error is thrown away, so   *)
(* the items a list drops (they push errors too) stay in it here.          *)

\* Mutant: a text would be tested before it is trimmed.
requiredStringUntrimmed(v) == v[1] = "string" /\ v[2] # ""

requiredStringOK(v) == v[1] = "string" /\ trim(v[2]) # ""
requiredString(v)   == Text(trim(v[2]))

stringListOK(v) ==
    /\ isArray(v) /\ DOMAIN v[2] # {}
    /\ \A i \in DOMAIN v[2] : requiredStringOK(v[2][i])
stringList(v) == List([i \in DOMAIN v[2] |-> requiredString(v[2][i])])

FieldOK(field, v) ==
    CASE field.type = "text"   -> requiredStringOK(v)
      [] field.type = "list"   -> stringListOK(v)
      [] field.type = "flag"   -> v[1] = "boolean"
      [] field.type = "choice" -> v[1] = "string" /\ v[2] \in field.allowed

Field(field, v) ==
    CASE field.type = "text"   -> requiredString(v)
      [] field.type = "list"   -> stringList(v)
      [] field.type = "flag"   -> IF v[1] = "boolean" THEN v ELSE Flag(TRUE)
      [] field.type = "choice" -> IF v[1] = "string" /\ v[2] \in field.allowed THEN v ELSE Text(field.standIn)

ItemOK(kind, o) == isRecord(o) /\ \A key \in DOMAIN kind : FieldOK(kind[key], Get(o, key))
Item(kind, o)   == Object([key \in DOMAIN kind |-> Field(kind[key], Get(o, key))])

ItemsOK(kind, v) == isArray(v) /\ DOMAIN v[2] # {} /\ \A i \in DOMAIN v[2] : ItemOK(kind, v[2][i])
Items(kind, v)   == List([i \in DOMAIN v[2] |-> Item(kind, v[2][i])])

parse(ok, value) == [ok |-> ok, value |-> IF ok THEN value ELSE Undefined]

parseStages(v)       == parse(ItemsOK(PlatformStage, v), Items(PlatformStage, v))
parseCapabilities(v) == parse(ItemsOK(PlatformCapability, v), Items(PlatformCapability, v))
parseAgents(v)       == parse(ItemsOK(PlatformAgent, v), Items(PlatformAgent, v))
parseChecklist(v)    == parse(ItemsOK(GovernanceChecklistItem, v), Items(GovernanceChecklistItem, v))
parseNotes(v)        == parse(stringListOK(v), stringList(v))

Section == {"stages", "capabilities", "agents", "governanceChecklist", "notes"}

Parsed(input) ==
    [stages              |-> parseStages(Get(input, "stages")),
     capabilities        |-> parseCapabilities(Get(input, "capabilities")),
     agents              |-> parseAgents(Get(input, "agents")),
     governanceChecklist |-> parseChecklist(Get(input, "governanceChecklist")),
     notes               |-> parseNotes(Get(input, "notes"))]

\* The validation throws exactly when ok is false.
validatePlatformConfig(input) ==
    IF ~isRecord(input) THEN [ok |-> FALSE, config |-> Object(<<>>)]
    ELSE LET parsed == Parsed(input)
         IN  [ok     |-> \A s \in Section : parsed[s].ok,
              config |-> Object([s \in Section |-> parsed[s].value])]

----------------------------------------------------------------------------
(* The default configuration: its items with the choices they make.        *)

Default(kind, choice) == Object(
    [key \in DOMAIN kind |->
        CASE kind[key].type = "text"   -> Word
          [] kind[key].type = "list"   -> List(<<Word>>)
          [] kind[key].type = "flag"   -> Flag(TRUE)
          [] kind[key].type = "choice" -> Text(choice[key])])

defaultStage(status)       == Default(PlatformStage, [status |-> status])
defaultCapability          == Default(PlatformCapability, <<>>)
defaultAgent(state, level) == Default(PlatformAgent, [runtimeState |-> state, authorityLevel |-> level])
defaultGate(status, risk)  == Default(GovernanceChecklistItem, [status |-> status, riskLevel |-> risk])

defaultPlatformConfig == Object(
    [stages |-> List(<<defaultStage("in-progress"), defaultStage("planned"), defaultStage("planned")>>),
     capabilities |-> List(<<defaultCapability, defaultCapability, defaultCapability, defaultCapability>>),
     agents |-> List(<<defaultAgent("pilot", "prepare"), defaultAgent("sandbox", "execute_with_approval")>>),
     governanceChecklist |-> List(<<defaultGate("in_progress", "critical"), defaultGate("in_progress", "high"),
                                    defaultGate("not_started", "high"), defaultGate("not_started", "moderate")>>),
     notes |-> List(<<Word, Word, Word>>)])
=============================================================================
