------------------------ MODULE PlatformConfigProofs ------------------------
(***************************************************************************)
(* Proofs about PlatformDocument and PlatformConfig, for any consoles,     *)
(* edits and numbers of publications and faults.                           *)
(*                                                                         *)
(* The argument: validation accepts what it returns, and returns it again  *)
(* (ValidatedTwice), so whatever waits to be written can be read back.     *)
(* Unless two writes overlap there is one writer, and the file is empty    *)
(* while it is at it; unless two requests race there is one request        *)
(* between its read and its write, and what it will write is what its      *)
(* effect on the stored document is.                                       *)
(***************************************************************************)
EXTENDS PlatformConfig, TLAPS

-----------------------------------------------------------------------------
(* Validation. *)

(* A text that was accepted is accepted again, unchanged. *)
LEMMA TextTwice ==
    ASSUME NEW v, requiredStringOK(v)
    PROVE  requiredStringOK(requiredString(v)) /\ requiredString(requiredString(v)) = requiredString(v)
<1>1. trim(trim(v[2])) = trim(v[2]) /\ trim(v[2]) # ""  BY DEF requiredStringOK, trim
<1> DEFINE t == trim(v[2])
<1> HIDE DEF t
<1>2. t # "" /\ trim(t) = t /\ requiredString(v) = Text(t)  BY <1>1 DEF t, requiredString
<1>3. Text(t)[1] = "string" /\ Text(t)[2] = t  BY DEF Text
<1> QED  BY <1>2, <1>3 DEF requiredString, requiredStringOK

(* So is a list of texts. *)
LEMMA ListTwice ==
    ASSUME NEW v, stringListOK(v)
    PROVE  stringListOK(stringList(v)) /\ stringList(stringList(v)) = stringList(v)
<1> DEFINE f == [i \in DOMAIN v[2] |-> requiredString(v[2][i])]
           w == List(f)
<1>1. w[1] = "array" /\ w[2] = f  BY DEF List
<1>2. DOMAIN f = DOMAIN v[2] /\ DOMAIN f # {}  BY DEF stringListOK
<1>3. \A i \in DOMAIN f : requiredStringOK(f[i]) /\ requiredString(f[i]) = f[i]
      BY TextTwice DEF stringListOK
<1>4. stringList(v) = w  BY DEF stringList
<1> HIDE DEF w
<1>5. [i \in DOMAIN f |-> requiredString(f[i])] = f  BY <1>3
<1> HIDE DEF f
<1>6. stringListOK(w)  BY <1>1, <1>2, <1>3 DEF stringListOK, isArray
<1>7. stringList(w) = List([i \in DOMAIN f |-> requiredString(f[i])])  BY <1>1 DEF stringList
<1>8. stringList(w) = List(f)  BY <1>5, <1>7
<1> QED  BY <1>4, <1>6, <1>8 DEF w

Fields == {"text", "list", "flag", "choice"}

(* So is a field, ... *)
LEMMA FieldTwice ==
    ASSUME NEW field, field.type \in Fields, NEW v, FieldOK(field, v)
    PROVE  FieldOK(field, Field(field, v)) /\ Field(field, Field(field, v)) = Field(field, v)
<1>1. CASE field.type = "text"
    <2>1. requiredStringOK(v) /\ Field(field, v) = requiredString(v)  BY <1>1 DEF FieldOK, Field
    <2>2. \A w : FieldOK(field, w) = requiredStringOK(w) /\ Field(field, w) = requiredString(w)
          BY <1>1 DEF FieldOK, Field
    <2> QED  BY <2>1, <2>2, TextTwice
<1>2. CASE field.type = "list"
    <2>1. stringListOK(v) /\ Field(field, v) = stringList(v)  BY <1>2 DEF FieldOK, Field
    <2>2. \A w : FieldOK(field, w) = stringListOK(w) /\ Field(field, w) = stringList(w)
          BY <1>2 DEF FieldOK, Field
    <2> QED  BY <2>1, <2>2, ListTwice
<1>3. CASE field.type = "flag"    BY <1>3 DEF FieldOK, Field
<1>4. CASE field.type = "choice"  BY <1>4 DEF FieldOK, Field
<1> QED  BY <1>1, <1>2, <1>3, <1>4 DEF Fields

Kind(kind) == \A key \in DOMAIN kind : kind[key].type \in Fields

(* ... an item, ... *)
LEMMA ItemTwice ==
    ASSUME NEW kind, Kind(kind), NEW o, ItemOK(kind, o)
    PROVE  ItemOK(kind, Item(kind, o)) /\ Item(kind, Item(kind, o)) = Item(kind, o)
<1> DEFINE f == [key \in DOMAIN kind |-> Field(kind[key], Get(o, key))]
           w == Object(f)
<1>1. w[1] = "object" /\ w[2] = f /\ Item(kind, o) = w /\ DOMAIN f = DOMAIN kind  BY DEF Object, Item
<1>2. \A key \in DOMAIN kind : Get(w, key) = f[key]  BY <1>1 DEF Get
<1>3. \A key \in DOMAIN kind : FieldOK(kind[key], f[key]) /\ Field(kind[key], f[key]) = f[key]
      BY FieldTwice DEF Kind, ItemOK
<1> HIDE DEF w
<1>4. [key \in DOMAIN kind |-> Field(kind[key], f[key])] = f  BY <1>3
<1> HIDE DEF f
<1>5. ItemOK(kind, w)  BY <1>1, <1>2, <1>3 DEF ItemOK, isRecord
<1>6. Item(kind, w) = Object([key \in DOMAIN kind |-> Field(kind[key], f[key])])  BY <1>2 DEF Item
<1>7. Item(kind, w) = Object(f)  BY <1>4, <1>6
<1> QED  BY <1>1, <1>5, <1>7 DEF w

(* ... and a list of items. *)
LEMMA ItemsTwice ==
    ASSUME NEW kind, Kind(kind), NEW v, ItemsOK(kind, v)
    PROVE  ItemsOK(kind, Items(kind, v)) /\ Items(kind, Items(kind, v)) = Items(kind, v)
<1> DEFINE f == [i \in DOMAIN v[2] |-> Item(kind, v[2][i])]
           w == List(f)
<1>1. w[1] = "array" /\ w[2] = f /\ Items(kind, v) = w  BY DEF List, Items
<1>2. DOMAIN f = DOMAIN v[2] /\ DOMAIN f # {}  BY DEF ItemsOK
<1>3. \A i \in DOMAIN f : ItemOK(kind, f[i]) /\ Item(kind, f[i]) = f[i]  BY ItemTwice DEF ItemsOK
<1> HIDE DEF w
<1>4. [i \in DOMAIN f |-> Item(kind, f[i])] = f  BY <1>3
<1> HIDE DEF f
<1>5. ItemsOK(kind, w)  BY <1>1, <1>2, <1>3 DEF ItemsOK, isArray
<1>6. Items(kind, w) = List([i \in DOMAIN f |-> Item(kind, f[i])])  BY <1>1 DEF Items
<1>7. Items(kind, w) = List(f)  BY <1>4, <1>6
<1> QED  BY <1>1, <1>5, <1>7 DEF w

(* The four kinds consist of fields. *)
LEMMA Kinds ==
    Kind(PlatformStage) /\ Kind(PlatformCapability) /\ Kind(PlatformAgent) /\ Kind(GovernanceChecklistItem)
<1>1. /\ Required.type \in Fields /\ Strings.type \in Fields /\ Boolean.type \in Fields
      /\ \A allowed, standIn : OneOf(allowed, standIn).type \in Fields
      BY DEF Fields, Required, Strings, Boolean, OneOf
<1>2. Kind(PlatformStage)            BY <1>1 DEF Kind, PlatformStage
<1>3. Kind(PlatformCapability)       BY <1>1 DEF Kind, PlatformCapability
<1>4. Kind(PlatformAgent)            BY <1>1 DEF Kind, PlatformAgent
<1>5. Kind(GovernanceChecklistItem)  BY <1>1 DEF Kind, GovernanceChecklistItem
<1> QED  BY <1>2, <1>3, <1>4, <1>5

Valid(config) == validatePlatformConfig(config) = [ok |-> TRUE, config |-> config]

Wrap(p) == Object([s \in Section |-> p[s].value])

(* A parsed section is parsed again to the same. *)
LEMMA SectionTwice ==
    ASSUME NEW input, NEW other, NEW s \in Section,
           Parsed(input)[s].ok, Get(other, s) = Parsed(input)[s].value
    PROVE  Parsed(other)[s] = Parsed(input)[s]
<1>1. CASE s = "stages"
      BY <1>1, ItemsTwice, Kinds DEF Parsed, parseStages, parse
<1>2. CASE s = "capabilities"
      BY <1>2, ItemsTwice, Kinds DEF Parsed, parseCapabilities, parse
<1>3. CASE s = "agents"
      BY <1>3, ItemsTwice, Kinds DEF Parsed, parseAgents, parse
<1>4. CASE s = "governanceChecklist"
      BY <1>4, ItemsTwice, Kinds DEF Parsed, parseChecklist, parse
<1>5. CASE s = "notes"
      BY <1>5, ListTwice DEF Parsed, parseNotes, parse
<1> QED  BY <1>1, <1>2, <1>3, <1>4, <1>5 DEF Section

(* What validation accepts it accepts again, and returns it unchanged: a   *)
(* stored configuration never fails to be read for its content.            *)
THEOREM ValidatedTwice ==
    ASSUME NEW input, validatePlatformConfig(input).ok
    PROVE  Valid(validatePlatformConfig(input).config)
<1> DEFINE p == Parsed(input)
           f == [s \in Section |-> p[s].value]
           w == Object(f)
<1>1. isRecord(input)  BY DEF validatePlatformConfig
<1>2. (\A s \in Section : p[s].ok) /\ validatePlatformConfig(input).config = w
      BY <1>1 DEF validatePlatformConfig
<1>3. isRecord(w) /\ w[2] = f  BY DEF Object, isRecord
<1>4. \A s \in Section : Get(w, s) = p[s].value  BY <1>3 DEF Get
<1> HIDE DEF w
<1>5. \A s \in Section : Parsed(w)[s] = p[s]  BY <1>2, <1>4, SectionTwice
<1>6. [s \in Section |-> Parsed(w)[s].value] = f  BY <1>5
<1>7. \A s \in Section : Parsed(w)[s].ok  BY <1>2, <1>5
<1>8. validatePlatformConfig(w) = [ok |-> TRUE, config |-> Object(f)]
      BY <1>3, <1>6, <1>7 DEF validatePlatformConfig
<1> QED  BY <1>2, <1>8 DEF Valid, w

(* The default configuration is stored as it is. *)

Chosen(kind, choice) == \A key \in DOMAIN kind : kind[key].type = "choice" => choice[key] \in kind[key].allowed

Same(kind, o) == ItemOK(kind, o) /\ Item(kind, o) = o

(* A field of a default item is accepted as it is, ... *)
LEMMA DefaultFieldSame ==
    ASSUME NEW field, field.type \in Fields, NEW v,
           v = CASE field.type = "text"   -> Word
                 [] field.type = "list"   -> List(<<Word>>)
                 [] field.type = "flag"   -> Flag(TRUE)
                 [] field.type = "choice" -> Text(v[2]),
           field.type = "choice" => v[2] \in field.allowed
    PROVE  FieldOK(field, v) /\ Field(field, v) = v
<1>1. CASE field.type = "text"
    <2>1. v = <<"string", "word">>  BY <1>1 DEF Word, Text
    <2>2. v[1] = "string" /\ v[2] = "word" /\ trim("word") = "word"  BY <2>1 DEF trim
    <2> QED  BY <1>1, <2>1, <2>2 DEF FieldOK, Field, requiredStringOK, requiredString, Text
<1>2. CASE field.type = "list"
    <2>1. v = <<"array", <<Word>>>>  BY <1>2 DEF List
    <2>2. v[1] = "array" /\ v[2] = <<Word>> /\ DOMAIN v[2] = {1} /\ v[2][1] = Word  BY <2>1
    <2>3. requiredStringOK(Word) /\ requiredString(Word) = Word
        <3>1. Word[1] = "string" /\ Word[2] = "word" /\ trim("word") = "word"  BY DEF Word, Text, trim
        <3> QED  BY <3>1 DEF requiredStringOK, requiredString, Word
    <2>4. [i \in DOMAIN v[2] |-> requiredString(v[2][i])] = <<Word>>  BY <2>2, <2>3
    <2>5. stringListOK(v) /\ stringList(v) = v
          BY <2>1, <2>2, <2>3, <2>4 DEF stringListOK, stringList, isArray, List
    <2> QED  BY <1>2, <2>5 DEF FieldOK, Field
<1>3. CASE field.type = "flag"    BY <1>3 DEF FieldOK, Field, Flag
<1>4. CASE field.type = "choice"  BY <1>4 DEF FieldOK, Field, Text
<1> QED  BY <1>1, <1>2, <1>3, <1>4 DEF Fields

(* ... so is the item, ... *)
LEMMA DefaultSame ==
    ASSUME NEW kind, Kind(kind), NEW choice, Chosen(kind, choice)
    PROVE  Same(kind, Default(kind, choice))
<1> DEFINE f == [key \in DOMAIN kind |->
                    CASE kind[key].type = "text"   -> Word
                      [] kind[key].type = "list"   -> List(<<Word>>)
                      [] kind[key].type = "flag"   -> Flag(TRUE)
                      [] kind[key].type = "choice" -> Text(choice[key])]
           w == Object(f)
<1>1. w[1] = "object" /\ w[2] = f /\ DOMAIN f = DOMAIN kind /\ Default(kind, choice) = w  BY DEF Object, Default
<1>2. \A key \in DOMAIN kind : Get(w, key) = f[key]  BY <1>1 DEF Get
<1>3. ASSUME NEW key \in DOMAIN kind PROVE FieldOK(kind[key], f[key]) /\ Field(kind[key], f[key]) = f[key]
    <2>1. kind[key].type \in Fields  BY DEF Kind
    <2>2. kind[key].type = "choice" => f[key] = Text(choice[key]) /\ f[key][2] = choice[key]  BY DEF Text
    <2>3. kind[key].type = "choice" => f[key][2] \in kind[key].allowed  BY <2>2 DEF Chosen
    <2>4. f[key] = CASE kind[key].type = "text"   -> Word
                     [] kind[key].type = "list"   -> List(<<Word>>)
                     [] kind[key].type = "flag"   -> Flag(TRUE)
                     [] kind[key].type = "choice" -> Text(f[key][2])
          BY <2>1, <2>2 DEF Fields
    <2> HIDE DEF f
    <2> QED  BY <2>1, <2>3, <2>4, DefaultFieldSame
<1> HIDE DEF w
<1>4. [key \in DOMAIN kind |-> Field(kind[key], f[key])] = f  BY <1>3
<1> HIDE DEF f
<1>5. ItemOK(kind, w)  BY <1>1, <1>2, <1>3 DEF ItemOK, isRecord
<1>6. Item(kind, w) = Object([key \in DOMAIN kind |-> Field(kind[key], f[key])])  BY <1>2 DEF Item
<1> QED  BY <1>1, <1>4, <1>5, <1>6 DEF w, Same

(* ... and a list of such items. *)
LEMMA ItemsSame ==
    ASSUME NEW kind, NEW l, DOMAIN l # {}, l = [i \in DOMAIN l |-> l[i]], \A i \in DOMAIN l : Same(kind, l[i])
    PROVE  ItemsOK(kind, List(l)) /\ Items(kind, List(l)) = List(l)
<1>1. List(l)[1] = "array" /\ List(l)[2] = l  BY DEF List
<1>2. [i \in DOMAIN l |-> Item(kind, l[i])] = l  BY DEF Same
<1> QED  BY <1>1, <1>2 DEF ItemsOK, Items, isArray, Same

(* The items of the default configuration make choices that exist. *)
LEMMA DefaultItemsSame ==
    /\ \A status \in stageStatuses : Same(PlatformStage, defaultStage(status))
    /\ Same(PlatformCapability, defaultCapability)
    /\ \A state \in agentStates, level \in authorityLevels : Same(PlatformAgent, defaultAgent(state, level))
    /\ \A status \in checklistStatuses, risk \in riskLevels :
          Same(GovernanceChecklistItem, defaultGate(status, risk))
<1>1. /\ Required.type = "text" /\ Strings.type = "list" /\ Boolean.type = "flag"
      /\ \A allowed, standIn : OneOf(allowed, standIn).allowed = allowed
      BY DEF Required, Strings, Boolean, OneOf
<1>2. ASSUME NEW status \in stageStatuses PROVE Same(PlatformStage, defaultStage(status))
    <2>1. Chosen(PlatformStage, [status |-> status])  BY <1>1 DEF Chosen, PlatformStage
    <2> QED  BY <2>1, DefaultSame, Kinds DEF defaultStage
<1>3. Same(PlatformCapability, defaultCapability)
    <2>1. Chosen(PlatformCapability, <<>>)  BY <1>1 DEF Chosen, PlatformCapability
    <2> QED  BY <2>1, DefaultSame, Kinds DEF defaultCapability
<1>4. ASSUME NEW state \in agentStates, NEW level \in authorityLevels
      PROVE  Same(PlatformAgent, defaultAgent(state, level))
    <2>1. Chosen(PlatformAgent, [runtimeState |-> state, authorityLevel |-> level])
          BY <1>1 DEF Chosen, PlatformAgent
    <2> QED  BY <2>1, DefaultSame, Kinds DEF defaultAgent
<1>5. ASSUME NEW status \in checklistStatuses, NEW risk \in riskLevels
      PROVE  Same(GovernanceChecklistItem, defaultGate(status, risk))
    <2>1. Chosen(GovernanceChecklistItem, [status |-> status, riskLevel |-> risk])
          BY <1>1 DEF Chosen, GovernanceChecklistItem
    <2> QED  BY <2>1, DefaultSame, Kinds DEF defaultGate
<1> QED  BY <1>2, <1>3, <1>4, <1>5

(* Validation accepts the default configuration and leaves it alone. *)
LEMMA DefaultValid == Valid(defaultPlatformConfig)
<1> DEFINE stages == <<defaultStage("in-progress"), defaultStage("planned"), defaultStage("planned")>>
           capabilities == <<defaultCapability, defaultCapability, defaultCapability, defaultCapability>>
           agents == <<defaultAgent("pilot", "prepare"), defaultAgent("sandbox", "execute_with_approval")>>
           gates == <<defaultGate("in_progress", "critical"), defaultGate("in_progress", "high"),
                      defaultGate("not_started", "high"), defaultGate("not_started", "moderate")>>
           notes == <<Word, Word, Word>>
           f == [stages |-> List(stages), capabilities |-> List(capabilities), agents |-> List(agents),
                 governanceChecklist |-> List(gates), notes |-> List(notes)]
           w == Object(f)
<1>1. ItemsOK(PlatformStage, List(stages)) /\ Items(PlatformStage, List(stages)) = List(stages)
    <2>1. \A i \in DOMAIN stages : Same(PlatformStage, stages[i])  BY DefaultItemsSame DEF stageStatuses
    <2>2. DOMAIN stages # {} /\ stages = [i \in DOMAIN stages |-> stages[i]]  OBVIOUS
    <2> HIDE DEF stages
    <2> QED  BY <2>1, <2>2, ItemsSame
<1>2. ItemsOK(PlatformCapability, List(capabilities)) /\ Items(PlatformCapability, List(capabilities)) = List(capabilities)
    <2>1. \A i \in DOMAIN capabilities : Same(PlatformCapability, capabilities[i])  BY DefaultItemsSame
    <2>2. DOMAIN capabilities # {} /\ capabilities = [i \in DOMAIN capabilities |-> capabilities[i]]  OBVIOUS
    <2> HIDE DEF capabilities
    <2> QED  BY <2>1, <2>2, ItemsSame
<1>3. ItemsOK(PlatformAgent, List(agents)) /\ Items(PlatformAgent, List(agents)) = List(agents)
    <2>1. \A i \in DOMAIN agents : Same(PlatformAgent, agents[i])  BY DefaultItemsSame DEF agentStates, authorityLevels
    <2>2. DOMAIN agents # {} /\ agents = [i \in DOMAIN agents |-> agents[i]]  OBVIOUS
    <2> HIDE DEF agents
    <2> QED  BY <2>1, <2>2, ItemsSame
<1>4. ItemsOK(GovernanceChecklistItem, List(gates)) /\ Items(GovernanceChecklistItem, List(gates)) = List(gates)
    <2>1. \A i \in DOMAIN gates : Same(GovernanceChecklistItem, gates[i])
          BY DefaultItemsSame DEF checklistStatuses, riskLevels
    <2>2. DOMAIN gates # {} /\ gates = [i \in DOMAIN gates |-> gates[i]]  OBVIOUS
    <2> HIDE DEF gates
    <2> QED  BY <2>1, <2>2, ItemsSame
<1>5. stringListOK(List(notes)) /\ stringList(List(notes)) = List(notes)
    <2>1. requiredStringOK(Word) /\ requiredString(Word) = Word
        <3>1. Word[1] = "string" /\ Word[2] = "word" /\ trim("word") = "word"  BY DEF Word, Text, trim
        <3> QED  BY <3>1 DEF requiredStringOK, requiredString, Word
    <2>2. List(notes)[1] = "array" /\ List(notes)[2] = notes  BY DEF List
    <2>3. [i \in DOMAIN notes |-> requiredString(notes[i])] = notes  BY <2>1
    <2>4. DOMAIN notes # {} /\ \A i \in DOMAIN notes : notes[i] = Word  OBVIOUS
    <2> HIDE DEF notes
    <2> QED  BY <2>1, <2>2, <2>3, <2>4 DEF stringListOK, stringList, isArray
<1>6. w = defaultPlatformConfig  BY DEF defaultPlatformConfig
<1> HIDE DEF stages, capabilities, agents, gates, notes
<1>7. isRecord(w) /\ w[2] = f  BY DEF Object, isRecord
<1>8. /\ Get(w, "stages") = List(stages) /\ Get(w, "capabilities") = List(capabilities)
      /\ Get(w, "agents") = List(agents) /\ Get(w, "governanceChecklist") = List(gates)
      /\ Get(w, "notes") = List(notes)
      BY <1>7 DEF Get
<1> HIDE DEF w
<1>9. \A s \in Section : Parsed(w)[s].ok /\ Parsed(w)[s].value = Get(w, s)
    <2>1. \A ok, value : ok => parse(ok, value).ok /\ parse(ok, value).value = value  BY DEF parse
    <2>2. Parsed(w)["stages"].ok /\ Parsed(w)["stages"].value = Get(w, "stages")
          BY <1>1, <1>8, <2>1 DEF Parsed, parseStages
    <2>3. Parsed(w)["capabilities"].ok /\ Parsed(w)["capabilities"].value = Get(w, "capabilities")
          BY <1>2, <1>8, <2>1 DEF Parsed, parseCapabilities
    <2>4. Parsed(w)["agents"].ok /\ Parsed(w)["agents"].value = Get(w, "agents")
          BY <1>3, <1>8, <2>1 DEF Parsed, parseAgents
    <2>5. Parsed(w)["governanceChecklist"].ok /\ Parsed(w)["governanceChecklist"].value = Get(w, "governanceChecklist")
          BY <1>4, <1>8, <2>1 DEF Parsed, parseChecklist
    <2>6. Parsed(w)["notes"].ok /\ Parsed(w)["notes"].value = Get(w, "notes")
          BY <1>5, <1>8, <2>1 DEF Parsed, parseNotes
    <2> QED  BY <2>2, <2>3, <2>4, <2>5, <2>6 DEF Section
<1>10. [s \in Section |-> Parsed(w)[s].value] = f
    <2>1. \A s \in Section : Parsed(w)[s].value = f[s]  BY <1>8, <1>9 DEF Section
    <2>2. DOMAIN f = Section /\ f = [s \in DOMAIN f |-> f[s]]  BY DEF Section
    <2> HIDE DEF f
    <2> QED  BY <2>1, <2>2
<1>11. \A s \in Section : Parsed(w)[s].ok  BY <1>9
<1>12. validatePlatformConfig(w) = [ok |-> TRUE, config |-> Object([s \in Section |-> Parsed(w)[s].value])]
       BY <1>7, <1>11 DEF validatePlatformConfig
<1> QED  BY <1>6, <1>10, <1>12 DEF Valid, w

-----------------------------------------------------------------------------
(* The invariant. *)

IsDocument(doc) == doc = [config |-> doc.config, published |-> doc.published]

RequestFields == {"kind", "phase", "payload", "doc", "answer"}

(* What waits to be written, and a complete file, validates as it is. *)
ShapeInv ==
    /\ DOMAIN request = Tab
    /\ \A c \in Tab : /\ DOMAIN request[c] = RequestFields
                      /\ Pending(c) => /\ request[c].kind \in {"save", "publish"}
                                       /\ IsDocument(request[c].doc) /\ Valid(request[c].doc.config)
    /\ IsDocument(stored) /\ IsDocument(file.doc)
    /\ file.state \in {"absent", "whole", "empty", "mixed"}
    /\ file.state = "absent" => file.doc = Document
    /\ file.state = "whole" => Valid(file.doc.config)
    /\ faults \in Nat

(* Without an overlap one request at most is between truncation and write. *)
WriterInv ==
    ~overlapped =>
        /\ \A c, d \in Writers : c = d
        /\ faults = 0 => IF Writers = {} THEN file.state \in {"absent", "whole"} ELSE file.state = "empty"

(* Without a race one request at most is between read and write; what it   *)
(* will write is its effect on what requests one by one would have stored. *)
Alone ==
    /\ \A c, d \in Tab : Pending(c) /\ Pending(d) => c = d
    /\ faults = 0 => /\ Writers = {} => file.state \in {"absent", "whole"} /\ file.doc = stored
                     /\ Writers # {} => file.state = "empty"
                     /\ \A c \in Tab : Pending(c) => Effect(c) = request[c].doc

RequestInv == ~raced => Alone

IInv == ShapeInv /\ WriterInv /\ RequestInv

-----------------------------------------------------------------------------
(* Initial states. *)

(* The parts of the documents that are not stored. *)
LEMMA DocumentShape ==
    /\ IsDocument(Document) /\ Document.config = defaultPlatformConfig /\ Document.published = 0
    /\ Absent.state = "absent" /\ Absent.doc = Document
    /\ \A state : Incomplete(state).state = state /\ Incomplete(state).doc = Document
BY DEF IsDocument, Document, Absent, Incomplete

(* The parts of no request. *)
LEMMA NoRequestShape ==
    DOMAIN NoRequest = RequestFields /\ NoRequest.phase = "none" /\ NoRequest.kind = "none"
BY DEF NoRequest, RequestFields

(* No request, no file. *)
LEMMA InitIInv == Init => IInv
<1> SUFFICES ASSUME Init PROVE IInv  OBVIOUS
<1>1. \A c \in Tab : request[c] = NoRequest /\ ~Pending(c) /\ c \notin Writers
      BY NoRequestShape DEF Init, Pending, Writers
<1>2. Writers = {}  BY <1>1 DEF Writers
<1>3. ShapeInv  BY <1>1, DocumentShape, NoRequestShape DEF Init, ShapeInv
<1>4. WriterInv  BY <1>2, DocumentShape DEF Init, WriterInv
<1>5. RequestInv  BY <1>1, <1>2, DocumentShape DEF Init, RequestInv, Alone
<1> QED  BY <1>3, <1>4, <1>5 DEF IInv

-----------------------------------------------------------------------------
(* Steps. *)

(* One request changes. *)
Becomes(c, r) == request' = [request EXCEPT ![c] = r]

(* The other requests stay as they are. *)
LEMMA OthersPending ==
    ASSUME ShapeInv, NEW c \in Tab, NEW r, Becomes(c, r)
    PROVE  /\ DOMAIN request' = Tab /\ request'[c] = r
           /\ \A d \in Tab : d # c => request'[d] = request[d]
BY DEF ShapeInv, Becomes

(* A request that is answered, or not yet read, waits to write nothing. *)
LEMMA Harmless ==
    ASSUME IInv, NEW c \in Tab, NEW r, Becomes(c, r),
           DOMAIN r = RequestFields, r.phase \notin {"open", "write"}, ~Pending(c),
           UNCHANGED <<file, stored, raced, overlapped, faults>>
    PROVE  IInv'
<1>1. DOMAIN request' = Tab /\ request'[c] = r /\ \A d \in Tab : d # c => request'[d] = request[d]
      BY OthersPending DEF IInv
<1>2. ~Pending(c)' /\ \A d \in Tab : Pending(d)' = Pending(d) /\ (Pending(d) => request'[d] = request[d])
      BY <1>1 DEF Pending
<1>3. Writers' = Writers  BY <1>1, <1>2 DEF Writers, Pending
<1>4. ShapeInv'  BY <1>1, <1>2 DEF IInv, ShapeInv
<1>5. WriterInv'  BY <1>3 DEF IInv, WriterInv
<1>6. \A d \in Tab : Pending(d) => Effect(d)' = Effect(d)  BY <1>2 DEF Effect
<1>7. RequestInv'  BY <1>2, <1>3, <1>6 DEF IInv, RequestInv, Alone
<1> QED  BY <1>4, <1>5, <1>7 DEF IInv

(* An answer. *)
LEMMA AnsweredShape ==
    ASSUME NEW c \in Tab, NEW answer, Answered(c, answer)
    PROVE  \E r : Becomes(c, r) /\ DOMAIN r = RequestFields /\ r.phase = "answered"
<1> DEFINE r == [kind |-> request[c].kind, phase |-> "answered", payload |-> Undefined,
                 doc |-> IF answer = "ok" THEN request[c].doc ELSE Document, answer |-> answer]
<1>1. Becomes(c, r)  BY DEF Answered, Becomes
<1>2. DOMAIN r = RequestFields /\ r.phase = "answered"  BY DEF RequestFields
<1> HIDE DEF r
<1> QED  BY <1>1, <1>2

(* What the reader returns. *)
LEMMA CurrentShape ==
    ASSUME ShapeInv, Readable
    PROVE  Current = file.doc /\ Valid(Current.config)
<1>1. CASE file.state = "absent"  BY <1>1, DocumentShape, DefaultValid DEF Current, ShapeInv
<1>2. CASE file.state = "whole"
    <2>1. Valid(file.doc.config)  BY <1>2 DEF ShapeInv
    <2>2. validatePlatformConfig(file.doc.config).config = file.doc.config  BY <2>1 DEF Valid
    <2>3. Current = [file.doc EXCEPT !.config = file.doc.config]  BY <1>2, <2>2 DEF Current
    <2>4. IsDocument(file.doc)  BY DEF ShapeInv
    <2>5. Current = file.doc  BY <2>3, <2>4 DEF IsDocument
    <2> QED  BY <2>1, <2>5
<1> QED  BY <1>1, <1>2 DEF Readable

(* A request has read, and knows what to write. *)
LEMMA Proceeds ==
    ASSUME IInv, NEW c \in Tab, request[c].phase = "sent", Readable, NEW doc, Proceed(c, doc),
           IsDocument(doc), Valid(doc.config), request[c].kind \in {"save", "publish"},
           request[c].kind = "save" => doc.published = Current.published,
           request[c].kind = "publish" => doc.config = Current.config,
           UNCHANGED <<file, stored, overlapped, faults>>
    PROVE  IInv'
<1> DEFINE r == [request[c] EXCEPT !.phase = "open", !.doc = doc, !.payload = Undefined]
<1>0. ShapeInv /\ DOMAIN request[c] = RequestFields  BY DEF IInv, ShapeInv
<1>1. /\ DOMAIN r = RequestFields /\ r.phase = "open" /\ r.doc = doc /\ r.kind = request[c].kind
      BY <1>0 DEF RequestFields
<1>2. Becomes(c, r)
    <2>1. request' = [request EXCEPT ![c].phase = "open", ![c].doc = doc, ![c].payload = Undefined]  BY DEF Proceed
    <2>2. DOMAIN request = Tab  BY <1>0 DEF ShapeInv
    <2> QED  BY <2>1, <2>2 DEF Becomes
<1> HIDE DEF r
<1>3. DOMAIN request' = Tab /\ request'[c] = r /\ \A d \in Tab : d # c => request'[d] = request[d]
      BY <1>0, <1>2, OthersPending
<1>4. ~Pending(c) /\ Pending(c)' /\ \A d \in Tab : d # c => Pending(d)' = Pending(d)
      BY <1>1, <1>3 DEF Pending
<1>5. Writers' = Writers /\ \A d \in Writers : Pending(d)  BY <1>1, <1>3 DEF Writers, Pending
<1>6. raced' = (raced \/ \E d \in Tab : Pending(d))  BY DEF Proceed
<1>7. ShapeInv'  BY <1>0, <1>1, <1>3, <1>4 DEF ShapeInv
<1>8. WriterInv'  BY <1>5 DEF IInv, WriterInv
<1>9. ASSUME ~raced' PROVE Alone'
    <2>1. ~raced /\ \A d \in Tab : ~Pending(d)  BY <1>6, <1>9
    <2>2. Writers = {}  BY <2>1, <1>5 DEF Writers
    <2>3. \A d \in Tab : Pending(d)' => d = c  BY <2>1, <1>4
    <2>4. ASSUME faults = 0 PROVE Effect(c)' = request'[c].doc
        <3>1. file.doc = stored  BY <2>1, <2>2, <2>4 DEF IInv, RequestInv, Alone
        <3>2. Current = stored /\ IsDocument(stored)  BY <3>1, <1>0, CurrentShape DEF ShapeInv
        <3>3. CASE r.kind = "save"
              BY <3>2, <3>3, <1>1, <1>3 DEF Effect, IsDocument
        <3>4. CASE r.kind = "publish"
              BY <3>2, <3>4, <1>1, <1>3 DEF Effect, IsDocument
        <3> QED  BY <3>3, <3>4, <1>1
    <2>5. faults = 0 => file.state \in {"absent", "whole"} /\ file.doc = stored  BY <2>1, <2>2 DEF IInv, RequestInv, Alone
    <2> QED  BY <1>4, <1>5, <2>2, <2>3, <2>4, <2>5 DEF Alone
<1>10. RequestInv'  BY <1>9 DEF RequestInv
<1> QED  BY <1>7, <1>8, <1>10 DEF IInv

(* savePlatformDraft reads. *)
LEMMA DraftSaved ==
    ASSUME IInv, NEW c \in Tab, request[c].kind = "save", SavePlatformDraft(c)
    PROVE  IInv'
<1> DEFINE v == validatePlatformConfig(request[c].payload)
           doc == [config |-> v.config, published |-> Current.published]
<1>1. request[c].phase = "sent" /\ Readable /\ UNCHANGED <<file, stored, overlapped, faults>>  BY DEF SavePlatformDraft
<1>2. CASE v.ok
    <2>1. Proceed(c, doc)  BY <1>2 DEF SavePlatformDraft
    <2>2. IsDocument(doc) /\ Valid(doc.config)  BY <1>2, ValidatedTwice DEF IsDocument
    <2>3. doc.published = Current.published  OBVIOUS
    <2> HIDE DEF doc
    <2> QED  BY <1>1, <2>1, <2>2, <2>3, Proceeds
<1>3. CASE ~v.ok
    <2>1. Answered(c, "error") /\ UNCHANGED raced  BY <1>3 DEF SavePlatformDraft
    <2> QED  BY <1>1, <2>1, AnsweredShape, Harmless DEF Pending
<1> QED  BY <1>2, <1>3

(* publishPlatformConfig reads. *)
LEMMA Published ==
    ASSUME IInv, NEW c \in Tab, request[c].kind = "publish", PublishPlatformConfig(c)
    PROVE  IInv'
<1> DEFINE v == validatePlatformConfig(Current.config)
           doc == [config |-> v.config, published |-> publications + 1]
<1>1. request[c].phase = "sent" /\ Readable /\ UNCHANGED <<file, stored, overlapped, faults>>  BY DEF PublishPlatformConfig
<1>2. CASE v.ok
    <2>1. Proceed(c, doc)  BY <1>2 DEF PublishPlatformConfig
    <2>2. IsDocument(doc) /\ Valid(doc.config)  BY <1>2, ValidatedTwice DEF IsDocument
    <2>3. doc.config = Current.config  BY <1>1, CurrentShape DEF IInv, Valid
    <2> HIDE DEF doc
    <2> QED  BY <1>1, <2>1, <2>2, <2>3, Proceeds
<1>3. CASE ~v.ok
    <2>1. Answered(c, "error") /\ UNCHANGED raced  BY <1>3 DEF PublishPlatformConfig
    <2> QED  BY <1>1, <2>1, AnsweredShape, Harmless DEF Pending
<1> QED  BY <1>2, <1>3

(* The open empties the file. *)
LEMMA Truncated ==
    ASSUME IInv, NEW c \in Tab, Truncate(c)
    PROVE  IInv'
<1> DEFINE r == [request[c] EXCEPT !.phase = "write"]
<1>0. ShapeInv /\ DOMAIN request[c] = RequestFields /\ request[c].phase = "open"  BY DEF IInv, ShapeInv, Truncate
<1>1. /\ DOMAIN r = RequestFields /\ r.phase = "write" /\ r.doc = request[c].doc /\ r.kind = request[c].kind
      BY <1>0 DEF RequestFields
<1>2. Becomes(c, r)  BY DEF Truncate, Becomes
<1> HIDE DEF r
<1>3. DOMAIN request' = Tab /\ request'[c] = r /\ \A d \in Tab : d # c => request'[d] = request[d]
      BY <1>0, <1>2, OthersPending
<1>4. /\ file'.state = "empty" /\ file'.doc = Document
      /\ overlapped' = (overlapped \/ Writers # {}) /\ UNCHANGED <<stored, raced, faults>>
      BY DocumentShape DEF Truncate
<1>5. \A d \in Tab : Pending(d)' = Pending(d)  BY <1>0, <1>1, <1>3 DEF Pending
<1>6. Writers' = Writers \cup {c}  BY <1>0, <1>1, <1>3 DEF Writers
<1>7. ShapeInv'  BY <1>0, <1>1, <1>3, <1>4, <1>5, DocumentShape DEF ShapeInv
<1>8. WriterInv'  BY <1>4, <1>6 DEF IInv, WriterInv
<1>9. \A d \in Tab : Effect(d)' = Effect(d) /\ request'[d].doc = request[d].doc
      BY <1>1, <1>3, <1>4 DEF Effect
<1>10. RequestInv'  BY <1>4, <1>5, <1>6, <1>9 DEF IInv, RequestInv, Alone
<1> QED  BY <1>7, <1>8, <1>10 DEF IInv

(* An answer ends the wait of c. *)
LEMMA Ends ==
    ASSUME ShapeInv, NEW c \in Tab, NEW answer, Answered(c, answer)
    PROVE  /\ DOMAIN request' = Tab /\ DOMAIN request'[c] = RequestFields /\ ~Pending(c)'
           /\ \A d \in Tab : d # c => request'[d] = request[d] /\ Pending(d)' = Pending(d)
           /\ Writers' = Writers \ {c}
<1>1. PICK r : Becomes(c, r) /\ DOMAIN r = RequestFields /\ r.phase = "answered"  BY AnsweredShape
<1>2. DOMAIN request' = Tab /\ request'[c] = r /\ \A d \in Tab : d # c => request'[d] = request[d]
      BY <1>1, OthersPending
<1> QED  BY <1>1, <1>2 DEF Pending, Writers

(* The write completes. *)
LEMMA Written ==
    ASSUME IInv, NEW c \in Tab, WritePlatformConfig(c)
    PROVE  IInv'
<1>1. /\ ShapeInv /\ c \in Writers /\ Pending(c) /\ IsDocument(request[c].doc) /\ Valid(request[c].doc.config)
      /\ request[c].kind \in {"save", "publish"}
      BY DEF IInv, ShapeInv, WritePlatformConfig, Writers, Pending
<1>2. /\ DOMAIN request' = Tab /\ DOMAIN request'[c] = RequestFields /\ ~Pending(c)'
      /\ \A d \in Tab : d # c => request'[d] = request[d] /\ Pending(d)' = Pending(d)
      /\ Writers' = Writers \ {c}
      BY <1>1, Ends DEF WritePlatformConfig
<1>3. \/ file'.state = "whole" /\ file'.doc = request[c].doc
      \/ file.state # "empty" /\ file'.state = "mixed" /\ file'.doc = Document
      BY DocumentShape DEF WritePlatformConfig, Overwritten
<1>4. stored' = Effect(c) /\ UNCHANGED <<raced, overlapped, faults>>  BY DEF WritePlatformConfig
<1>5. IsDocument(stored')  BY <1>1, <1>4 DEF Effect, IsDocument, ShapeInv
<1>6. ShapeInv'
    <2>1. /\ IsDocument(file'.doc) /\ file'.state \in {"whole", "mixed"}
          /\ file'.state = "whole" => Valid(file'.doc.config)
          BY <1>1, <1>3, DocumentShape
    <2>2. ASSUME NEW d \in Tab
          PROVE  /\ DOMAIN request'[d] = RequestFields
                 /\ Pending(d)' => /\ request'[d].kind \in {"save", "publish"}
                                   /\ IsDocument(request'[d].doc) /\ Valid(request'[d].doc.config)
          BY <1>1, <1>2 DEF ShapeInv
    <2> QED  BY <1>1, <1>2, <1>4, <1>5, <2>1, <2>2 DEF ShapeInv
<1>7. WriterInv'
    <2>1. ~overlapped => Writers = {c}  BY <1>1 DEF IInv, WriterInv
    <2>2. ~overlapped /\ faults = 0 => file.state = "empty"  BY <1>1 DEF IInv, WriterInv
    <2> QED  BY <1>2, <1>3, <1>4, <2>1, <2>2 DEF WriterInv
<1>8. RequestInv'
    <2>1. ~raced => \A d \in Tab : ~Pending(d)'  BY <1>1, <1>2 DEF IInv, RequestInv, Alone
    <2>2. ~raced => Writers' = {}  BY <1>2, <2>1 DEF Writers, Pending
    <2>3. ~raced /\ faults = 0 => file.state = "empty" /\ Effect(c) = request[c].doc
          BY <1>1 DEF IInv, RequestInv, Alone
    <2> QED  BY <1>3, <1>4, <2>1, <2>2, <2>3 DEF RequestInv, Alone
<1> QED  BY <1>6, <1>7, <1>8 DEF IInv

(* The open or the write fails. *)
LEMMA WriteFailed ==
    ASSUME IInv, NEW c \in Tab, WriteFails(c)
    PROVE  IInv'
<1>1. ShapeInv /\ faults' = faults + 1 /\ faults \in Nat  BY DEF IInv, ShapeInv, WriteFails
<1>2. faults' \in Nat /\ faults' # 0  BY <1>1
<1>3. /\ DOMAIN request' = Tab /\ DOMAIN request'[c] = RequestFields /\ ~Pending(c)'
      /\ \A d \in Tab : d # c => request'[d] = request[d] /\ Pending(d)' = Pending(d)
      /\ Writers' = Writers \ {c}
      BY <1>1, Ends DEF WriteFails
<1>4. \/ UNCHANGED file
      \/ file'.state = "mixed" /\ file'.doc = Document
      BY DocumentShape DEF WriteFails
<1>5. UNCHANGED <<stored, raced, overlapped>>  BY DEF WriteFails
<1>6. ShapeInv'
    <2>1. /\ IsDocument(file'.doc) /\ file'.state \in {"absent", "whole", "empty", "mixed"}
          /\ file'.state = "absent" => file'.doc = Document
          /\ file'.state = "whole" => Valid(file'.doc.config)
          BY <1>1, <1>4, DocumentShape DEF ShapeInv
    <2>2. ASSUME NEW d \in Tab
          PROVE  /\ DOMAIN request'[d] = RequestFields
                 /\ Pending(d)' => /\ request'[d].kind \in {"save", "publish"}
                                   /\ IsDocument(request'[d].doc) /\ Valid(request'[d].doc.config)
          BY <1>1, <1>3 DEF ShapeInv
    <2> QED  BY <1>1, <1>2, <1>3, <1>5, <2>1, <2>2 DEF ShapeInv
<1>7. WriterInv'  BY <1>2, <1>3, <1>5 DEF IInv, WriterInv
<1>8. RequestInv'  BY <1>2, <1>3, <1>5 DEF IInv, RequestInv, Alone
<1> QED  BY <1>6, <1>7, <1>8 DEF IInv

(* The server process ends. *)
LEMMA Crashed ==
    ASSUME IInv, Crash
    PROVE  IInv'
<1>1. ShapeInv /\ faults' = faults + 1 /\ faults \in Nat  BY DEF IInv, ShapeInv, Crash
<1>2. faults' \in Nat /\ faults' # 0  BY <1>1
<1>3. ASSUME NEW d \in Tab
      PROVE  DOMAIN request'[d] = RequestFields /\ ~Pending(d)'
    <2> DEFINE r == [NoRequest EXCEPT !.kind = request[d].kind, !.phase = "answered", !.answer = "error"]
    <2>1. DOMAIN r = RequestFields /\ r.phase = "answered"  BY NoRequestShape DEF RequestFields
    <2>2. request'[d] = IF request[d].phase \in {"none", "answered"} THEN request[d] ELSE r  BY DEF Crash
    <2> HIDE DEF r
    <2> QED  BY <1>1, <2>1, <2>2 DEF ShapeInv, Pending
<1>4. DOMAIN request' = Tab /\ UNCHANGED <<file, stored, raced, overlapped>>  BY DEF Crash
<1>5. Writers' = {}  BY <1>3 DEF Writers, Pending
<1>6. ShapeInv'  BY <1>1, <1>2, <1>3, <1>4 DEF ShapeInv
<1>7. WriterInv'  BY <1>2, <1>5 DEF WriterInv
<1>8. RequestInv'  BY <1>2, <1>3 DEF RequestInv, Alone
<1> QED  BY <1>6, <1>7, <1>8 DEF IInv

(* What a console does by itself. *)
LEMMA ConsoleStep ==
    ASSUME IInv, NEW c \in Tab,
           PlatformAdminPage(c) \/ Type(c) \/ SaveDraft(c) \/ PublishChanges(c) \/ Receive(c)
    PROVE  IInv'
<1>1. CASE PlatformAdminPage(c) \/ Type(c)
    <2>1. UNCHANGED <<file, request, stored, raced, overlapped, faults>>  BY <1>1 DEF PlatformAdminPage, Type
    <2>2. Writers' = Writers /\ \A d \in Tab : Pending(d)' = Pending(d) /\ Effect(d)' = Effect(d)
          BY <2>1 DEF Writers, Pending, Effect
    <2>3. ShapeInv'  BY <2>1, <2>2 DEF IInv, ShapeInv
    <2>4. WriterInv'  BY <2>1, <2>2 DEF IInv, WriterInv
    <2>5. RequestInv'  BY <2>1, <2>2 DEF IInv, RequestInv, Alone
    <2> QED  BY <2>3, <2>4, <2>5 DEF IInv
<1>2. CASE SaveDraft(c)
    <2> DEFINE r == [NoRequest EXCEPT !.kind = "save", !.phase = "sent", !.payload = Object(tab[c].text)]
    <2>1. DOMAIN r = RequestFields /\ r.phase = "sent" /\ Becomes(c, r)
          BY <1>2, NoRequestShape DEF SaveDraft, Becomes, RequestFields
    <2>2. ~Pending(c)  BY <1>2 DEF SaveDraft, Busy, IInv, ShapeInv
    <2>3. UNCHANGED <<file, stored, raced, overlapped, faults>>  BY <1>2 DEF SaveDraft
    <2> HIDE DEF r
    <2> QED  BY <2>1, <2>2, <2>3, Harmless
<1>3. CASE PublishChanges(c)
    <2> DEFINE r == [NoRequest EXCEPT !.kind = "publish", !.phase = "sent"]
    <2>1. DOMAIN r = RequestFields /\ r.phase = "sent" /\ Becomes(c, r)
          BY <1>3, NoRequestShape DEF PublishChanges, Becomes, RequestFields
    <2>2. ~Pending(c)  BY <1>3 DEF PublishChanges, Busy, IInv, ShapeInv
    <2>3. UNCHANGED <<file, stored, raced, overlapped, faults>>  BY <1>3 DEF PublishChanges
    <2> HIDE DEF r
    <2> QED  BY <2>1, <2>2, <2>3, Harmless
<1>4. CASE Receive(c)
    <2>1. Becomes(c, NoRequest) /\ ~Pending(c)  BY <1>4 DEF Receive, Becomes, Pending
    <2> QED  BY <1>4, <2>1, NoRequestShape, Harmless DEF Receive
<1> QED  BY <1>1, <1>2, <1>3, <1>4

(* Every step keeps the invariant. *)
LEMMA NextIInv == IInv /\ [Next]_vars => IInv'
<1> SUFFICES ASSUME IInv, [Next]_vars PROVE IInv'  OBVIOUS
<1>1. CASE UNCHANGED vars
    <2>1. UNCHANGED <<file, request, stored, raced, overlapped, faults>>  BY <1>1 DEF vars
    <2>2. Writers' = Writers /\ \A d \in Tab : Pending(d)' = Pending(d) /\ Effect(d)' = Effect(d)
          BY <2>1 DEF Writers, Pending, Effect
    <2>3. ShapeInv'  BY <2>1, <2>2 DEF IInv, ShapeInv
    <2>4. WriterInv'  BY <2>1, <2>2 DEF IInv, WriterInv
    <2>5. RequestInv'  BY <2>1, <2>2 DEF IInv, RequestInv, Alone
    <2> QED  BY <2>3, <2>4, <2>5 DEF IInv
<1>2. ASSUME NEW c \in Tab, Refuse(c) \/ ReadFails(c) PROVE IInv'
    <2>1. Answered(c, "error") /\ ~Pending(c) /\ UNCHANGED <<file, stored, raced, overlapped, faults>>
          BY <1>2 DEF Refuse, ReadFails, Pending
    <2>2. PICK r : Becomes(c, r) /\ DOMAIN r = RequestFields /\ r.phase = "answered"  BY <2>1, AnsweredShape
    <2> QED  BY <2>1, <2>2, Harmless
<1>3. ASSUME NEW c \in Tab, PUT(c) PROVE IInv'   BY <1>2, <1>3, DraftSaved DEF PUT
<1>4. ASSUME NEW c \in Tab, POST(c) PROVE IInv'  BY <1>2, <1>4, Published DEF POST
<1> QED  BY <1>1, <1>3, <1>4, ConsoleStep, Truncated, Written, WriteFailed, Crashed DEF Next

(* IInv always holds. *)
THEOREM Invariant == Spec => []IInv
<1>1. Init => IInv  BY InitIInv
<1>2. IInv /\ [Next]_vars => IInv'  BY NextIInv
<1> QED  BY <1>1, <1>2, PTL DEF Spec

-----------------------------------------------------------------------------
(* The properties. *)

(* What the console stores can be read again (store.ts), with every edit,  *)
(* unless two writes overlapped or one failed.                             *)
THEOREM ReadBack == Spec => []WhatIsWrittenCanBeRead
<1>1. IInv => WhatIsWrittenCanBeRead  BY DEF IInv, ShapeInv, WriterInv, WhatIsWrittenCanBeRead, Valid
<1> QED  BY <1>1, Invariant, PTL

(* Requests whose reads and writes do not interleave leave what they would *)
(* leave one by one: no draft undoes a publication, nor the reverse.       *)
THEOREM OneByOne == Spec => []AsIfOneByOne
<1>1. IInv => AsIfOneByOne  BY DEF IInv, RequestInv, Alone, AsIfOneByOne
<1> QED  BY <1>1, Invariant, PTL

(* No request of the console repairs a file that was left incomplete.      *)
THEOREM StaysWedged == Spec => WedgedForGood
<1>1. ASSUME IInv, [Next]_vars, Wedged PROVE Wedged'
    <2>1. /\ ShapeInv /\ ~Readable /\ file.state \in {"empty", "mixed"} /\ \A c \in Tab : ~Pending(c)
          BY <1>1 DEF IInv, Wedged, Readable
    <2>2. CASE UNCHANGED vars
          BY <2>1, <2>2 DEF vars, Wedged, Pending
    <2>3. ASSUME NEW c \in Tab, NEW r, Becomes(c, r), r.phase \notin {"open", "write"}, UNCHANGED file
          PROVE  Wedged'
          BY <2>1, <2>3, OthersPending DEF Wedged, Pending
    <2>4. ASSUME NEW c \in Tab, NEW answer, Answered(c, answer), UNCHANGED file PROVE Wedged'
          BY <2>1, <2>4, Ends DEF Wedged, Pending
    <2>5. ASSUME NEW c \in Tab, PlatformAdminPage(c) \/ Type(c) PROVE Wedged'
          BY <2>1, <2>5 DEF PlatformAdminPage, Type, Wedged, Pending
    <2>6. ASSUME NEW c \in Tab, SaveDraft(c) PROVE Wedged'
        <3> DEFINE r == [NoRequest EXCEPT !.kind = "save", !.phase = "sent", !.payload = Object(tab[c].text)]
        <3>1. r.phase = "sent" /\ Becomes(c, r) /\ UNCHANGED file
              BY <2>6, NoRequestShape DEF SaveDraft, Becomes, RequestFields
        <3> HIDE DEF r
        <3> QED  BY <3>1, <2>3
    <2>7. ASSUME NEW c \in Tab, PublishChanges(c) PROVE Wedged'
        <3> DEFINE r == [NoRequest EXCEPT !.kind = "publish", !.phase = "sent"]
        <3>1. r.phase = "sent" /\ Becomes(c, r) /\ UNCHANGED file
              BY <2>7, NoRequestShape DEF PublishChanges, Becomes, RequestFields
        <3> HIDE DEF r
        <3> QED  BY <3>1, <2>3
    <2>8. ASSUME NEW c \in Tab, Receive(c) PROVE Wedged'
          BY <2>3, <2>8, NoRequestShape DEF Receive, Becomes
    <2>9. ASSUME NEW c \in Tab, PUT(c) \/ POST(c) PROVE Wedged'
          BY <2>1, <2>4, <2>9 DEF PUT, POST, Refuse, ReadFails, SavePlatformDraft, PublishPlatformConfig
    <2>10. ASSUME NEW c \in Tab, Truncate(c) \/ WritePlatformConfig(c) \/ WriteFails(c) PROVE FALSE
           BY <2>1, <2>10 DEF Truncate, WritePlatformConfig, WriteFails, Pending
    <2>11. CASE Crash
        <3>1. ASSUME NEW d \in Tab PROVE ~Pending(d)'
            <4> DEFINE r == [NoRequest EXCEPT !.kind = request[d].kind, !.phase = "answered", !.answer = "error"]
            <4>1. r.phase = "answered"  BY NoRequestShape DEF RequestFields
            <4>2. request'[d] = IF request[d].phase \in {"none", "answered"} THEN request[d] ELSE r
                  BY <2>11 DEF Crash
            <4> HIDE DEF r
            <4> QED  BY <4>1, <4>2 DEF Pending
        <3> QED  BY <2>1, <2>11, <3>1 DEF Crash, Wedged
    <2> QED  BY <1>1, <2>2, <2>5, <2>6, <2>7, <2>8, <2>9, <2>10, <2>11 DEF Next
<1>2. IInv /\ [Next]_vars => [Wedged => Wedged']_vars  BY <1>1
<1> QED  BY <1>2, Invariant, PTL DEF Spec, WedgedForGood
=============================================================================
