----------------------------- MODULE MemoryProofs -----------------------------
(***************************************************************************)
(* Proofs about MemoryIndex, for any events, handlers, script runs, names, *)
(* files and any number of faults, and, after them, about MemorySearch, for *)
(* any words, payloads, queries, limits and metadata nested to any depth.  *)
(*                                                                         *)
(* The argument: temporary names lead to different files, none of them the *)
(* live index (DirectoryInv).  As long as no two rebuilds wrote under one  *)
(* name, each writes into an empty file of its own, and what it renames is *)
(* whole (FileInv).  As long as no two rebuilds overlapped, the one under  *)
(* way has seen every event that was answered as indexed and its own       *)
(* (AloneInv).  A line that does not parse stands behind one that an       *)
(* append left unfinished (QueueInv and LostBehindBad).                    *)
(***************************************************************************)
EXTENDS MemoryIndex, MemorySearch, FiniteSetTheorems, FunctionTheorems, SequenceTheorems,
        WellFoundedInduction, TLAPS

(* Events with a complete line, events whose text is complete, and the     *)
(* pieces that failed appends left.                                        *)
Lines(q) == {q[i].event : i \in {j \in DOMAIN q : q[j].kind = "line"}}
Good(q) == {q[i].event : i \in {j \in DOMAIN q : q[j].kind # "cut"}}
Bad(q) == {i \in DOMAIN q : q[i].kind # "line"}

(* Two temporary names never lead to one file, nor one to the live index.  *)
DirectoryInv ==
    /\ \A m, n \in TempName : temp[m] # Null /\ temp[m] = temp[n] => m = n
    /\ \A n \in TempName : temp[n] # Null => temp[n] # index

(* A worker has a name and a file exactly while it writes. *)
WorkerInv ==
    \A w \in Worker :
        /\ worker[w].pc \in {"idle", "read", "open"} => worker[w].name = Null /\ worker[w].file = Null
        /\ worker[w].pc = "write" => worker[w].name \in TempName /\ worker[w].file \in Inode
        /\ worker[w].pc = "rename" => worker[w].name \in TempName /\ worker[w].file = Null

(* Without a shared name: each writer has a name of its own that leads to  *)
(* the file it writes, empty before and whole after.                       *)
FileInv ==
    ~shared =>
        /\ \A v, w \in Writing : worker[v].name = worker[w].name => v = w
        /\ \A w \in Writing : temp[worker[w].name] # Null
        /\ \A w \in Worker : worker[w].pc = "write" =>
              temp[worker[w].name] = worker[w].file /\ content[worker[w].file].size = 0
        /\ \A w \in Worker : worker[w].pc = "rename" =>
              content[temp[worker[w].name]].whole /\ content[temp[worker[w].name]].events = worker[w].seen

(* Without overlap: one rebuild at a time, which has seen what it must.    *)
AloneInv ==
    ~overlapped =>
        /\ ~shared
        /\ \A v, w \in Rebuilding : v = w
        /\ \A w \in Rebuilding : ((indexed \cup {worker[w].event}) \cap Readable(queue)) \subseteq worker[w].seen

(* What was answered stands in the queue, what was read from it is not a   *)
(* cut piece, and each unfinished piece is a fault.                        *)
QueueInv ==
    /\ acked \subseteq Lines(queue) /\ indexed \subseteq acked
    /\ \A w \in Worker : worker[w].event # Null => worker[w].event \in Lines(queue)
    /\ \A w \in Worker : worker[w].seen \subseteq Good(queue)
    /\ \A i \in Inode : content[i].events \subseteq Good(queue)
    /\ Cardinality(Bad(queue)) <= faults

IInv ==
    /\ TypeOK /\ DirectoryInv /\ WorkerInv /\ FileInv /\ AloneInv /\ QueueInv
    /\ WholeUnlessShared /\ IndexedStaysSearchable

-----------------------------------------------------------------------------
(* Lemmas about the queue. *)

(* What an append does to the queue and to what is read from it: no event  *)
(* but the new one becomes readable.                                       *)
LEMMA AppendFacts ==
    ASSUME NEW q \in Seq(Piece), NEW p \in Piece
    PROVE  LET r == Append(q, p) IN
           /\ r \in Seq(Piece)
           /\ Lines(q) \subseteq Lines(r)
           /\ p.kind = "line" => p.event \in Lines(r)
           /\ Good(q) \subseteq Good(r)
           /\ Readable(r) \subseteq Readable(q) \cup {p.event}
           /\ Bad(r) = IF p.kind = "line" THEN Bad(q) ELSE Bad(q) \cup {Len(q) + 1}
<1> DEFINE r == Append(q, p)
<1>1. /\ r \in Seq(Piece) /\ Len(q) \in Nat /\ Len(r) = Len(q) + 1
      /\ DOMAIN q = 1..Len(q) /\ DOMAIN r = 1..(Len(q) + 1)
      /\ \A i \in 1..Len(q) : r[i] = q[i]
      /\ r[Len(q) + 1] = p
    BY AppendProperties
<1> HIDE DEF r
<1>2. Lines(q) \subseteq Lines(r)
    BY <1>1 DEF Lines
<1>3. p.kind = "line" => p.event \in Lines(r)
    BY <1>1 DEF Lines
<1>4. Good(q) \subseteq Good(r)
    BY <1>1 DEF Good
<1>5. Readable(r) \subseteq Readable(q) \cup {p.event}
    <2> SUFFICES ASSUME NEW i \in DOMAIN r, Parses(r, i)
                 PROVE  r[i].event \in Readable(q) \cup {p.event}
        BY DEF Readable
    <2>1. CASE i = Len(q) + 1
        BY <2>1, <1>1
    <2>2. CASE i \in 1..Len(q)
        <3>1. Parses(q, i)
            <4>1. q[i].kind # "cut"
                BY <2>2, <1>1 DEF Parses
            <4>2. i > 1 => q[i-1].kind = "line"
                BY <2>2, <1>1 DEF Parses
            <4>3. i < Len(q) => q[i].kind = "line"
                BY <2>2, <1>1 DEF Parses
            <4> QED  BY <4>1, <4>2, <4>3 DEF Parses
        <3> QED  BY <2>2, <3>1, <1>1 DEF Readable
    <2> QED  BY <2>1, <2>2, <1>1
<1>6. Bad(r) = IF p.kind = "line" THEN Bad(q) ELSE Bad(q) \cup {Len(q) + 1}
    BY <1>1 DEF Bad
<1> QED  BY <1>1, <1>2, <1>3, <1>4, <1>5, <1>6 DEF r

(* What a rebuild reads is an appended event whose text is complete.       *)
LEMMA QueueSets ==
    ASSUME NEW q \in Seq(Piece)
    PROVE  /\ Readable(q) \subseteq Good(q) /\ Good(q) \subseteq Event
           /\ Lines(q) \subseteq Appended(q) /\ Appended(q) \subseteq Event
           /\ IsFiniteSet(Bad(q)) /\ Cardinality(Bad(q)) \in Nat
<1>1. /\ DOMAIN q = 1..Len(q) /\ Len(q) \in Nat
      /\ \A i \in DOMAIN q : q[i] \in Piece
    OBVIOUS
<1>2. Readable(q) \subseteq Good(q)
    BY DEF Readable, Good, Parses
<1>3. Good(q) \subseteq Event /\ Appended(q) \subseteq Event
    BY <1>1 DEF Good, Appended, Piece
<1>4. Lines(q) \subseteq Appended(q)
    BY DEF Lines, Appended
<1>5. IsFiniteSet(Bad(q))
    <2>1. IsFiniteSet(1..Len(q))
        BY <1>1, FS_Interval
    <2>2. Bad(q) \in SUBSET (1..Len(q))
        BY <1>1 DEF Bad
    <2> QED  BY <2>1, <2>2, FS_Subset
<1> QED  BY <1>2, <1>3, <1>4, <1>5, FS_CardinalityType

(* An event with a complete line that is not readable stands behind a      *)
(* piece without its newline, and no two such events behind the same one.  *)
LEMMA LostBehindBad ==
    ASSUME NEW q \in Seq(Piece), NEW S \in SUBSET Lines(q)
    PROVE  Cardinality(S \ Readable(q)) <= Cardinality(Bad(q))
<1>1. /\ DOMAIN q = 1..Len(q) /\ Len(q) \in Nat
      /\ \A i \in DOMAIN q : q[i] \in Piece
    OBVIOUS
<1> DEFINE L == S \ Readable(q)
           f == [e \in L |-> CHOOSE k \in Bad(q) : k + 1 \in DOMAIN q /\ q[k + 1].event = e]
<1>2. ASSUME NEW e \in L
      PROVE  \E k \in Bad(q) : k + 1 \in DOMAIN q /\ q[k + 1].event = e
    <2> PICK i \in DOMAIN q : q[i].event = e /\ q[i].kind = "line"
        BY DEF Lines
    <2>1. ~Parses(q, i)
        BY DEF Readable
    <2>2. i > 1 /\ q[i - 1].kind # "line"
        BY <2>1 DEF Parses
    <2>3. i - 1 \in Bad(q)
        BY <2>2, <1>1 DEF Bad
    <2>4. (i - 1) + 1 = i
        BY <1>1
    <2> QED  BY <2>3, <2>4
<1>3. ASSUME NEW e \in L
      PROVE  f[e] \in Bad(q) /\ q[f[e] + 1].event = e
    BY <1>2, <1>3
<1>4. f \in [L -> Bad(q)]
    BY <1>3
<1> HIDE DEF f
<1>5. f \in Injection(L, Bad(q))
    BY <1>3, <1>4 DEF Injection, IsInjective
<1> QED  BY <1>5, QueueSets, FS_Injection

(* A file after it is written. *)
LEMMA OverwrittenFacts ==
    ASSUME NEW old \in Content, NEW events \in SUBSET Event
    PROVE  /\ Overwritten(old, events) \in Content
           /\ Overwritten(old, events).events = events
           /\ old.size = 0 => Overwritten(old, events).whole
<1>1. Cardinality(events) \in Nat
    BY EventAssumption, FS_Subset, FS_CardinalityType
<1> DEFINE length == Cardinality(events) + 1
<1>2. length \in Nat /\ old.size \in Nat /\ length >= 0
    BY <1>1 DEF Content
<1>3. Overwritten(old, events) = [events |-> events,
                                  size   |-> IF length < old.size THEN old.size ELSE length,
                                  whole  |-> length >= old.size]
    BY DEF Overwritten
<1>4. (IF length < old.size THEN old.size ELSE length) \in Nat
    BY <1>2
<1>5. (length >= old.size) \in BOOLEAN
    OBVIOUS
<1>6. old.size = 0 => length >= old.size
    BY <1>2
<1>7. \A s \in Nat, b \in BOOLEAN : [events |-> events, size |-> s, whole |-> b] \in Content
    BY DEF Content
<1> HIDE DEF length
<1>8. Overwritten(old, events) \in Content
    BY <1>3, <1>4, <1>5, <1>7
<1>9. Overwritten(old, events).events = events
    BY <1>3
<1>10. Overwritten(old, events).whole = (length >= old.size)
    BY <1>3
<1> QED  BY <1>6, <1>8, <1>9, <1>10

-----------------------------------------------------------------------------
(* Lemmas about steps. *)

(* Worker w goes to a state with these fields, and no other worker moves.  *)
Moves(w, pc, event, seen, name, file) ==
    /\ worker' \in [Worker -> WorkerState]
    /\ worker'[w].pc = pc /\ worker'[w].event = event /\ worker'[w].seen = seen
    /\ worker'[w].name = name /\ worker'[w].file = file
    /\ \A v \in Worker \ {w} : worker'[v] = worker[v]

(* The types of what a worker holds. *)
LEMMA WorkerTypes ==
    ASSUME TypeOK, NEW w \in Worker
    PROVE  /\ worker[w].pc \in {"idle", "read", "open", "write", "rename"}
           /\ worker[w].event \in Event \cup {Null} /\ worker[w].seen \in SUBSET Event
           /\ worker[w].name \in TempName \cup {Null} /\ worker[w].file \in Inode \cup {Null}
<1>1. worker[w] \in WorkerState
    BY DEF TypeOK
<1> QED  BY <1>1 DEF WorkerState

(* An ingest begins with its event. *)
LEMMA IngestMoves ==
    ASSUME TypeOK, NEW h \in Handler, NEW e \in Event, Ingest(h, e)
    PROVE  Moves(h, "read", e, {}, Null, Null)
BY DEF TypeOK, Ingest, Moves, Idle, WorkerState, Worker

(* A run of the script begins without an event. *)
LEMMA ScriptMoves ==
    ASSUME TypeOK, NEW s \in Script, StartScript(s)
    PROVE  Moves(s, "read", Null, {}, Null, Null)
BY DEF TypeOK, StartScript, Moves, Idle, WorkerState, Worker

(* Reading the queue. *)
LEMMA ReadMoves ==
    ASSUME TypeOK, NEW w \in Worker, ReadQueue(w)
    PROVE  Moves(w, "open", worker[w].event, Readable(queue), worker[w].name, worker[w].file)
<1>1. Readable(queue) \in SUBSET Event
    BY QueueSets DEF TypeOK
<1> QED  BY <1>1 DEF TypeOK, ReadQueue, Moves, WorkerState

(* Opening the temporary file: under a fresh name in a file of its own, or *)
(* under the name of another handler, in the file that name leads to; the  *)
(* second only while another rebuild is under way.                         *)
LEMMA OpenMoves ==
    ASSUME IInv, NEW w \in Worker, OpenTemp(w)
    PROVE  \E n \in TempName, i \in Inode :
              /\ Moves(w, "write", worker[w].event, worker[w].seen, n, i)
              /\ temp' = [temp EXCEPT ![n] = i]
              /\ content' = [content EXCEPT ![i] = Truncated]
              /\ IF temp[n] = Null THEN i \notin InUse ELSE i = temp[n]
              /\ shared' \in BOOLEAN
              /\ ~shared' => ~shared /\ Fresh(n)
              /\ ~overlapped => ~shared'
<1> USE DEF IInv
<1>1. PICK n \in {FreshName} \cup SharedNames(w) :
          LET i == IF temp[n] = Null THEN FreshInode ELSE temp[n]
          IN  /\ temp' = [temp EXCEPT ![n] = i]
              /\ content' = [content EXCEPT ![i] = Truncated]
              /\ worker' = [worker EXCEPT ![w].pc = "write", ![w].name = n, ![w].file = i]
              /\ shared' = (shared \/ n \in SharedNames(w))
    BY DEF OpenTemp
<1> DEFINE i == IF temp[n] = Null THEN FreshInode ELSE temp[n]
<1>2. FreshName \in TempName /\ Fresh(FreshName) /\ FreshInode \in Inode /\ FreshInode \notin InUse
    BY DEF OpenTemp, RoomLeft, FreshName, FreshInode
<1>3. ASSUME n \in SharedNames(w)
      PROVE  n \in TempName /\ overlapped
    <2> PICK v \in Writing \cap Handler : n = worker[v].name
        BY <1>3 DEF SharedNames
    <2>1. v \in Worker /\ worker[v].pc \in {"write", "rename"} /\ worker[w].pc = "open"
        BY DEF Writing, OpenTemp
    <2>2. v # w /\ v \in Rebuilding /\ w \in Rebuilding
        BY <2>1 DEF Rebuilding
    <2>3. overlapped
        BY <2>2 DEF AloneInv, TypeOK
    <2> QED  BY <2>1, <2>3 DEF WorkerInv
<1>4. n \in TempName /\ i \in Inode
    BY <1>2, <1>3 DEF TypeOK
<1>5. IF temp[n] = Null THEN i \notin InUse ELSE i = temp[n]
    BY <1>2
<1>6. shared' = (shared \/ n \in SharedNames(w))
    BY <1>1
<1>7. shared' \in BOOLEAN /\ (~shared' => ~shared /\ Fresh(n))
    BY <1>2, <1>6 DEF TypeOK
<1>8. ~overlapped => ~shared'
    BY <1>3, <1>6 DEF AloneInv
<1>9. Moves(w, "write", worker[w].event, worker[w].seen, n, i)
    <2>1. worker' = [worker EXCEPT ![w].pc = "write", ![w].name = n, ![w].file = i]
        BY <1>1
    <2> HIDE DEF i
    <2> QED  BY <2>1, <1>4 DEF TypeOK, Moves, WorkerState
<1>10. temp' = [temp EXCEPT ![n] = i] /\ content' = [content EXCEPT ![i] = Truncated]
    BY <1>1
<1> HIDE DEF i
<1> QED  BY <1>4, <1>5, <1>7, <1>8, <1>9, <1>10

(* Writing the file. *)
LEMMA WriteMoves ==
    ASSUME TypeOK, NEW w \in Worker, WriteTemp(w)
    PROVE  Moves(w, "rename", worker[w].event, worker[w].seen, worker[w].name, Null)
BY DEF TypeOK, WriteTemp, Moves, WorkerState

(* Answering: the worker is idle again.                                    *)
LEMMA AnswerMoves ==
    ASSUME TypeOK, NEW w \in Worker, NEW ok, Answer(w, ok)
    PROVE  Moves(w, "idle", Null, {}, Null, Null)
BY DEF TypeOK, Answer, Moves, Idle, WorkerState

(* An append, as a step of the queue. *)
LEMMA ExtendFacts ==
    ASSUME TypeOK, NEW e \in Event, NEW kind \in {"line", "cut", "bare"}, Extend(e, kind)
    PROVE  /\ e \notin Appended(queue)
           /\ queue' \in Seq(Piece)
           /\ Lines(queue) \subseteq Lines(queue')
           /\ kind = "line" => e \in Lines(queue')
           /\ Good(queue) \subseteq Good(queue')
           /\ Readable(queue') \subseteq Readable(queue) \cup {e}
           /\ Cardinality(Bad(queue')) <= Cardinality(Bad(queue)) + (IF kind = "line" THEN 0 ELSE 1)
<1> DEFINE p == [event |-> e, kind |-> kind]
<1>1. p \in Piece /\ p.event = e /\ p.kind = kind /\ queue \in Seq(Piece)
    BY DEF Piece, TypeOK
<1>2. e \notin Appended(queue) /\ queue' = Append(queue, p)
    BY DEF Extend
<1> HIDE DEF p
<1>3. Bad(queue') = IF kind = "line" THEN Bad(queue) ELSE Bad(queue) \cup {Len(queue) + 1}
    BY <1>1, <1>2, AppendFacts
<1>4. Cardinality(Bad(queue')) <= Cardinality(Bad(queue)) + (IF kind = "line" THEN 0 ELSE 1)
    <2>1. IsFiniteSet(Bad(queue)) /\ Cardinality(Bad(queue)) \in Nat
        BY <1>1, QueueSets
    <2>2. Cardinality(Bad(queue) \cup {Len(queue) + 1}) <= Cardinality(Bad(queue)) + 1
        <3>1. Cardinality(Bad(queue) \cup {Len(queue) + 1})
                 = IF Len(queue) + 1 \in Bad(queue) THEN Cardinality(Bad(queue)) ELSE Cardinality(Bad(queue)) + 1
            BY <2>1, FS_AddElement
        <3> QED  BY <2>1, <3>1
    <2> QED  BY <1>3, <2>1, <2>2
<1> QED  BY <1>1, <1>2, <1>4, AppendFacts

-----------------------------------------------------------------------------
(* The queue and what was answered about it. *)

(* An append of event e keeps QueueInv, whoever makes it. *)
LEMMA QueueExtended ==
    ASSUME IInv, NEW e \in Event, NEW kind \in {"line", "cut", "bare"}, Extend(e, kind),
           acked' \subseteq acked \cup {e}, acked \subseteq acked', UNCHANGED <<indexed, content>>,
           acked' = acked \/ kind = "line",
           \A w \in Worker : worker'[w].event \in {worker[w].event, e} /\ worker'[w].seen \subseteq worker[w].seen,
           worker' = worker \/ kind = "line",
           faults' = IF kind = "line" THEN faults ELSE faults + 1
    PROVE  QueueInv'
<1>1. Lines(queue) \subseteq Lines(queue') /\ (kind = "line" => e \in Lines(queue')) /\ Good(queue) \subseteq Good(queue')
    BY ExtendFacts DEF IInv
<1>2. acked' \subseteq Lines(queue') /\ indexed' \subseteq acked'
    BY <1>1 DEF IInv, QueueInv
<1>3. \A w \in Worker : worker'[w].event # Null => worker'[w].event \in Lines(queue')
    BY <1>1 DEF IInv, QueueInv
<1>4. \A w \in Worker : worker'[w].seen \subseteq Good(queue')
    BY <1>1 DEF IInv, QueueInv
<1>5. \A i \in Inode : content'[i].events \subseteq Good(queue')
    BY <1>1 DEF IInv, QueueInv
<1>6. Cardinality(Bad(queue')) <= faults'
    <2>1. Cardinality(Bad(queue')) <= Cardinality(Bad(queue)) + (IF kind = "line" THEN 0 ELSE 1)
        BY ExtendFacts DEF IInv
    <2>2. queue' \in Seq(Piece)
        BY ExtendFacts DEF IInv
    <2>3. Cardinality(Bad(queue)) \in Nat /\ Cardinality(Bad(queue')) \in Nat
        BY <2>2, QueueSets DEF IInv, TypeOK
    <2>4. Cardinality(Bad(queue)) <= faults /\ faults \in Nat
        BY FaultAssumption DEF IInv, QueueInv, TypeOK
    <2> QED  BY <2>1, <2>3, <2>4
<1> QED  BY <1>2, <1>3, <1>4, <1>5, <1>6 DEF QueueInv

(* A step that leaves the queue alone keeps QueueInv when it answers only  *)
(* about workers' events and puts only what was read into files.           *)
LEMMA QueueKept ==
    ASSUME IInv, UNCHANGED queue, faults' \in {faults, faults + 1},
           indexed' \subseteq acked',
           \A e \in acked' : e \in acked \/ (e # Null /\ \E w \in Worker : e = worker[w].event),
           \A w \in Worker : worker'[w].event \in {worker[w].event, Null} /\ worker'[w].seen \subseteq Good(queue),
           \A i \in Inode : content'[i].events \subseteq Good(queue)
    PROVE  QueueInv'
<1> USE DEF IInv
<1>1. acked' \subseteq Lines(queue') /\ indexed' \subseteq acked'
    BY DEF QueueInv
<1>2. \A w \in Worker : worker'[w].event # Null => worker'[w].event \in Lines(queue')
    BY DEF QueueInv
<1>3. Cardinality(Bad(queue')) <= faults'
    <2>1. Cardinality(Bad(queue)) \in Nat /\ faults \in Nat /\ Cardinality(Bad(queue)) <= faults
        BY QueueSets, FaultAssumption DEF QueueInv, TypeOK
    <2> QED  BY <2>1
<1> QED  BY <1>1, <1>2, <1>3 DEF QueueInv

(* What an answer changes. *)
LEMMA AnswerFacts ==
    ASSUME IInv, NEW w \in Worker, NEW ok, Answer(w, ok)
    PROVE  /\ indexed' \subseteq acked' /\ acked \subseteq acked'
           /\ \A e \in acked' : e \in acked \/ (e # Null /\ \E v \in Worker : e = worker[v].event)
           /\ \A v \in Worker : worker'[v].event \in {worker[v].event, Null} /\ worker'[v].seen \subseteq Good(queue)
           /\ indexed' \subseteq indexed \cup {worker[w].event}
           /\ ~ok => indexed' = indexed
<1> USE DEF IInv
<1>1. \A v \in Worker : worker'[v].event \in {worker[v].event, Null} /\ worker'[v].seen \subseteq Good(queue)
    BY AnswerMoves DEF Moves, QueueInv
<1>2. indexed \subseteq acked
    BY DEF QueueInv
<1> QED  BY <1>1, <1>2 DEF Answer

(* Every step keeps it. *)
LEMMA QueueNext ==
    ASSUME IInv, [Next]_vars
    PROVE  QueueInv'
<1> USE DEF IInv
<1>1. ASSUME NEW h \in Handler, NEW e \in Event, Ingest(h, e) PROVE QueueInv'
    <2>1. \A w \in Worker : worker'[w].event \in {worker[w].event, e} /\ worker'[w].seen \subseteq worker[w].seen
        BY <1>1, IngestMoves DEF Moves
    <2> QED  BY <1>1, <2>1, QueueExtended DEF Ingest
<1>2. ASSUME NEW e \in Event, MailWebhook(e) PROVE QueueInv'
    BY <1>2, QueueExtended DEF MailWebhook
<1>3. ASSUME NEW e \in Event, AppendFails(e) PROVE QueueInv'
    BY <1>3, QueueExtended DEF AppendFails
<1>4. ASSUME NEW s \in Script, StartScript(s) PROVE QueueInv'
    <2>1. \A w \in Worker : worker'[w].event \in {worker[w].event, Null} /\ worker'[w].seen \subseteq Good(queue)
        BY <1>4, ScriptMoves DEF Moves, QueueInv
    <2> QED  BY <1>4, <2>1, QueueKept DEF StartScript, QueueInv
<1>5. ASSUME NEW w \in Worker, ReadQueue(w) PROVE QueueInv'
    <2>1. \A v \in Worker : worker'[v].event \in {worker[v].event, Null} /\ worker'[v].seen \subseteq Good(queue)
        BY <1>5, ReadMoves, QueueSets DEF Moves, QueueInv, TypeOK
    <2> QED  BY <1>5, <2>1, QueueKept DEF ReadQueue, QueueInv
<1>6. ASSUME NEW w \in Worker, OpenTemp(w) PROVE QueueInv'
    <2>1. PICK n \in TempName, i \in Inode :
             Moves(w, "write", worker[w].event, worker[w].seen, n, i) /\ content' = [content EXCEPT ![i] = Truncated]
        BY <1>6, OpenMoves
    <2>2. \A v \in Worker : worker'[v].event \in {worker[v].event, Null} /\ worker'[v].seen \subseteq Good(queue)
        BY <2>1 DEF Moves, QueueInv
    <2>3. \A j \in Inode : content'[j].events \subseteq Good(queue)
        BY <2>1 DEF QueueInv, TypeOK, Truncated
    <2> QED  BY <1>6, <2>2, <2>3, QueueKept DEF OpenTemp, QueueInv
<1>7. ASSUME NEW w \in Worker, WriteTemp(w) PROVE QueueInv'
    <2>1. \A v \in Worker : worker'[v].event \in {worker[v].event, Null} /\ worker'[v].seen \subseteq Good(queue)
        BY <1>7, WriteMoves DEF Moves, QueueInv
    <2>2. \A i \in Inode : content'[i].events \subseteq Good(queue)
        <3> SUFFICES ASSUME NEW i \in Inode PROVE content'[i].events \subseteq Good(queue)
            OBVIOUS
        <3>1. content'[i] = IF i = worker[w].file THEN Overwritten(content[i], worker[w].seen) ELSE content[i]
            BY <1>7 DEF WriteTemp, TypeOK
        <3>2. Overwritten(content[i], worker[w].seen).events = worker[w].seen
            BY WorkerTypes, OverwrittenFacts DEF TypeOK
        <3> QED  BY <3>1, <3>2 DEF QueueInv
    <2> QED  BY <1>7, <2>1, <2>2, QueueKept DEF WriteTemp, QueueInv
<1>8. ASSUME NEW w \in Worker, Publish(w) PROVE QueueInv'
    <2>1. Answer(w, TRUE) /\ UNCHANGED <<queue, faults>>
        BY <1>8 DEF Publish
    <2>2. \A i \in Inode : content'[i].events \subseteq Good(queue)
        BY <1>8 DEF Publish, Reclaim, Truncated, QueueInv
    <2> QED  BY <2>1, <2>2, AnswerFacts, QueueKept
<1>9. ASSUME NEW w \in Worker, NothingToRename(w) PROVE QueueInv'
    <2>1. Answer(w, FALSE) /\ UNCHANGED <<queue, faults, content>>
        BY <1>9 DEF NothingToRename
    <2> QED  BY <2>1, AnswerFacts, QueueKept DEF QueueInv
<1>10. ASSUME NEW w \in Worker, RebuildFails(w) PROVE QueueInv'
    <2>1. Answer(w, FALSE) /\ UNCHANGED queue /\ faults' = faults + 1
        BY <1>10 DEF RebuildFails
    <2>2. \A i \in Inode : content'[i].events = content[i].events
        BY <1>10 DEF RebuildFails, CutShort, TypeOK, Content
    <2> QED  BY <2>1, <2>2, AnswerFacts, QueueKept DEF QueueInv
<1>11. ASSUME NEW process \in SUBSET Worker, Crash(process) PROVE QueueInv'
    <2>1. \A w \in Worker : worker'[w].event \in {worker[w].event, Null} /\ worker'[w].seen \subseteq Good(queue)
        BY <1>11 DEF Crash, Idle, QueueInv
    <2> QED  BY <1>11, <2>1, QueueKept DEF Crash, QueueInv
<1>12. ASSUME UNCHANGED vars PROVE QueueInv'
    BY <1>12 DEF vars, QueueInv
<1> QED
    BY <1>1, <1>2, <1>3, <1>4, <1>5, <1>6, <1>7, <1>8, <1>9, <1>10, <1>11, <1>12 DEF Next, Worker

-----------------------------------------------------------------------------
(* Types, names and files. *)

(* Every step keeps the types. *)
LEMMA TypeNext ==
    ASSUME IInv, [Next]_vars
    PROVE  TypeOK'
<1> USE FaultAssumption DEF IInv
<1>0. queue' \in Seq(Piece) => indexed' \subseteq acked' /\ acked' \subseteq Appended(queue')
    BY QueueNext, QueueSets DEF QueueInv
<1>1. ASSUME NEW h \in Handler, NEW e \in Event, Ingest(h, e) PROVE TypeOK'
    <2>1. queue' \in Seq(Piece) /\ worker' \in [Worker -> WorkerState]
        BY <1>1, IngestMoves, ExtendFacts DEF Ingest, Moves
    <2> QED  BY <1>0, <1>1, <2>1 DEF Ingest, TypeOK
<1>2. ASSUME NEW e \in Event, MailWebhook(e) PROVE TypeOK'
    <2>1. queue' \in Seq(Piece)
        BY <1>2, ExtendFacts DEF MailWebhook
    <2> QED  BY <1>0, <1>2, <2>1 DEF MailWebhook, TypeOK
<1>3. ASSUME NEW e \in Event, AppendFails(e) PROVE TypeOK'
    <2>1. queue' \in Seq(Piece)
        BY <1>3, ExtendFacts DEF AppendFails
    <2> QED  BY <1>0, <1>3, <2>1 DEF AppendFails, TypeOK
<1>4. ASSUME NEW s \in Script, StartScript(s) PROVE TypeOK'
    BY <1>0, <1>4, ScriptMoves DEF StartScript, Moves, TypeOK
<1>5. ASSUME NEW w \in Worker, ReadQueue(w) PROVE TypeOK'
    BY <1>0, <1>5, ReadMoves DEF ReadQueue, Moves, TypeOK
<1>6. ASSUME NEW w \in Worker, OpenTemp(w) PROVE TypeOK'
    <2>1. PICK n \in TempName, i \in Inode :
             /\ Moves(w, "write", worker[w].event, worker[w].seen, n, i)
             /\ temp' = [temp EXCEPT ![n] = i] /\ content' = [content EXCEPT ![i] = Truncated]
             /\ shared' \in BOOLEAN
        BY <1>6, OpenMoves
    <2>2. Truncated \in Content
        BY DEF Truncated, Content
    <2> QED  BY <1>0, <1>6, <2>1, <2>2 DEF OpenTemp, Moves, TypeOK
<1>7. ASSUME NEW w \in Worker, WriteTemp(w) PROVE TypeOK'
    <2>1. worker[w].file \in Inode
        BY <1>7 DEF WriteTemp, WorkerInv
    <2>2. Overwritten(content[worker[w].file], worker[w].seen) \in Content
        BY <2>1, WorkerTypes, OverwrittenFacts DEF TypeOK
    <2>3. content' \in [Inode -> Content]
        BY <1>7, <2>2 DEF WriteTemp, TypeOK
    <2> QED  BY <1>0, <1>7, <2>3, WriteMoves DEF WriteTemp, Moves, TypeOK
<1>8. ASSUME NEW w \in Worker, Publish(w) PROVE TypeOK'
    <2>1. worker[w].name \in TempName /\ temp[worker[w].name] \in Inode
        BY <1>8 DEF Publish, WorkerInv, TypeOK
    <2>2. Truncated \in Content
        BY DEF Truncated, Content
    <2>3. content' \in [Inode -> Content]
        BY <1>8, <2>2 DEF Publish, Reclaim, TypeOK
    <2>4. worker' \in [Worker -> WorkerState]
        BY <1>8, AnswerMoves DEF Publish, Moves
    <2> QED  BY <1>0, <1>8, <2>1, <2>3, <2>4 DEF Publish, TypeOK
<1>9. ASSUME NEW w \in Worker, NothingToRename(w) PROVE TypeOK'
    BY <1>0, <1>9, AnswerMoves DEF NothingToRename, Moves, TypeOK
<1>10. ASSUME NEW w \in Worker, RebuildFails(w) PROVE TypeOK'
    <2>1. \A i \in Inode : CutShort(content[i]) \in Content
        BY DEF CutShort, Content, TypeOK
    <2>2. content' \in [Inode -> Content]
        BY <1>10, <2>1 DEF RebuildFails, TypeOK
    <2>3. faults' \in 0..MaxFaults
        BY <1>10 DEF RebuildFails, TypeOK
    <2> QED  BY <1>0, <1>10, <2>2, <2>3, AnswerMoves DEF RebuildFails, Moves, TypeOK
<1>11. ASSUME NEW process \in SUBSET Worker, Crash(process) PROVE TypeOK'
    <2>1. worker' \in [Worker -> WorkerState]
        BY <1>11 DEF Crash, Idle, WorkerState, TypeOK
    <2>2. faults' \in 0..MaxFaults
        BY <1>11 DEF Crash, TypeOK
    <2> QED  BY <1>0, <1>11, <2>1, <2>2 DEF Crash, TypeOK
<1>12. ASSUME UNCHANGED vars PROVE TypeOK'
    BY <1>12 DEF vars, TypeOK
<1> QED
    BY <1>1, <1>2, <1>3, <1>4, <1>5, <1>6, <1>7, <1>8, <1>9, <1>10, <1>11, <1>12 DEF Next, Worker

(* Every step keeps the workers' names and files in step with where they are. *)
LEMMA WorkerNext ==
    ASSUME IInv, [Next]_vars
    PROVE  WorkerInv'
<1> USE DEF IInv, WorkerInv
<1>1. ASSUME NEW h \in Handler, NEW e \in Event, Ingest(h, e) PROVE WorkerInv'
    BY <1>1, IngestMoves DEF Moves
<1>2. ASSUME UNCHANGED worker PROVE WorkerInv'
    BY <1>2
<1>3. ASSUME NEW s \in Script, StartScript(s) PROVE WorkerInv'
    BY <1>3, ScriptMoves DEF Moves
<1>4. ASSUME NEW w \in Worker, ReadQueue(w) PROVE WorkerInv'
    BY <1>4, ReadMoves DEF ReadQueue, Moves
<1>5. ASSUME NEW w \in Worker, OpenTemp(w) PROVE WorkerInv'
    <2>1. PICK n \in TempName, i \in Inode : Moves(w, "write", worker[w].event, worker[w].seen, n, i)
        BY <1>5, OpenMoves
    <2> QED  BY <2>1 DEF Moves
<1>6. ASSUME NEW w \in Worker, WriteTemp(w) PROVE WorkerInv'
    BY <1>6, WriteMoves DEF WriteTemp, Moves
<1>7. ASSUME NEW w \in Worker, NEW ok, Answer(w, ok) PROVE WorkerInv'
    BY <1>7, AnswerMoves DEF Moves
<1>8. ASSUME NEW process \in SUBSET Worker, Crash(process) PROVE WorkerInv'
    BY <1>8 DEF Crash, Idle
<1> QED
    BY <1>1, <1>2, <1>3, <1>4, <1>5, <1>6, <1>7, <1>8
    DEF Next, vars, Worker, MailWebhook, AppendFails, Publish, NothingToRename, RebuildFails

(* Every step keeps temporary names apart from each other and the index.   *)
LEMMA DirectoryNext ==
    ASSUME IInv, [Next]_vars
    PROVE  DirectoryInv'
<1> USE DEF IInv, DirectoryInv
<1>1. ASSUME UNCHANGED <<temp, index>> PROVE DirectoryInv'
    BY <1>1
<1>2. ASSUME NEW w \in Worker, OpenTemp(w) PROVE DirectoryInv'
    <2>1. PICK n \in TempName, i \in Inode :
             temp' = [temp EXCEPT ![n] = i] /\ IF temp[n] = Null THEN i \notin InUse ELSE i = temp[n]
        BY <1>2, OpenMoves
    <2>2. UNCHANGED index
        BY <1>2 DEF OpenTemp
    <2>3. CASE temp[n] = Null
        <3>1. i # index /\ \A m \in TempName : temp[m] # i
            BY <2>1, <2>3 DEF InUse
        <3> QED  BY <2>1, <2>2, <3>1 DEF TypeOK
    <2>4. CASE temp[n] # Null
        BY <2>1, <2>2, <2>4 DEF TypeOK
    <2> QED  BY <2>3, <2>4
<1>3. ASSUME NEW w \in Worker, Publish(w) PROVE DirectoryInv'
    <2>1. worker[w].name \in TempName
        BY <1>3 DEF Publish, WorkerInv
    <2> QED  BY <1>3, <2>1 DEF Publish, TypeOK
<1> QED
    BY <1>1, <1>2, <1>3
    DEF Next, vars, MailWebhook, AppendFails, Ingest, StartScript, Crash, ReadQueue, WriteTemp, NothingToRename, RebuildFails

-----------------------------------------------------------------------------
(* The index is whole. *)

(* A writer that does not move and whose file nobody touches stays as      *)
(* FileInv has it.                                                         *)
LEMMA FileKept ==
    ASSUME IInv, shared' = shared,
           \A v \in Worker : ~shared /\ worker'[v].pc \in {"write", "rename"} =>
               /\ worker'[v] = worker[v]
               /\ temp'[worker[v].name] = temp[worker[v].name]
               /\ content'[temp[worker[v].name]] = content[temp[worker[v].name]]
    PROVE  FileInv'
<1> SUFFICES ASSUME ~shared PROVE FileInv'
    BY DEF FileInv
<1>1. \A v \in Writing' : v \in Writing /\ worker'[v] = worker[v]
    BY DEF Writing
<1>2. \A v, w \in Writing' : worker'[v].name = worker'[w].name => v = w
    BY <1>1 DEF IInv, FileInv
<1>3. \A v \in Writing' : temp'[worker'[v].name] # Null
    BY <1>1 DEF IInv, FileInv, Writing
<1>4. \A v \in Worker : worker'[v].pc = "write" =>
          temp'[worker'[v].name] = worker'[v].file /\ content'[worker'[v].file].size = 0
    BY DEF IInv, FileInv
<1>5. \A v \in Worker : worker'[v].pc = "rename" =>
          content'[temp'[worker'[v].name]].whole /\ content'[temp'[worker'[v].name]].events = worker'[v].seen
    BY DEF IInv, FileInv
<1> QED  BY <1>2, <1>3, <1>4, <1>5 DEF FileInv

(* Under ~shared, two writers have two files, and none the live index.     *)
LEMMA FilesApart ==
    ASSUME IInv, ~shared, NEW w \in Writing
    PROVE  /\ temp[worker[w].name] \in Inode /\ temp[worker[w].name] # index
           /\ worker[w].pc = "write" => worker[w].file = temp[worker[w].name]
           /\ \A v \in Writing \ {w} : /\ worker[v].name # worker[w].name
                                       /\ temp[worker[v].name] # temp[worker[w].name]
<1> USE DEF IInv
<1>1. \A v \in Writing : v \in Worker /\ worker[v].name \in TempName /\ temp[worker[v].name] # Null
    BY DEF Writing, WorkerInv, FileInv
<1>2. \A v \in Writing \ {w} : worker[v].name # worker[w].name
    BY DEF FileInv
<1>3. \A v \in Writing \ {w} : temp[worker[v].name] # temp[worker[w].name]
    BY <1>1, <1>2 DEF DirectoryInv
<1>4. temp[worker[w].name] \in Inode /\ temp[worker[w].name] # index
    BY <1>1 DEF DirectoryInv, TypeOK
<1> QED  BY <1>1, <1>2, <1>3, <1>4 DEF FileInv

(* Only a rename changes what a search reads. *)
LEMMA LiveFileKept ==
    ASSUME IInv, NEW w \in Worker, OpenTemp(w) \/ WriteTemp(w) \/ RebuildFails(w), ~shared'
    PROVE  ~shared /\ UNCHANGED index /\ (index # Null => content'[index] = content[index])
<1> USE DEF IInv
<1>1. UNCHANGED index
    BY DEF OpenTemp, WriteTemp, RebuildFails
<1>2. CASE OpenTemp(w)
    <2>1. PICK n \in TempName, i \in Inode :
             /\ content' = [content EXCEPT ![i] = Truncated]
             /\ IF temp[n] = Null THEN i \notin InUse ELSE i = temp[n]
             /\ ~shared /\ Fresh(n)
        BY <1>2, OpenMoves
    <2>2. i # index
        BY <2>1 DEF Fresh, InUse
    <2> QED  BY <1>1, <2>1, <2>2 DEF TypeOK
<1>3. ASSUME WriteTemp(w) \/ RebuildFails(w), worker[w].pc = "write"
      PROVE  ~shared /\ (index # Null => content'[index] = content[index])
    <2>1. ~shared /\ w \in Writing
        <3>1. UNCHANGED shared
            BY <1>3 DEF WriteTemp, RebuildFails
        <3> QED  BY <1>3, <3>1 DEF Writing
    <2>2. worker[w].file # index
        BY <1>3, <2>1, FilesApart
    <2> QED  BY <1>3, <2>1, <2>2 DEF WriteTemp, RebuildFails, TypeOK
<1>4. ASSUME RebuildFails(w), worker[w].pc # "write"
      PROVE  ~shared /\ UNCHANGED content
    BY <1>4 DEF RebuildFails
<1> QED  BY <1>1, <1>2, <1>3, <1>4 DEF WriteTemp

(* Every step keeps both. *)
LEMMA FileNext ==
    ASSUME IInv, [Next]_vars
    PROVE  FileInv' /\ WholeUnlessShared'
<1> USE DEF IInv
<1>1. ASSUME UNCHANGED <<temp, index, content, shared>>,
             \A v \in Worker : worker'[v].pc \in {"write", "rename"} => worker'[v] = worker[v]
      PROVE  FileInv' /\ WholeUnlessShared'
    BY <1>1, FileKept DEF WholeUnlessShared
<1>2. ASSUME NEW h \in Handler, NEW e \in Event, Ingest(h, e) PROVE FileInv' /\ WholeUnlessShared'
    BY <1>1, <1>2, IngestMoves DEF Ingest, Moves
<1>3. ASSUME NEW e \in Event, MailWebhook(e) \/ AppendFails(e) PROVE FileInv' /\ WholeUnlessShared'
    BY <1>1, <1>3 DEF MailWebhook, AppendFails
<1>4. ASSUME NEW s \in Script, StartScript(s) PROVE FileInv' /\ WholeUnlessShared'
    BY <1>1, <1>4, ScriptMoves DEF StartScript, Moves
<1>5. ASSUME NEW w \in Worker, ReadQueue(w) PROVE FileInv' /\ WholeUnlessShared'
    BY <1>1, <1>5, ReadMoves DEF ReadQueue, Moves
<1>6. ASSUME NEW w \in Worker, OpenTemp(w) PROVE FileInv' /\ WholeUnlessShared'
    <2> SUFFICES ASSUME ~shared' PROVE FileInv' /\ WholeUnlessShared'
        BY DEF FileInv, WholeUnlessShared
    <2>1. PICK n \in TempName, i \in Inode :
             /\ Moves(w, "write", worker[w].event, worker[w].seen, n, i)
             /\ temp' = [temp EXCEPT ![n] = i] /\ content' = [content EXCEPT ![i] = Truncated]
             /\ IF temp[n] = Null THEN i \notin InUse ELSE i = temp[n]
             /\ ~shared /\ Fresh(n)
        BY <1>6, OpenMoves
    <2>2. /\ temp[n] = Null /\ \A v \in Writing : worker[v].name # n
          /\ i # index /\ \A m \in TempName : temp[m] # i
        BY <2>1 DEF Fresh, InUse
    <2>3. UNCHANGED index
        BY <1>6 DEF OpenTemp
    <2>4. temp'[n] = i /\ content'[i] = Truncated /\ i # Null
        BY <2>1, FileAssumption DEF TypeOK
    <2>5. \A v \in Writing' \ {w} :
             /\ v \in Writing /\ worker'[v] = worker[v] /\ worker[v].name # n
             /\ temp'[worker[v].name] = temp[worker[v].name]
             /\ content'[temp[worker[v].name]] = content[temp[worker[v].name]]
        BY <2>1, <2>2, FilesApart DEF Writing, Moves, WorkerInv, TypeOK
    <2>6. worker'[w].pc = "write" /\ worker'[w].name = n /\ worker'[w].file = i
        BY <2>1 DEF Moves
    <2>7. \A u, v \in Writing' : worker'[u].name = worker'[v].name => u = v
        BY <2>1, <2>5, <2>6 DEF FileInv
    <2>8. \A v \in Writing' : temp'[worker'[v].name] # Null
        BY <2>4, <2>5, <2>6, <2>1 DEF FileInv
    <2>9. \A v \in Worker : worker'[v].pc = "write" =>
             temp'[worker'[v].name] = worker'[v].file /\ content'[worker'[v].file].size = 0
        BY <2>1, <2>4, <2>5, <2>6 DEF FileInv, Writing, Truncated
    <2>10. \A v \in Worker : worker'[v].pc = "rename" =>
             content'[temp'[worker'[v].name]].whole /\ content'[temp'[worker'[v].name]].events = worker'[v].seen
        BY <2>1, <2>5, <2>6 DEF FileInv, Writing
    <2>11. index # Null => content'[index].whole
        BY <1>6, LiveFileKept DEF WholeUnlessShared
    <2> QED  BY <2>3, <2>7, <2>8, <2>9, <2>10, <2>11 DEF FileInv, WholeUnlessShared
<1>7. ASSUME NEW w \in Worker, WriteTemp(w) PROVE FileInv' /\ WholeUnlessShared'
    <2> SUFFICES ASSUME ~shared' PROVE FileInv' /\ WholeUnlessShared'
        BY DEF FileInv, WholeUnlessShared
    <2> DEFINE i == worker[w].file
    <2>1. ~shared /\ UNCHANGED <<temp, index>> /\ worker[w].pc = "write" /\ w \in Writing
        BY <1>7 DEF WriteTemp, Writing
    <2>2. i = temp[worker[w].name] /\ i \in Inode /\ i # index /\ content[i].size = 0
        BY <2>1, FilesApart DEF FileInv
    <2>3. content' = [content EXCEPT ![i] = Overwritten(content[i], worker[w].seen)]
        BY <1>7 DEF WriteTemp
    <2>4. content'[i].whole /\ content'[i].events = worker[w].seen
        BY <2>2, <2>3, WorkerTypes, OverwrittenFacts DEF TypeOK
    <2> HIDE DEF i
    <2>5. Moves(w, "rename", worker[w].event, worker[w].seen, worker[w].name, Null)
        BY <1>7, WriteMoves
    <2>6. \A v \in Writing' : v \in Writing /\ worker'[v].name = worker[v].name
        BY <2>1, <2>5 DEF Writing, Moves
    <2>7. \A v \in Writing \ {w} :
             /\ worker'[v] = worker[v]
             /\ content'[temp[worker[v].name]] = content[temp[worker[v].name]]
             /\ worker[v].pc = "write" => worker[v].file = temp[worker[v].name]
        BY <2>1, <2>2, <2>3, <2>5, FilesApart DEF Moves, Writing, TypeOK
    <2>8. \A u, v \in Writing' : worker'[u].name = worker'[v].name => u = v
        BY <2>1, <2>6 DEF FileInv
    <2>9. \A v \in Writing' : temp'[worker'[v].name] # Null
        BY <2>1, <2>6 DEF FileInv
    <2>10. \A v \in Worker : worker'[v].pc = "write" =>
             temp'[worker'[v].name] = worker'[v].file /\ content'[worker'[v].file].size = 0
        BY <2>1, <2>5, <2>7 DEF FileInv, Writing, Moves
    <2>11. \A v \in Worker : worker'[v].pc = "rename" =>
             content'[temp'[worker'[v].name]].whole /\ content'[temp'[worker'[v].name]].events = worker'[v].seen
        BY <2>1, <2>2, <2>4, <2>5, <2>7 DEF FileInv, Writing, Moves
    <2>12. index # Null => content'[index].whole
        BY <1>7, LiveFileKept DEF WholeUnlessShared
    <2> QED  BY <2>1, <2>8, <2>9, <2>10, <2>11, <2>12 DEF FileInv, WholeUnlessShared
<1>8. ASSUME NEW w \in Worker, Publish(w) PROVE FileInv' /\ WholeUnlessShared'
    <2> DEFINE i == temp[worker[w].name]
    <2>1. /\ worker[w].pc = "rename" /\ w \in Writing /\ worker[w].name \in TempName /\ i \in Inode
          /\ index' = i /\ temp' = [temp EXCEPT ![worker[w].name] = Null] /\ UNCHANGED shared
        BY <1>8 DEF Publish, Writing, WorkerInv, TypeOK
    <2>2. Moves(w, "idle", Null, {}, Null, Null)
        BY <1>8, AnswerMoves DEF Publish
    <2>3. \A j \in Inode : j \in InUse' => content'[j] = content[j]
        BY <1>8 DEF Publish, Reclaim
    <2>4. \A m \in TempName : temp'[m] \in InUse'
        BY DEF InUse
    <2> HIDE DEF i
    <2>5. ASSUME NEW v \in Worker, ~shared, worker'[v].pc \in {"write", "rename"}
          PROVE  /\ worker'[v] = worker[v] /\ temp'[worker[v].name] = temp[worker[v].name]
                 /\ content'[temp[worker[v].name]] = content[temp[worker[v].name]]
        <3>1. v # w /\ worker'[v] = worker[v] /\ v \in Writing
            BY <2>2, <2>5 DEF Moves, Writing
        <3>2. worker[v].name \in TempName /\ worker[v].name # worker[w].name
            BY <2>1, <2>5, <3>1, FilesApart DEF WorkerInv, Writing
        <3>3. temp'[worker[v].name] = temp[worker[v].name]
            BY <2>1, <3>2 DEF TypeOK
        <3>4. temp[worker[v].name] \in Inode
            BY <2>5, <3>1, FilesApart
        <3> QED  BY <3>1, <3>2, <3>3, <3>4, <2>3, <2>4
    <2>6. FileInv'
        BY <2>1, <2>5, FileKept
    <2>7. WholeUnlessShared'
        <3>1. content'[i] = content[i]
            BY <2>1, <2>3 DEF InUse
        <3>2. ~shared => content[i].whole
            BY <2>1 DEF FileInv, i
        <3> QED  BY <2>1, <3>1, <3>2 DEF WholeUnlessShared
    <2> QED  BY <2>6, <2>7
<1>9. ASSUME NEW w \in Worker, NothingToRename(w) PROVE FileInv' /\ WholeUnlessShared'
    BY <1>1, <1>9, AnswerMoves DEF NothingToRename, Moves
<1>10. ASSUME NEW w \in Worker, RebuildFails(w) PROVE FileInv' /\ WholeUnlessShared'
    <2>1. UNCHANGED <<temp, index, shared>> /\ Moves(w, "idle", Null, {}, Null, Null)
        BY <1>10, AnswerMoves DEF RebuildFails
    <2>2. CASE worker[w].pc # "write"
        BY <1>1, <1>10, <2>1, <2>2 DEF RebuildFails, Moves
    <2>3. CASE worker[w].pc = "write"
        <3>1. w \in Writing /\ worker[w].file \in Inode
              /\ content' = [content EXCEPT ![worker[w].file] = CutShort(content[worker[w].file])]
            BY <1>10, <2>3 DEF RebuildFails, Writing, WorkerInv
        <3>2. ASSUME NEW v \in Worker, ~shared, worker'[v].pc \in {"write", "rename"}
              PROVE  worker'[v] = worker[v] /\ content'[temp[worker[v].name]] = content[temp[worker[v].name]]
            <4>1. v # w /\ worker'[v] = worker[v] /\ v \in Writing
                BY <2>1, <3>2 DEF Moves, Writing
            <4>2. temp[worker[v].name] \in Inode /\ temp[worker[v].name] # worker[w].file
                BY <2>3, <3>1, <3>2, <4>1, FilesApart
            <4> QED  BY <3>1, <4>1, <4>2 DEF TypeOK
        <3>3. FileInv'
            BY <2>1, <3>2, FileKept
        <3>4. WholeUnlessShared'
            BY <1>10, LiveFileKept DEF WholeUnlessShared
        <3> QED  BY <3>3, <3>4
    <2> QED  BY <2>2, <2>3
<1>11. ASSUME NEW process \in SUBSET Worker, Crash(process) PROVE FileInv' /\ WholeUnlessShared'
    BY <1>1, <1>11 DEF Crash, Idle
<1>12. ASSUME UNCHANGED vars PROVE FileInv' /\ WholeUnlessShared'
    BY <1>1, <1>12 DEF vars
<1> QED
    BY <1>2, <1>3, <1>4, <1>5, <1>6, <1>7, <1>8, <1>9, <1>10, <1>11, <1>12 DEF Next, Worker

-----------------------------------------------------------------------------
(* What was answered as indexed is searchable. *)

(* An event that is appended is nobody's yet. *)
LEMMA NewEventIsNew ==
    ASSUME IInv, NEW e \in Event, NEW kind \in {"line", "cut", "bare"}, Extend(e, kind)
    PROVE  /\ indexed \cap Readable(queue') \subseteq Readable(queue)
           /\ \A w \in Worker : {worker[w].event} \cap Readable(queue') \subseteq Readable(queue)
<1>1. e \notin Appended(queue) /\ Readable(queue') \subseteq Readable(queue) \cup {e}
    BY ExtendFacts DEF IInv
<1>2. indexed \subseteq Appended(queue) /\ \A w \in Worker : worker[w].event \in Appended(queue) \cup {Null}
    BY QueueSets DEF IInv, QueueInv, TypeOK
<1>3. e # Null
    BY EventAssumption
<1> QED  BY <1>1, <1>2, <1>3

(* A step in which no rebuild begins or reads, and no rebuild under way is *)
(* owed more than it was, keeps AloneInv.                                  *)
LEMMA AloneKept ==
    ASSUME IInv, UNCHANGED overlapped, ~overlapped => ~shared',
           \A v \in Worker : ~overlapped /\ worker'[v].pc \in {"open", "write", "rename"} =>
               /\ v \in Rebuilding
               /\ worker'[v].event = worker[v].event /\ worker'[v].seen = worker[v].seen
               /\ ((indexed' \cup {worker[v].event}) \cap Readable(queue'))
                      \subseteq ((indexed \cup {worker[v].event}) \cap Readable(queue))
    PROVE  AloneInv'
<1> SUFFICES ASSUME ~overlapped PROVE AloneInv'
    BY DEF AloneInv
<1>1. \A v \in Rebuilding' : v \in Worker /\ v \in Rebuilding /\ worker'[v].pc \in {"open", "write", "rename"}
    BY DEF Rebuilding
<1>2. \A v, w \in Rebuilding' : v = w
    BY <1>1 DEF IInv, AloneInv
<1>3. \A v \in Rebuilding' : ((indexed' \cup {worker'[v].event}) \cap Readable(queue')) \subseteq worker'[v].seen
    BY <1>1 DEF IInv, AloneInv
<1> QED  BY <1>2, <1>3 DEF AloneInv

(* A step that changes neither the live index nor what was answered.       *)
LEMMA SearchKept ==
    ASSUME IInv, UNCHANGED <<overlapped, index, indexed>>,
           indexed \cap Readable(queue') \subseteq Readable(queue),
           ~overlapped /\ index # Null => content'[index] = content[index]
    PROVE  IndexedStaysSearchable'
<1> SUFFICES ASSUME ~overlapped PROVE (indexed \cap Readable(queue')) \subseteq Searchable'
    BY DEF IndexedStaysSearchable
<1>1. Searchable' = Searchable
    BY DEF Searchable, IndexReadable
<1> QED  BY <1>1 DEF IInv, IndexedStaysSearchable

(* Every step keeps both. *)
LEMMA AloneNext ==
    ASSUME IInv, [Next]_vars
    PROVE  AloneInv' /\ IndexedStaysSearchable'
<1> USE DEF IInv
<1>0. ~overlapped => ~shared
    BY DEF AloneInv
<1>1. ASSUME NEW h \in Handler, NEW e \in Event, Ingest(h, e) PROVE AloneInv' /\ IndexedStaysSearchable'
    <2>1. Extend(e, "line") /\ UNCHANGED <<overlapped, shared, index, indexed, content>> /\ Moves(h, "read", e, {}, Null, Null)
        BY <1>1, IngestMoves DEF Ingest
    <2>2. AloneInv'
        BY <1>0, <2>1, NewEventIsNew, AloneKept DEF Moves, Rebuilding
    <2> QED  BY <2>1, <2>2, NewEventIsNew, SearchKept
<1>2. ASSUME NEW e \in Event, MailWebhook(e) \/ AppendFails(e) PROVE AloneInv' /\ IndexedStaysSearchable'
    <2>1. UNCHANGED <<worker, overlapped, shared, index, indexed, content>>
        BY <1>2 DEF MailWebhook, AppendFails
    <2>2. PICK kind \in {"line", "cut", "bare"} : Extend(e, kind)
        BY <1>2 DEF MailWebhook, AppendFails
    <2>3. AloneInv'
        BY <1>0, <2>1, <2>2, NewEventIsNew, AloneKept DEF Rebuilding
    <2> QED  BY <2>1, <2>2, <2>3, NewEventIsNew, SearchKept
<1>3. ASSUME NEW s \in Script, StartScript(s) PROVE AloneInv' /\ IndexedStaysSearchable'
    <2>1. UNCHANGED <<queue, overlapped, shared, index, indexed, content>> /\ Moves(s, "read", Null, {}, Null, Null)
        BY <1>3, ScriptMoves DEF StartScript
    <2>2. AloneInv'
        BY <1>0, <2>1, AloneKept DEF Moves, Rebuilding
    <2> QED  BY <2>1, <2>2, SearchKept
<1>4. ASSUME NEW w \in Worker, ReadQueue(w) PROVE AloneInv' /\ IndexedStaysSearchable'
    <2>1. /\ UNCHANGED <<queue, shared, index, indexed, content>> /\ overlapped' = (overlapped \/ Rebuilding # {})
          /\ Moves(w, "open", worker[w].event, Readable(queue), worker[w].name, worker[w].file)
        BY <1>4, ReadMoves DEF ReadQueue
    <2> SUFFICES ASSUME ~overlapped' PROVE AloneInv' /\ IndexedStaysSearchable'
        BY DEF AloneInv, IndexedStaysSearchable
    <2>2. ~overlapped /\ UNCHANGED overlapped /\ Rebuilding = {}
        BY <2>1 DEF TypeOK
    <2>3. \A v \in Rebuilding' : v = w
        BY <2>1, <2>2 DEF Rebuilding, Moves
    <2>4. AloneInv'
        BY <1>0, <2>1, <2>2, <2>3 DEF AloneInv, Moves
    <2> QED  BY <2>1, <2>2, <2>4, SearchKept
<1>5. ASSUME NEW w \in Worker, OpenTemp(w) \/ WriteTemp(w) PROVE AloneInv' /\ IndexedStaysSearchable'
    <2>1. UNCHANGED <<queue, overlapped, index, indexed>>
        BY <1>5 DEF OpenTemp, WriteTemp
    <2>2. ~overlapped => ~shared'
        BY <1>0, <1>5, OpenMoves DEF WriteTemp
    <2>3. /\ worker'[w].event = worker[w].event /\ worker'[w].seen = worker[w].seen /\ w \in Rebuilding
          /\ \A v \in Worker \ {w} : worker'[v] = worker[v]
        BY <1>5, OpenMoves, WriteMoves DEF Moves, OpenTemp, WriteTemp, Rebuilding
    <2>4. AloneInv'
        BY <2>1, <2>2, <2>3, AloneKept DEF Rebuilding
    <2>5. ~overlapped /\ index # Null => content'[index] = content[index]
        BY <1>5, <2>2, LiveFileKept
    <2> QED  BY <2>1, <2>4, <2>5, SearchKept
<1>6. ASSUME NEW w \in Worker, Publish(w) PROVE AloneInv' /\ IndexedStaysSearchable'
    <2>1. /\ worker[w].pc = "rename" /\ w \in Rebuilding /\ w \in Writing /\ index' = temp[worker[w].name] /\ index' # Null
          /\ UNCHANGED <<queue, overlapped, shared>> /\ Moves(w, "idle", Null, {}, Null, Null)
          /\ indexed' \subseteq indexed \cup {worker[w].event}
        BY <1>6, AnswerMoves, AnswerFacts DEF Publish, Rebuilding, Writing
    <2>2. AloneInv'
        <3>1. ASSUME NEW v \in Worker, ~overlapped PROVE worker'[v].pc \notin {"open", "write", "rename"}
            BY <2>1, <3>1 DEF AloneInv, Moves, Rebuilding
        <3> QED  BY <1>0, <2>1, <3>1, AloneKept
    <2>3. IndexedStaysSearchable'
        <3> SUFFICES ASSUME ~overlapped PROVE (indexed' \cap Readable(queue)) \subseteq Searchable'
            BY <2>1 DEF IndexedStaysSearchable
        <3>1. index' \in Inode /\ content'[index'] = content[index']
            BY <1>6, <2>1, <1>0, FilesApart DEF Publish, Reclaim, InUse
        <3>2. content[index'].whole /\ content[index'].events = worker[w].seen
            BY <1>0, <2>1 DEF FileInv
        <3>3. Searchable' = worker[w].seen
            BY <2>1, <3>1, <3>2 DEF Searchable, IndexReadable
        <3> QED  BY <2>1, <3>3 DEF AloneInv
    <2> QED  BY <2>2, <2>3
<1>7. ASSUME NEW w \in Worker, NothingToRename(w) \/ RebuildFails(w) PROVE AloneInv' /\ IndexedStaysSearchable'
    <2>1. UNCHANGED <<queue, overlapped, shared, index>> /\ Answer(w, FALSE)
        BY <1>7 DEF NothingToRename, RebuildFails
    <2>2. indexed' = indexed /\ Moves(w, "idle", Null, {}, Null, Null)
        BY <2>1, AnswerMoves, AnswerFacts
    <2>3. AloneInv'
        BY <1>0, <2>1, <2>2, AloneKept DEF Moves, Rebuilding
    <2>4. ~overlapped /\ index # Null => content'[index] = content[index]
        BY <1>0, <1>7, <2>1, LiveFileKept DEF NothingToRename
    <2> QED  BY <2>1, <2>2, <2>3, <2>4, SearchKept
<1>8. ASSUME NEW process \in SUBSET Worker, Crash(process) PROVE AloneInv' /\ IndexedStaysSearchable'
    <2>1. UNCHANGED <<queue, overlapped, shared, index, indexed, content>>
        BY <1>8 DEF Crash
    <2>2. \A v \in Worker : worker'[v].pc \in {"open", "write", "rename"} => worker'[v] = worker[v]
        BY <1>8 DEF Crash, Idle
    <2>3. AloneInv'
        BY <1>0, <2>1, <2>2, AloneKept DEF Rebuilding
    <2> QED  BY <2>1, <2>3, SearchKept
<1>9. ASSUME UNCHANGED vars PROVE AloneInv' /\ IndexedStaysSearchable'
    <2>1. AloneInv'
        BY <1>9 DEF vars, AloneInv, Rebuilding
    <2> QED  BY <1>9, <2>1, SearchKept DEF vars
<1> QED
    BY <1>1, <1>2, <1>3, <1>4, <1>5, <1>6, <1>7, <1>8, <1>9 DEF Next, Worker

-----------------------------------------------------------------------------
(* The theorems. *)

(* The inductive invariant holds initially. *)
LEMMA InvInit == Init => IInv
<1> SUFFICES ASSUME Init PROVE IInv
    OBVIOUS
<1>1. queue \in Seq(Piece) /\ DOMAIN queue = {}
    BY DEF Init
<1>2. Idle \in WorkerState /\ Truncated \in Content
    BY DEF Idle, WorkerState, Truncated, Content
<1>3. TypeOK
    <2>1. worker \in [Worker -> WorkerState] /\ content \in [Inode -> Content]
        BY <1>2 DEF Init
    <2>2. 0 \in 0..MaxFaults
        BY FaultAssumption
    <2> QED  BY <1>1, <2>1, <2>2 DEF Init, TypeOK
<1>4. DirectoryInv /\ WorkerInv /\ FileInv /\ WholeUnlessShared
    BY DEF Init, Idle, DirectoryInv, WorkerInv, FileInv, WholeUnlessShared, Writing
<1>5. AloneInv /\ IndexedStaysSearchable
    BY DEF Init, Idle, AloneInv, IndexedStaysSearchable, Rebuilding
<1>6. QueueInv
    <2>1. Bad(queue) = {}
        BY <1>1 DEF Bad
    <2>2. Cardinality(Bad(queue)) = 0
        BY <2>1, FS_EmptySet
    <2> QED  BY <2>2 DEF Init, Idle, Truncated, QueueInv
<1> QED  BY <1>3, <1>4, <1>5, <1>6 DEF IInv

(* The inductive invariant holds in every reachable state. *)
THEOREM Invariance == Spec => []IInv
<1>1. IInv /\ [Next]_vars => IInv'
    BY TypeNext, DirectoryNext, WorkerNext, FileNext, AloneNext, QueueNext DEF IInv
<1> QED  BY InvInit, <1>1, PTL DEF Spec

(* Types, and that answers are about appended events. *)
THEOREM TypeCorrect == Spec => []TypeOK
<1>1. IInv => TypeOK
    BY DEF IInv
<1> QED  BY <1>1, Invariance, PTL

(* No search reads a half-written index, whatever fails or crashes, unless *)
(* two rebuilds wrote under one temporary name.                            *)
THEOREM IndexIsWhole == Spec => []WholeUnlessShared
<1>1. IInv => WholeUnlessShared
    BY DEF IInv
<1> QED  BY <1>1, Invariance, PTL

(* An event whose ingest was answered indexed: true stays searchable, as   *)
(* long as its line parses and no two rebuilds overlapped.                 *)
THEOREM AnsweredIsSearchable == Spec => []IndexedStaysSearchable
<1>1. IInv => IndexedStaysSearchable
    BY DEF IInv
<1> QED  BY <1>1, Invariance, PTL

(* At most one acknowledged event is lost to rebuilds for each append that *)
(* failed.                                                                 *)
THEOREM LossIsBounded == Spec => []LossBoundedByFaults
<1>1. IInv => LossBoundedByFaults
    <2> SUFFICES ASSUME IInv PROVE Cardinality(acked \ Readable(queue)) <= faults
        BY DEF LossBoundedByFaults
    <2>1. queue \in Seq(Piece) /\ acked \in SUBSET Lines(queue)
        BY DEF IInv, TypeOK, QueueInv
    <2>2. Cardinality(acked \ Readable(queue)) <= Cardinality(Bad(queue)) /\ Cardinality(Bad(queue)) \in Nat
        BY <2>1, LostBehindBad, QueueSets
    <2>3. IsFiniteSet(acked \ Readable(queue))
        <3>1. (acked \ Readable(queue)) \in SUBSET Event
            BY <2>1, QueueSets
        <3> QED  BY <3>1, EventAssumption, FS_Subset
    <2>4. Cardinality(acked \ Readable(queue)) \in Nat
        BY <2>3, FS_CardinalityType
    <2>5. Cardinality(Bad(queue)) <= faults /\ faults \in Nat
        BY FaultAssumption DEF IInv, TypeOK, QueueInv
    <2> QED  BY <2>2, <2>4, <2>5
<1> QED  BY <1>1, Invariance, PTL

(* Nothing of which the queue holds only a part is ever searchable.        *)
THEOREM NothingPartial == Spec => []NoPartialEventIndexed
<1>1. IInv => NoPartialEventIndexed
    <2> SUFFICES ASSUME IInv, NEW e \in Searchable
                 PROVE  \E i \in DOMAIN queue : queue[i].event = e /\ queue[i].kind # "cut"
        BY DEF NoPartialEventIndexed
    <2>1. index \in Inode /\ e \in content[index].events
        BY DEF IInv, TypeOK, Searchable, IndexReadable
    <2>2. e \in Good(queue)
        BY <2>1 DEF IInv, QueueInv
    <2> QED  BY <2>2 DEF Good
<1> QED  BY <1>1, Invariance, PTL

----------------------------------------------------------------------------

(***************************************************************************)
(* MemorySearch.                                                           *)
(*                                                                         *)
(* The argument: a definition by recursion over metadata has a meaning,    *)
(* because what a value holds is nested less deep (RecursionOverDepth).    *)
(* Hence the server's text of a value and the script's obey one equation   *)
(* that has one solution (SearchTextUnique), and by induction over the     *)
(* depth values that are alike have one text (AlikeSameText).  The index   *)
(* always has the entries of the oldest stored events (SearchInv).  The    *)
(* comparison of the sort is a strict order of the hits, so each place     *)
(* up to their number is that of one hit (Ranks), and a hit that is not    *)
(* returned has as many better ones before it as were asked for.           *)
(***************************************************************************)

(***************************************************************************)
(* Recursive functions.                                                    *)
(***************************************************************************)

\* What holds of a value whenever it holds of all values nested less deep
\* holds of every value.
LEMMA DepthInduction ==
    ASSUME NEW S, NEW d \in [S -> Nat], NEW P,
           \A v \in S : (\A w \in S : d[w] < d[v] => w \in P) => v \in P
    PROVE  S \subseteq P
<1> DEFINE Order == {p \in Nat \X Nat : p[1] < p[2]}
           Depths == {d[v] : v \in S \ P}
<1>1. IsWellFoundedOn(Order, Nat)
    BY NatLessThanWellFounded DEF OpToRel
<1> SUFFICES ASSUME NEW x \in S, x \notin P
             PROVE  FALSE
    OBVIOUS
<1>2. Depths \subseteq Nat /\ d[x] \in Depths
    OBVIOUS
<1>3. PICK n \in Depths : \A m \in Depths : <<m, n>> \notin Order
  <2> HIDE DEF Order, Depths
  <2> QED  BY <1>1, <1>2, WFMin
<1>4. PICK v \in S \ P : d[v] = n
    OBVIOUS
<1>5. ASSUME NEW w \in S, d[w] < d[v]
      PROVE  w \in P
  <2>1. d[w] \in Nat /\ <<d[w], n>> \in Order
      BY <1>4, <1>5
  <2>2. d[w] \notin Depths
      BY <1>3, <2>1
  <2> QED  BY <2>2
<1> QED  BY <1>4, <1>5

\* F computes a member of T for v from what g says of values nested less deep.
Recursive(S, T, d, F) ==
    /\ T # {} /\ d \in [S -> Nat]
    /\ F \in [S \X [S -> T] -> T]
    /\ \A v \in S, g, h \in [S -> T] : (\A w \in S : d[w] < d[v] => g[w] = h[w]) => F[<<v, g>>] = F[<<v, h>>]

\* A function may be defined from its values at arguments nested less deep.
LEMMA RecursionOverDepth ==
    ASSUME NEW S, NEW T, NEW d, NEW F, Recursive(S, T, d, F)
    PROVE  \E f \in [S -> T] : \A v \in S : f[v] = F[<<v, f>>]
<1> USE DEF Recursive
<1> PICK t \in T : TRUE
    OBVIOUS
<1> DEFINE Below(n) == {g \in [S -> T] : \A v \in S : d[v] < n => g[v] = F[<<v, g>>]}
<1>1. ASSUME NEW n \in Nat, NEW m \in Nat, NEW g \in Below(n), NEW h \in Below(m)
      PROVE  \A v \in S : d[v] < n /\ d[v] < m => g[v] = h[v]
  <2> DEFINE P == {v \in S : d[v] < n /\ d[v] < m => g[v] = h[v]}
  <2>1. ASSUME NEW v \in S, \A w \in S : d[w] < d[v] => w \in P
        PROVE  v \in P
    <3> SUFFICES ASSUME d[v] < n, d[v] < m
                 PROVE  g[v] = h[v]
        OBVIOUS
    <3>1. \A w \in S : d[w] < d[v] => g[w] = h[w]
        BY <2>1
    <3>2. F[<<v, g>>] = F[<<v, h>>]
        BY <3>1
    <3> QED  BY <3>2
  <2> HIDE DEF P
  <2>2. S \subseteq P
      BY <2>1, DepthInduction
  <2> QED  BY <2>2 DEF P
<1>2. \A n \in Nat : Below(n) # {}
  <2> DEFINE P == {n \in Nat : Below(n) # {}}
             id == [n \in Nat |-> n]
  <2>1. ASSUME NEW n \in Nat, \A m \in Nat : id[m] < id[n] => m \in P
        PROVE  n \in P
    <3>1. CASE n = 0
      <4>1. [v \in S |-> t] \in Below(0)
          OBVIOUS
      <4> QED  BY <3>1, <4>1
    <3>2. CASE n > 0
      <4>1. n - 1 \in Nat /\ n - 1 \in P
        <5>1. n - 1 \in Nat /\ id[n - 1] < id[n]
          <6>1. n - 1 \in Nat /\ n - 1 < n
              BY <3>2
          <6> QED  BY <6>1
        <5> HIDE DEF P, id
        <5> QED  BY <2>1, <5>1
      <4>2. PICK g : g \in Below(n - 1)
          BY <4>1
      <4> DEFINE h == [v \in S |-> F[<<v, g>>]]
      <4>3. h \in [S -> T]
          BY <4>2
      <4>4. ASSUME NEW v \in S, d[v] < n
            PROVE  h[v] = F[<<v, h>>]
        <5>1. \A w \in S : d[w] < d[v] => g[w] = h[w]
            BY <4>1, <4>2, <4>4
        <5>2. F[<<v, g>>] = F[<<v, h>>]
            BY <4>2, <4>3, <5>1
        <5> QED  BY <5>2
      <4>5. h \in Below(n)
          BY <4>3, <4>4
      <4> QED  BY <4>5
    <3>3. n = 0 \/ n > 0
      <4> HIDE DEF P, id
      <4> QED  OBVIOUS
    <3> QED  BY <3>1, <3>2, <3>3
  <2>2. id \in [Nat -> Nat]
      OBVIOUS
  <2> HIDE DEF P, id
  <2>3. Nat \subseteq P
      BY <2>1, <2>2, DepthInduction
  <2> QED  BY <2>3 DEF P
<1> DEFINE G(n) == CHOOSE g : g \in Below(n)
           f == [v \in S |-> G(d[v] + 1)[v]]
<1>3. \A n \in Nat : G(n) \in Below(n)
  <2> HIDE DEF Below
  <2> QED  BY <1>2
<1>4. f \in [S -> T]
  <2>1. \A v \in S : d[v] + 1 \in Nat
      OBVIOUS
  <2>2. \A v \in S : G(d[v] + 1) \in [S -> T]
    <3> HIDE DEF G
    <3> QED  BY <1>3, <2>1
  <2> HIDE DEF G
  <2> QED  BY <2>2
<1>5. ASSUME NEW v \in S
      PROVE  f[v] = F[<<v, f>>]
  <2> DEFINE n == d[v] + 1
  <2> HIDE DEF G
  <2>1. n \in Nat /\ d[v] < n
      OBVIOUS
  <2>2a. G(n) \in Below(n)
      BY <1>3, <2>1
  <2>2. \A w \in S : d[w] < d[v] => f[w] = G(n)[w]
    <3> SUFFICES ASSUME NEW w \in S, d[w] < d[v]
                 PROVE  G(d[w] + 1)[w] = G(n)[w]
        OBVIOUS
    <3>1. d[w] + 1 \in Nat /\ G(d[w] + 1) \in Below(d[w] + 1)
      <4>1. d[w] + 1 \in Nat
          OBVIOUS
      <4> HIDE DEF Below
      <4> QED  BY <1>3, <4>1
    <3>2. d[w] < n
        BY <2>1
    <3> HIDE DEF Below, n
    <3> QED  BY <1>1, <2>1, <2>2a, <3>1, <3>2
  <2>3. F[<<v, G(n)>>] = F[<<v, f>>]
      BY <1>4, <2>2, <2>2a
  <2>4. f[v] = G(n)[v]
      OBVIOUS
  <2>5. G(n)[v] = F[<<v, G(n)>>]
      BY <2>1, <2>2a
  <2> QED  BY <2>3, <2>4, <2>5
<1> QED  BY <1>4, <1>5

(***************************************************************************)
(* Flattened sequences.                                                    *)
(***************************************************************************)

\* The equations that define FlattenSeq.
LEMMA FlattenEquations ==
    ASSUME NEW T, NEW ss \in Seq(Seq(T)), Len(ss) # 0
    PROVE  \E f \in [1..Len(ss) -> Seq(T)] :
              /\ FlattenSeq(ss) = f[Len(ss)]
              /\ \A i \in 1..Len(ss) : f[i] = IF i = 1 THEN ss[1] ELSE f[i - 1] \o ss[i]
<1> DEFINE S == 1..Len(ss)
           d == [i \in S |-> i]
           F == [p \in S \X [S -> Seq(T)] |-> IF p[1] = 1 THEN ss[1] ELSE p[2][p[1] - 1] \o ss[p[1]]]
           Body(f) == [i \in S |-> IF i = 1 THEN ss[i] ELSE f[i - 1] \o ss[i]]
<1>1. Len(ss) \in Nat \ {0} /\ DOMAIN ss = S /\ \A i \in S : ss[i] \in Seq(T)
    OBVIOUS
<1>2. d \in [S -> Nat] /\ <<>> \in Seq(T)
    OBVIOUS
<1>3. F \in [S \X [S -> Seq(T)] -> Seq(T)]
  <2> SUFFICES ASSUME NEW i \in S, NEW g \in [S -> Seq(T)]
               PROVE  (IF i = 1 THEN ss[1] ELSE g[i - 1] \o ss[i]) \in Seq(T)
      OBVIOUS
  <2>1. CASE i = 1
      BY <1>1, <2>1
  <2>2. CASE i # 1
    <3>1. i - 1 \in S
        BY <1>1, <2>2
    <3>2. g[i - 1] \in Seq(T) /\ ss[i] \in Seq(T)
        BY <1>1, <3>1
    <3> QED  BY <2>2, <3>2, ConcatProperties
  <2> QED  BY <2>1, <2>2
<1>4. ASSUME NEW i \in S, NEW g \in [S -> Seq(T)], NEW h \in [S -> Seq(T)],
             \A j \in S : d[j] < d[i] => g[j] = h[j]
      PROVE  F[<<i, g>>] = F[<<i, h>>]
  <2>1. i # 1 => i - 1 \in S /\ d[i - 1] < d[i]
      BY <1>1
  <2>2. i # 1 => g[i - 1] = h[i - 1]
      BY <1>4, <2>1
  <2> QED  BY <2>2
<1>5. PICK f \in [S -> Seq(T)] : \A i \in S : f[i] = F[<<i, f>>]
  <2>1. Seq(T) # {}
      BY <1>2
  <2>2. Recursive(S, Seq(T), d, F)
    <3> HIDE DEF F, S, d
    <3> QED  BY <1>2, <1>3, <1>4, <2>1 DEF Recursive
  <2> HIDE DEF F, S, d
  <2> QED  BY <2>2, RecursionOverDepth
<1>6. \A i \in S : f[i] = IF i = 1 THEN ss[1] ELSE f[i - 1] \o ss[i]
    BY <1>5
<1>7. f = Body(f)
    BY <1>6
<1> DEFINE flatten == CHOOSE g : g = Body(g)
<1>8. flatten = Body(flatten)
  <2> HIDE DEF Body
  <2> QED  BY <1>7
<1>9. FlattenSeq(ss) = flatten[Len(ss)]
    BY DEF FlattenSeq
<1>10. flatten \in [S -> Seq(T)]
  <2> DEFINE P == {i \in S : flatten[i] \in Seq(T)}
  <2> HIDE DEF flatten
  <2>1. ASSUME NEW i \in S, \A j \in S : d[j] < d[i] => j \in P
        PROVE  i \in P
    <3>1. flatten[i] = IF i = 1 THEN ss[i] ELSE flatten[i - 1] \o ss[i]
        BY <1>8
    <3>2. i # 1 => i - 1 \in S /\ d[i - 1] < d[i]
        BY <1>1
    <3>3. i # 1 => flatten[i - 1] \in Seq(T)
        BY <2>1, <3>2
    <3>4. i # 1 => flatten[i - 1] \o ss[i] \in Seq(T)
        BY <1>1, <3>3, ConcatProperties
    <3> QED  BY <1>1, <3>1, <3>4
  <2>2. S \subseteq P
    <3> HIDE DEF P, S, d
    <3> QED  BY <1>2, <2>1, DepthInduction
  <2>3. DOMAIN flatten = S /\ flatten = [i \in S |-> flatten[i]]
      BY <1>8
  <2> QED  BY <2>2, <2>3
<1>11. \A i \in S : flatten[i] = IF i = 1 THEN ss[1] ELSE flatten[i - 1] \o ss[i]
  <2> HIDE DEF flatten
  <2> QED  BY <1>8
<1> QED
  <2> HIDE DEF flatten
  <2> QED  BY <1>9, <1>10, <1>11

\* A flattened sequence holds what its parts hold.
LEMMA FlattenRange ==
    ASSUME NEW T, NEW ss \in Seq(Seq(T))
    PROVE  /\ FlattenSeq(ss) \in Seq(T)
           /\ Range(FlattenSeq(ss)) = UNION {Range(ss[i]) : i \in DOMAIN ss}
<1>1. CASE Len(ss) = 0
  <2>1. ss = <<>>
      BY <1>1
  <2>2. FlattenSeq(ss) = <<>>
      BY <2>1 DEF FlattenSeq
  <2>3. Range(<<>>) = {} /\ DOMAIN ss = {}
      BY <2>1 DEF Range
  <2>4. UNION {Range(ss[i]) : i \in DOMAIN ss} = {}
      BY <2>3
  <2>5. FlattenSeq(ss) \in Seq(T)
      BY <2>2
  <2> QED  BY <2>2, <2>3, <2>4, <2>5
<1>2. CASE Len(ss) # 0
  <2> DEFINE S == 1..Len(ss)
             d == [i \in S |-> i]
  <2>1. PICK f \in [S -> Seq(T)] :
              /\ FlattenSeq(ss) = f[Len(ss)]
              /\ \A i \in S : f[i] = IF i = 1 THEN ss[1] ELSE f[i - 1] \o ss[i]
      BY <1>2, FlattenEquations
  <2> DEFINE P == {i \in S : Range(f[i]) = UNION {Range(ss[j]) : j \in 1..i}}
  <2>2. ASSUME NEW i \in S, \A j \in S : d[j] < d[i] => j \in P
        PROVE  i \in P
    <3>1. CASE i = 1
      <4>1. f[i] = ss[1] /\ 1..i = {1}
        <5>1. 1..1 = {1}
            OBVIOUS
        <5>2. f[1] = ss[1]
            BY <2>1, <3>1
        <5> QED  BY <3>1, <5>1, <5>2
      <4> HIDE DEF S, d
      <4> QED  BY <4>1
    <3>2. CASE i # 1
      <4>1. i - 1 \in S /\ d[i - 1] < d[i]
          BY <3>2
      <4>2. Range(f[i - 1]) = UNION {Range(ss[j]) : j \in 1..(i - 1)}
          BY <2>2, <4>1
      <4>3. f[i] = f[i - 1] \o ss[i] /\ f[i - 1] \in Seq(T) /\ ss[i] \in Seq(T)
        <5>1. f[i] = f[i - 1] \o ss[i]
            BY <2>1, <3>2
        <5>2. i \in DOMAIN ss
            OBVIOUS
        <5> QED  BY <4>1, <5>1, <5>2
      <4>4. Range(f[i]) = Range(f[i - 1]) \cup Range(ss[i])
          BY <4>3, RangeConcatenation
      <4>5. 1..i = 1..(i - 1) \cup {i}
          BY <4>1
      <4> QED  BY <4>2, <4>4, <4>5
    <3> QED  BY <3>1, <3>2
  <2>3. S \subseteq P
    <3>1. d \in [S -> Nat]
        OBVIOUS
    <3> HIDE DEF P, S, d
    <3> QED  BY <2>2, <3>1, DepthInduction
  <2>4. Len(ss) \in S /\ DOMAIN ss = S
      BY <1>2
  <2> QED  BY <2>1, <2>3, <2>4
<1> QED  BY <1>1, <1>2

\* Flattening the members of a sequence, each on its own, gives the sequence.
LEMMA FlattenSingletons ==
    ASSUME NEW T, NEW s \in Seq(T)
    PROVE  FlattenSeq([i \in DOMAIN s |-> <<s[i]>>]) = s
<1> DEFINE ss == [i \in DOMAIN s |-> <<s[i]>>]
<1>1. ss \in Seq(Seq(T)) /\ Len(ss) = Len(s)
  <2>1. Len(s) \in Nat /\ DOMAIN s = 1..Len(s) /\ \A i \in 1..Len(s) : <<s[i]>> \in Seq(T)
      OBVIOUS
  <2> QED  BY <2>1
<1>2. CASE Len(s) = 0
    BY <1>2 DEF FlattenSeq
<1>3. CASE Len(s) # 0
  <2> DEFINE S == 1..Len(ss)
             d == [i \in S |-> i]
  <2> HIDE DEF ss
  <2>1. PICK f \in [S -> Seq(T)] :
              /\ FlattenSeq(ss) = f[Len(ss)]
              /\ \A i \in S : f[i] = IF i = 1 THEN ss[1] ELSE f[i - 1] \o ss[i]
      BY <1>1, <1>3, FlattenEquations
  <2> DEFINE P == {i \in S : Len(f[i]) = i /\ \A j \in 1..i : f[i][j] = s[j]}
  <2>2. ASSUME NEW i \in S, \A j \in S : d[j] < d[i] => j \in P
        PROVE  i \in P
    <3>1. ss[i] = <<s[i]>> /\ i \in 1..Len(s) /\ Len(s) \in Nat /\ s[i] \in T
        BY <1>1 DEF ss
    <3>2. CASE i = 1
      <4>1. f[i] = <<s[i]>>
          BY <2>1, <3>1, <3>2
      <4> HIDE DEF d, S
      <4>2. Len(f[i]) = 1 /\ f[i][1] = s[1]
          BY <3>2, <4>1
      <4>3. \A j \in 1..i : j = 1
          BY <3>2
      <4> QED  BY <3>2, <4>2, <4>3
    <3>3. CASE i # 1
      <4>1. i - 1 \in S /\ d[i - 1] < d[i]
          BY <1>1, <3>3
      <4>2. f[i - 1] \in Seq(T) /\ Len(f[i - 1]) = i - 1 /\ \A j \in 1..(i - 1) : f[i - 1][j] = s[j]
          BY <2>2, <4>1
      <4>3. f[i] = f[i - 1] \o <<s[i]>>
          BY <2>1, <3>1, <3>3
      <4> HIDE DEF d, S
      <4>4. Len(f[i]) = i /\ \A j \in 1..i : f[i][j] = s[j]
          BY <3>1, <4>2, <4>3
      <4> QED  BY <4>4
    <3> QED  BY <3>2, <3>3
  <2>3. S \subseteq P
    <3>1. d \in [S -> Nat]
        OBVIOUS
    <3> HIDE DEF P, S, d
    <3> QED  BY <2>2, <3>1, DepthInduction
  <2>4. Len(ss) \in S /\ Len(s) \in Nat
      BY <1>1, <1>3
  <2> DEFINE last == f[Len(ss)]
  <2>5. last \in Seq(T) /\ Len(last) = Len(s) /\ \A j \in 1..Len(s) : last[j] = s[j]
      BY <1>1, <2>1, <2>3, <2>4
  <2> HIDE DEF last
  <2>6. last = s
      BY <2>5
  <2> QED  BY <2>1, <2>6 DEF ss, last
<1> QED  BY <1>1, <1>2, <1>3

(***************************************************************************)
(* Texts.                                                                  *)
(***************************************************************************)

\* Without keeps exactly what is not in S.
LEMMA WithoutRange ==
    ASSUME NEW T, NEW s \in Seq(T), NEW S
    PROVE  Without(s, S) \in Seq(T) /\ Range(Without(s, S)) = Range(s) \ S
<1> DEFINE ss == [i \in DOMAIN s |-> IF s[i] \in S THEN <<>> ELSE <<s[i]>>]
<1>1. ss \in Seq(Seq(T)) /\ DOMAIN ss = DOMAIN s
  <2>1. Len(s) \in Nat /\ DOMAIN s = 1..Len(s) /\ \A i \in 1..Len(s) : <<s[i]>> \in Seq(T) /\ <<>> \in Seq(T)
      OBVIOUS
  <2> QED  BY <2>1
<1>2. ASSUME NEW i \in DOMAIN s
      PROVE  Range(ss[i]) = {s[i]} \ S
  <2>1. CASE s[i] \in S
      BY <2>1 DEF Range
  <2>2. CASE s[i] \notin S
    <3>1. DOMAIN <<s[i]>> = {1} /\ <<s[i]>>[1] = s[i]
        OBVIOUS
    <3> QED  BY <2>2, <3>1 DEF Range
  <2> QED  BY <2>1, <2>2
<1> HIDE DEF ss
<1>3. FlattenSeq(ss) \in Seq(T) /\ Range(FlattenSeq(ss)) = UNION {Range(ss[i]) : i \in DOMAIN ss}
    BY <1>1, FlattenRange
<1>4. UNION {Range(ss[i]) : i \in DOMAIN ss} = Range(s) \ S
    BY <1>1, <1>2 DEF Range
<1> QED  BY <1>3, <1>4 DEF Without, ss

\* The search words of a text are those of its words, in any order.
LEMMA NormalizeRange ==
    ASSUME NEW text \in Seq(Word)
    PROVE  /\ normalizeForSearch(text) \in Seq(Term)
           /\ Range(normalizeForSearch(text)) = UNION {Range(normal[w]) : w \in Range(text)}
<1> DEFINE ss == [i \in DOMAIN text |-> normal[text[i]]]
<1>1. ss \in Seq(Seq(Term)) /\ DOMAIN ss = DOMAIN text
  <2>1. Len(text) \in Nat /\ DOMAIN text = 1..Len(text) /\ \A i \in 1..Len(text) : normal[text[i]] \in Seq(Term)
      BY WordAssumption
  <2> QED  BY <2>1
<1>2. UNION {Range(ss[i]) : i \in DOMAIN ss} = UNION {Range(normal[w]) : w \in Range(text)}
    BY <1>1 DEF Range
<1> HIDE DEF ss
<1> QED  BY <1>1, <1>2, FlattenRange DEF normalizeForSearch, ss

\* So are those that a search compares, without the ignored ones.
LEMMA TokenizeRange ==
    ASSUME NEW text \in Seq(Word)
    PROVE  /\ tokenize(text) \in Seq(Term)
           /\ Range(tokenize(text)) = (UNION {Range(normal[w]) : w \in Range(text)}) \ Ignored
BY NormalizeRange, WithoutRange DEF tokenize

\* Events that all can be read back are read back as they are.
LEMMA StoredEventsAll ==
    ASSUME NEW T, NEW events \in Seq(T), \A n \in DOMAIN events : isStoredMemoryEvent(events[n])
    PROVE  StoredEvents(events) = events
<1>1. [n \in DOMAIN events |-> IF isStoredMemoryEvent(events[n]) THEN <<events[n]>> ELSE <<>>]
         = [n \in DOMAIN events |-> <<events[n]>>]
    OBVIOUS
<1> QED  BY <1>1, FlattenSingletons DEF StoredEvents

(***************************************************************************)
(* Metadata.                                                               *)
(***************************************************************************)

\* A value is a scalar, a list of values or an object of keys and values.
LEMMA JsonShapes ==
    ASSUME NEW v \in Json
    PROVE  \/ v = JsonNull /\ v[1] = "null"
           \/ v[1] = "text" /\ v[2] \in Seq(Word)
           \/ v[1] = "list" /\ v[2] \in Seq(Json)
           \/ v[1] = "object" /\ v[2] \in Seq(Key \X Json)
BY JsonAssumption DEF JsonNull

\* What a value holds is a value that is nested less deep.
LEMMA PartsAreLower ==
    ASSUME NEW v \in Json
    PROVE  /\ v[1] = "list" => \A i \in DOMAIN v[2] : v[2][i] \in Json /\ depth[v[2][i]] < depth[v]
           /\ v[1] = "object" => \A i \in DOMAIN v[2] : v[2][i][2] \in Json /\ depth[v[2][i][2]] < depth[v]
<1>1. v[1] = "list" => \A i \in DOMAIN v[2] : v[2][i] \in Json
    BY JsonShapes DEF JsonNull
<1>2. v[1] = "object" => \A i \in DOMAIN v[2] : v[2][i][2] \in Json
    BY JsonShapes DEF JsonNull
<1>3. /\ v[1] = "list" => \A i \in DOMAIN v[2] : depth[v[2][i]] < depth[v]
      /\ v[1] = "object" => \A i \in DOMAIN v[2] : depth[v[2][i][2]] < depth[v]
    BY JsonAssumption DEF isJsonObject
<1> QED  BY <1>1, <1>2, <1>3

\* The search text of a value from the search texts g of its parts.
SearchText(v, g) ==
    IF v[1] = "text" THEN v[2]
    ELSE IF v[1] = "list" THEN FlattenSeq([i \in DOMAIN v[2] |-> g[v[2][i]]])
    ELSE IF v[1] = "object"
         THEN FlattenSeq([i \in DOMAIN v[2] |-> IF v[2][i][1] \in Sensitive THEN <<>> ELSE g[v[2][i][2]]])
    ELSE <<>>

\* It is a text, and depends on no other value.
LEMMA SearchTextOfParts ==
    ASSUME NEW v \in Json, NEW g \in [Json -> Seq(Word)]
    PROVE  /\ SearchText(v, g) \in Seq(Word)
           /\ \A h \in [Json -> Seq(Word)] :
                 (\A w \in Json : depth[w] < depth[v] => g[w] = h[w]) => SearchText(v, g) = SearchText(v, h)
<1>1. CASE v[1] \notin {"list", "object"}
  <2>1. v = JsonNull \/ (v[1] = "text" /\ v[2] \in Seq(Word))
      BY <1>1, JsonShapes
  <2> QED  BY <1>1, <2>1 DEF SearchText, JsonNull
<1>2. CASE v[1] = "list"
  <2> DEFINE texts(h) == [i \in DOMAIN v[2] |-> h[v[2][i]]]
  <2>1. \A h : SearchText(v, h) = FlattenSeq(texts(h))
      BY <1>2 DEF SearchText
  <2>2. texts(g) \in Seq(Seq(Word))
    <3>1. v[2] \in Seq(Json) /\ Len(v[2]) \in Nat /\ DOMAIN v[2] = 1..Len(v[2])
        BY <1>2, JsonShapes DEF JsonNull
    <3>2. \A i \in 1..Len(v[2]) : g[v[2][i]] \in Seq(Word)
        BY <1>2, <3>1, PartsAreLower
    <3> QED  BY <3>1, <3>2
  <2>3. ASSUME NEW h \in [Json -> Seq(Word)], \A w \in Json : depth[w] < depth[v] => g[w] = h[w]
        PROVE  texts(g) = texts(h)
      BY <1>2, <2>3, PartsAreLower
  <2> HIDE DEF texts
  <2> QED  BY <2>1, <2>2, <2>3, FlattenRange
<1>3. CASE v[1] = "object"
  <2> DEFINE texts(h) == [i \in DOMAIN v[2] |-> IF v[2][i][1] \in Sensitive THEN <<>> ELSE h[v[2][i][2]]]
  <2>1. \A h : SearchText(v, h) = FlattenSeq(texts(h))
      BY <1>3 DEF SearchText
  <2>2. texts(g) \in Seq(Seq(Word))
    <3>1. v[2] \in Seq(Key \X Json) /\ Len(v[2]) \in Nat /\ DOMAIN v[2] = 1..Len(v[2])
        BY <1>3, JsonShapes DEF JsonNull
    <3>2. \A i \in 1..Len(v[2]) : g[v[2][i][2]] \in Seq(Word) /\ <<>> \in Seq(Word)
        BY <1>3, <3>1, PartsAreLower
    <3> QED  BY <3>1, <3>2
  <2>3. ASSUME NEW h \in [Json -> Seq(Word)], \A w \in Json : depth[w] < depth[v] => g[w] = h[w]
        PROVE  texts(g) = texts(h)
      BY <1>3, <2>3, PartsAreLower
  <2> HIDE DEF texts
  <2> QED  BY <2>1, <2>2, <2>3, FlattenRange
<1> QED  BY <1>1, <1>2, <1>3

\* There is a function that gives every value the search text of its parts.
LEMMA SearchTextExists ==
    \E f \in [Json -> Seq(Word)] : f = [v \in Json |-> SearchText(v, f)]
<1> DEFINE F == [p \in Json \X [Json -> Seq(Word)] |-> SearchText(p[1], p[2])]
<1>1. F \in [Json \X [Json -> Seq(Word)] -> Seq(Word)]
    BY SearchTextOfParts
<1>2. ASSUME NEW v \in Json, NEW g \in [Json -> Seq(Word)], NEW h \in [Json -> Seq(Word)],
             \A w \in Json : depth[w] < depth[v] => g[w] = h[w]
      PROVE  F[<<v, g>>] = F[<<v, h>>]
    BY <1>2, SearchTextOfParts
<1>3. Recursive(Json, Seq(Word), depth, F)
  <2>1. depth \in [Json -> Nat] /\ Seq(Word) # {}
      BY JsonAssumption, EmptySeq
  <2> HIDE DEF F
  <2> QED  BY <1>1, <1>2, <2>1 DEF Recursive
<1>4. PICK f \in [Json -> Seq(Word)] : \A v \in Json : f[v] = F[<<v, f>>]
  <2> HIDE DEF F
  <2> QED  BY <1>3, RecursionOverDepth
<1>5. \A v \in Json : f[v] = SearchText(v, f)
    BY <1>4
<1> QED  BY <1>5

\* Functions with that property are equal.
LEMMA SearchTextUnique ==
    ASSUME NEW f, NEW g, \A v \in Json : f[v] = SearchText(v, f), \A v \in Json : g[v] = SearchText(v, g)
    PROVE  \A v \in Json : f[v] = g[v]
<1> DEFINE P == {v \in Json : f[v] = g[v]}
<1>1. ASSUME NEW v \in Json, \A w \in Json : depth[w] < depth[v] => w \in P
      PROVE  v \in P
  <2>1. SearchText(v, f) = SearchText(v, g)
      BY <1>1, PartsAreLower DEF SearchText
  <2> QED  BY <2>1
<1>2. depth \in [Json -> Nat]
    BY JsonAssumption
<1> HIDE DEF P
<1>3. Json \subseteq P
    BY <1>1, <1>2, DepthInduction
<1> QED  BY <1>3 DEF P

ServerText == [v \in Json |-> jsonValueToSearchText(v)]
ScriptText == [v \in Json |-> scriptSearchText(v)]

\* The server computes that function.
LEMMA ServerSearchText ==
    \A v \in Json : ServerText[v] = SearchText(v, ServerText)
<1> DEFINE Body(f) ==
               [v \in Json |->
                   IF v[1] = "text" THEN v[2]
                   ELSE IF v[1] = "list" THEN FlattenSeq([i \in DOMAIN v[2] |-> f[v[2][i]]])
                   ELSE IF v[1] = "object"
                        THEN FlattenSeq([i \in DOMAIN v[2] |-> IF v[2][i][1] \in Sensitive THEN <<>> ELSE f[v[2][i][2]]])
                   ELSE <<>>]
           chosen == CHOOSE f : f = Body(f)
<1>1. \E f : f = Body(f)
    BY SearchTextExists DEF SearchText
<1>2. chosen = Body(chosen)
  <2> HIDE DEF Body
  <2> QED  BY <1>1
<1>3. \A v : jsonValueToSearchText(v) = chosen[v]
    BY DEF jsonValueToSearchText
<1>4. ServerText = chosen
  <2> HIDE DEF chosen
  <2> QED  BY <1>2, <1>3 DEF ServerText
<1> HIDE DEF chosen
<1> QED  BY <1>2, <1>4 DEF SearchText

\* So does the script.
LEMMA ScriptSearchText ==
    \A v \in Json : ScriptText[v] = SearchText(v, ScriptText)
<1> DEFINE Body(f) ==
               [v \in Json |->
                   IF v[1] = "text" THEN v[2]
                   ELSE IF v[1] = "list" THEN FlattenSeq([i \in DOMAIN v[2] |-> f[v[2][i]]])
                   ELSE IF isJsonObject(v)
                        THEN FlattenSeq([i \in DOMAIN v[2] |-> IF v[2][i][1] \notin Sensitive THEN f[v[2][i][2]] ELSE <<>>])
                   ELSE <<>>]
           chosen == CHOOSE f : f = Body(f)
<1>1. ASSUME NEW f
      PROVE  Body(f) = [v \in Json |-> SearchText(v, f)]
  <2> SUFFICES ASSUME NEW v \in Json
               PROVE  Body(f)[v] = SearchText(v, f)
      OBVIOUS
  <2>1. [i \in DOMAIN v[2] |-> IF v[2][i][1] \notin Sensitive THEN f[v[2][i][2]] ELSE <<>>]
           = [i \in DOMAIN v[2] |-> IF v[2][i][1] \in Sensitive THEN <<>> ELSE f[v[2][i][2]]]
      OBVIOUS
  <2> QED  BY <2>1 DEF SearchText, isJsonObject
<1>2. \E f : f = Body(f)
  <2> HIDE DEF Body
  <2> QED  BY <1>1, SearchTextExists
<1>3. chosen = Body(chosen)
  <2> HIDE DEF Body
  <2> QED  BY <1>2
<1>4. \A v : scriptSearchText(v) = chosen[v]
    BY DEF scriptSearchText
<1>5. ScriptText = chosen
  <2> HIDE DEF chosen
  <2> QED  BY <1>3, <1>4 DEF ScriptText
<1> HIDE DEF chosen, Body
<1> QED  BY <1>1, <1>3, <1>5

\* Both give every value the same text.
LEMMA SearchTexts ==
    \A v \in Json : jsonValueToSearchText(v) \in Seq(Word) /\ scriptSearchText(v) = jsonValueToSearchText(v)
<1>1. PICK f \in [Json -> Seq(Word)] : f = [v \in Json |-> SearchText(v, f)]
    BY SearchTextExists
<1>2. \A v \in Json : f[v] = SearchText(v, f)
    BY <1>1
<1>3. \A v \in Json : ServerText[v] = f[v] /\ ScriptText[v] = f[v]
    BY <1>2, SearchTextUnique, ServerSearchText, ScriptSearchText
<1> QED  BY <1>3 DEF ServerText, ScriptText

(***************************************************************************)
(* What stands under sensitive keys.                                       *)
(***************************************************************************)

\* Whether two values are alike, from what `r` says of their parts.
AlikeParts(v, w, r) ==
    /\ v[1] = w[1]
    /\ v[1] \in {"list", "object"} => Len(v[2]) = Len(w[2])
    /\ v[1] = "list" => \A i \in DOMAIN v[2] : r[<<v[2][i], w[2][i]>>]
    /\ v[1] = "object" => \A i \in DOMAIN v[2] :
          /\ v[2][i][1] = w[2][i][1]
          /\ v[2][i][1] \in Sensitive \/ r[<<v[2][i][2], w[2][i][2]>>]
    /\ v[1] \notin {"list", "object"} => v = w

AlikePairs == [p \in Json \X Json |-> Alike(p[1], p[2])]

\* The parts of values that have the same shape.
LEMMA PairsAreLower ==
    ASSUME NEW v \in Json, NEW w \in Json, v[1] = w[1],
           v[1] \in {"list", "object"} => Len(v[2]) = Len(w[2])
    PROVE  /\ v[1] = "list" => \A i \in DOMAIN v[2] :
                 <<v[2][i], w[2][i]>> \in Json \X Json /\ depth[v[2][i]] < depth[v]
           /\ v[1] = "object" => \A i \in DOMAIN v[2] :
                 <<v[2][i][2], w[2][i][2]>> \in Json \X Json /\ depth[v[2][i][2]] < depth[v]
<1>1. v[1] \in {"list", "object"} => DOMAIN v[2] = DOMAIN w[2]
    BY JsonShapes DEF JsonNull
<1> QED  BY <1>1, PartsAreLower

\* Alike looks at every pair of parts the same way.
LEMMA AlikeOfParts ==
    ASSUME NEW v \in Json, NEW w \in Json, Alike(v, w)
    PROVE  AlikeParts(v, w, AlikePairs)
<1> DEFINE S == Json \X Json
           d == [p \in S |-> depth[p[1]]]
           F == [q \in S \X [S -> BOOLEAN] |-> AlikeParts(q[1][1], q[1][2], q[2])]
           Body(r) ==
               [p \in S |->
                   LET x == p[1]
                       y == p[2]
                   IN  /\ x[1] = y[1]
                       /\ x[1] \in {"list", "object"} => Len(x[2]) = Len(y[2])
                       /\ x[1] = "list" => \A i \in DOMAIN x[2] : r[<<x[2][i], y[2][i]>>]
                       /\ x[1] = "object" => \A i \in DOMAIN x[2] :
                             /\ x[2][i][1] = y[2][i][1]
                             /\ x[2][i][1] \in Sensitive \/ r[<<x[2][i][2], y[2][i][2]>>]
                       /\ x[1] \notin {"list", "object"} => x = y]
           chosen == CHOOSE r : r = Body(r)
<1>1. F \in [S \X [S -> BOOLEAN] -> BOOLEAN]
  <2>1. \A x, y, r : AlikeParts(x, y, r) \in BOOLEAN
      BY DEF AlikeParts
  <2> QED  BY <2>1
<1>2. ASSUME NEW p \in S, NEW g \in [S -> BOOLEAN], NEW h \in [S -> BOOLEAN],
             \A q \in S : d[q] < d[p] => g[q] = h[q]
      PROVE  AlikeParts(p[1], p[2], g) = AlikeParts(p[1], p[2], h)
  <2> DEFINE x == p[1]
             y == p[2]
  <2>1. x \in Json /\ y \in Json /\ d[p] = depth[x]
      OBVIOUS
  <2>2. \A q \in S : depth[q[1]] < depth[x] => g[q] = h[q]
      BY <1>2
  <2> HIDE DEF S, d, x, y
  <2>3. CASE x[1] = y[1] /\ (x[1] \in {"list", "object"} => Len(x[2]) = Len(y[2]))
    <3>1. x[1] = "list" => \A i \in DOMAIN x[2] : g[<<x[2][i], y[2][i]>>] = h[<<x[2][i], y[2][i]>>]
        BY <2>1, <2>2, <2>3, PairsAreLower DEF S
    <3>2. x[1] = "object" => \A i \in DOMAIN x[2] : g[<<x[2][i][2], y[2][i][2]>>] = h[<<x[2][i][2], y[2][i][2]>>]
        BY <2>1, <2>2, <2>3, PairsAreLower DEF S
    <3> QED  BY <3>1, <3>2 DEF AlikeParts, x, y
  <2>4. CASE ~(x[1] = y[1] /\ (x[1] \in {"list", "object"} => Len(x[2]) = Len(y[2])))
      BY <2>4 DEF AlikeParts, x, y
  <2> QED  BY <2>3, <2>4
<1>3. Recursive(S, BOOLEAN, d, F)
  <2>1. d \in [S -> Nat]
      BY JsonAssumption
  <2>2. \A p \in S, g \in [S -> BOOLEAN] : F[<<p, g>>] = AlikeParts(p[1], p[2], g)
      OBVIOUS
  <2> HIDE DEF S, d, F
  <2>3. ASSUME NEW p \in S, NEW g \in [S -> BOOLEAN], NEW h \in [S -> BOOLEAN],
               \A q \in S : d[q] < d[p] => g[q] = h[q]
        PROVE  F[<<p, g>>] = F[<<p, h>>]
    <3>1. AlikeParts(p[1], p[2], g) = AlikeParts(p[1], p[2], h)
        BY <1>2, <2>3
    <3> QED  BY <2>2, <3>1
  <2> QED  BY <1>1, <2>1, <2>3 DEF Recursive
<1>4. PICK r \in [S -> BOOLEAN] : \A p \in S : r[p] = F[<<p, r>>]
  <2> HIDE DEF S, d, F
  <2> QED  BY <1>3, RecursionOverDepth
<1>5. r = Body(r)
  <2>1. \A p \in S : r[p] = AlikeParts(p[1], p[2], r)
      BY <1>4
  <2> QED  BY <2>1 DEF AlikeParts
<1>6. chosen = Body(chosen)
  <2> HIDE DEF Body
  <2> QED  BY <1>5
<1>7. \A x, y : Alike(x, y) = chosen[<<x, y>>]
    BY DEF Alike
<1> HIDE DEF chosen
<1>8. AlikePairs = chosen
  <2>1. AlikePairs = [p \in S |-> chosen[<<p[1], p[2]>>]]
      BY <1>7 DEF AlikePairs
  <2>2. DOMAIN chosen = S /\ chosen = [p \in S |-> chosen[p]]
      BY <1>6
  <2> QED  BY <2>1, <2>2
<1> QED  BY <1>6, <1>7, <1>8 DEF AlikeParts

\* Values that are alike have the same search text.
LEMMA AlikeSameText ==
    ASSUME NEW v \in Json, NEW w \in Json, Alike(v, w)
    PROVE  jsonValueToSearchText(v) = jsonValueToSearchText(w)
<1> DEFINE P == {x \in Json : \A y \in Json : Alike(x, y) => ServerText[x] = ServerText[y]}
<1>1. ASSUME NEW x \in Json, \A z \in Json : depth[z] < depth[x] => z \in P
      PROVE  x \in P
  <2> SUFFICES ASSUME NEW y \in Json, Alike(x, y)
               PROVE  SearchText(x, ServerText) = SearchText(y, ServerText)
      BY ServerSearchText
  <2>1. AlikeParts(x, y, AlikePairs)
      BY AlikeOfParts
  <2>2. CASE x[1] \notin {"list", "object"}
      BY <2>1, <2>2 DEF AlikeParts
  <2>3. CASE x[1] \in {"list", "object"}
    <3>1. x[1] = y[1] /\ Len(x[2]) = Len(y[2])
        BY <2>1, <2>3 DEF AlikeParts
    <3>2. DOMAIN x[2] = DOMAIN y[2]
        BY <2>3, <3>1, JsonShapes DEF JsonNull
    <3>3. CASE x[1] = "list"
      <4>1. ASSUME NEW i \in DOMAIN x[2]
            PROVE  ServerText[x[2][i]] = ServerText[y[2][i]]
        <5>1. <<x[2][i], y[2][i]>> \in Json \X Json /\ depth[x[2][i]] < depth[x]
            BY <3>1, <3>3, PairsAreLower
        <5>2. Alike(x[2][i], y[2][i])
            BY <2>1, <3>3, <5>1 DEF AlikeParts, AlikePairs
        <5> QED  BY <1>1, <5>1, <5>2
      <4> QED  BY <3>1, <3>2, <3>3, <4>1 DEF SearchText
    <3>4. CASE x[1] = "object"
      <4>1. ASSUME NEW i \in DOMAIN x[2]
            PROVE  x[2][i][1] = y[2][i][1] /\ (x[2][i][1] \in Sensitive \/ ServerText[x[2][i][2]] = ServerText[y[2][i][2]])
        <5>1. <<x[2][i][2], y[2][i][2]>> \in Json \X Json /\ depth[x[2][i][2]] < depth[x]
            BY <3>1, <3>4, PairsAreLower
        <5>2. x[2][i][1] = y[2][i][1] /\ (x[2][i][1] \in Sensitive \/ Alike(x[2][i][2], y[2][i][2]))
            BY <2>1, <3>4, <5>1 DEF AlikeParts, AlikePairs
        <5> QED  BY <1>1, <5>1, <5>2
      <4> QED  BY <3>1, <3>2, <3>4, <4>1 DEF SearchText
    <3> QED  BY <2>3, <3>3, <3>4
  <2> QED  BY <2>2, <2>3
<1>2. depth \in [Json -> Nat]
    BY JsonAssumption
<1> HIDE DEF P
<1>3. Json \subseteq P
    BY <1>1, <1>2, DepthInduction
<1> QED  BY <1>3 DEF P, ServerText

\* Objects that are alike keep the same entries.
LEMMA AlikeSameMetadata ==
    ASSUME NEW v \in Json, NEW w \in Json, Alike(v, w), isJsonObject(v)
    PROVE  isJsonObject(w) /\ sanitizeMetadata(v) = sanitizeMetadata(w)
<1>1. AlikeParts(v, w, AlikePairs) /\ v[1] = "object"
    BY AlikeOfParts DEF isJsonObject
<1>2. w[1] = "object" /\ Len(v[2]) = Len(w[2])
    BY <1>1 DEF AlikeParts
<1>3. DOMAIN v[2] = DOMAIN w[2]
    BY <1>1, <1>2, JsonShapes DEF JsonNull
<1>4. ASSUME NEW i \in DOMAIN v[2], v[2][i][1] \notin Sensitive
      PROVE  /\ v[2][i][1] = w[2][i][1]
             /\ isScalar(v[2][i][2]) = isScalar(w[2][i][2])
             /\ isScalar(v[2][i][2]) => v[2][i][2] = w[2][i][2]
  <2>1. <<v[2][i][2], w[2][i][2]>> \in Json \X Json
      BY <1>1, <1>2, PairsAreLower
  <2>2. v[2][i][1] = w[2][i][1] /\ Alike(v[2][i][2], w[2][i][2])
      BY <1>1, <1>4, <2>1 DEF AlikeParts, AlikePairs
  <2>3. AlikeParts(v[2][i][2], w[2][i][2], AlikePairs)
      BY <2>1, <2>2, AlikeOfParts
  <2> QED  BY <2>2, <2>3 DEF AlikeParts, isScalar
<1>5. \A i \in DOMAIN v[2] : v[2][i][1] = w[2][i][1]
    BY <1>1 DEF AlikeParts
<1>6. safeEntries(v[2]) = safeEntries(w[2])
    BY <1>3, <1>4, <1>5 DEF safeEntries
<1>7. v # Undefined /\ w # Undefined
    BY <1>1, <1>2 DEF Undefined
<1> QED  BY <1>2, <1>6, <1>7 DEF sanitizeMetadata, isJsonObject

(***************************************************************************)
(* Finite sets and ranks.                                                  *)
(***************************************************************************)

\* The union of finitely many finite sets is finite.
LEMMA FiniteUnion ==
    ASSUME NEW S, IsFiniteSet(S), NEW f, \A x \in S : IsFiniteSet(f[x])
    PROVE  IsFiniteSet(UNION {f[x] : x \in S})
<1> DEFINE d == [T \in SUBSET S |-> Cardinality(T)]
           P == {T \in SUBSET S : IsFiniteSet(UNION {f[x] : x \in T})}
<1>1. \A T \in SUBSET S : IsFiniteSet(T) /\ Cardinality(T) \in Nat
    BY FS_Subset, FS_CardinalityType
<1>2. d \in [SUBSET S -> Nat]
    BY <1>1
<1>3. ASSUME NEW T \in SUBSET S, \A U \in SUBSET S : d[U] < d[T] => U \in P
      PROVE  T \in P
  <2>1. CASE T = {}
    <3>1. UNION {f[x] : x \in T} = {}
        BY <2>1
    <3> QED  BY <3>1, FS_EmptySet
  <2>2. CASE T # {}
    <3>1. PICK x \in T : TRUE
        BY <2>2
    <3>2. T \ {x} \in SUBSET S /\ Cardinality(T \ {x}) = Cardinality(T) - 1
        BY <1>1, FS_RemoveElement
    <3>3. IsFiniteSet(UNION {f[y] : y \in T \ {x}})
      <4>1. d[T \ {x}] < d[T]
          BY <1>1, <3>2
      <4>2. T \ {x} \in P
          BY <1>3, <3>2, <4>1
      <4> QED  BY <4>2
    <3>4. UNION {f[y] : y \in T} = (UNION {f[y] : y \in T \ {x}}) \cup f[x]
        OBVIOUS
    <3>5. IsFiniteSet((UNION {f[y] : y \in T \ {x}}) \cup f[x])
        BY <3>3, FS_Union
    <3> QED  BY <3>4, <3>5
  <2> QED  BY <2>1, <2>2
<1> HIDE DEF P, d
<1>4. SUBSET S \subseteq P
    BY <1>2, <1>3, DepthInduction
<1> QED  BY <1>4 DEF P

\* A sequence has finitely many members.
LEMMA FiniteRange ==
    ASSUME NEW T, NEW s \in Seq(T)
    PROVE  IsFiniteSet(Range(s))
<1>1. s \in Surjection(1..Len(s), Range(s))
    BY DEF Surjection, Range
<1>2. IsFiniteSet(1..Len(s))
    BY FS_Interval
<1> QED  BY <1>1, <1>2, FS_Surjection

\* In a strict total order on a finite set, members are ordered as the numbers
\* of members before them, and every number up to the size is one of those.
StrictOrder(H, R) ==
    /\ \A n \in H : <<n, n>> \notin R
    /\ \A k, m, n \in H : <<k, m>> \in R /\ <<m, n>> \in R => <<k, n>> \in R
    /\ \A m, n \in H : m # n => <<m, n>> \in R \/ <<n, m>> \in R

LEMMA Ranks ==
    ASSUME NEW H, IsFiniteSet(H), NEW R, StrictOrder(H, R),
           NEW r, r = [n \in H |-> Cardinality({m \in H : <<m, n>> \in R})]
    PROVE  /\ r \in [H -> 0..(Cardinality(H) - 1)]
           /\ \A m, n \in H : <<m, n>> \in R <=> r[m] < r[n]
           /\ \A k \in 0..(Cardinality(H) - 1) : \E n \in H : r[n] = k
<1> DEFINE Below(n) == {m \in H : <<m, n>> \in R}
           size == Cardinality(H)
<1>1. size \in Nat
    BY FS_CardinalityType
<1>2. ASSUME NEW n \in H
      PROVE  r[n] = Cardinality(Below(n)) /\ r[n] \in 0..(size - 1)
  <2>1. Below(n) \in SUBSET (H \ {n})
      BY DEF StrictOrder
  <2>2. IsFiniteSet(H \ {n}) /\ Cardinality(H \ {n}) = size - 1
      BY FS_RemoveElement
  <2>3. IsFiniteSet(Below(n)) /\ Cardinality(Below(n)) <= size - 1
    <3> HIDE DEF Below
    <3> QED  BY <2>1, <2>2, FS_Subset
  <2>4. Cardinality(Below(n)) \in Nat
      BY <2>3, FS_CardinalityType
  <2> QED  BY <1>1, <2>3, <2>4
<1>3. ASSUME NEW m \in H, NEW n \in H, <<m, n>> \in R
      PROVE  r[m] < r[n]
  <2>1. Below(m) \cup {m} \in SUBSET Below(n)
      BY <1>3 DEF StrictOrder
  <2>2. m \notin Below(m)
      BY DEF StrictOrder
  <2>3. IsFiniteSet(Below(m)) /\ IsFiniteSet(Below(n))
      BY FS_Subset
  <2>4. Cardinality(Below(m) \cup {m}) = r[m] + 1
      BY <1>2, <2>2, <2>3, FS_AddElement
  <2>5. Cardinality(Below(m) \cup {m}) <= r[n]
      BY <1>2, <2>1, <2>3, FS_Subset
  <2> QED  BY <1>1, <1>2, <2>4, <2>5
<1>4. r \in [H -> 0..(size - 1)]
    BY <1>2
<1>5. ASSUME NEW m \in H, NEW n \in H, r[m] < r[n]
      PROVE  <<m, n>> \in R
  <2>1. r[m] \in Nat /\ r[n] \in Nat
      BY <1>4
  <2>2. m # n
      BY <1>5, <2>1
  <2>3. <<n, m>> \in R => r[n] < r[m]
      BY <1>3
  <2>4. <<n, m>> \notin R
      BY <1>5, <2>1, <2>3
  <2> QED  BY <2>2, <2>4 DEF StrictOrder
<1>6. r \in Injection(H, 0..(size - 1))
  <2>1. ASSUME NEW m \in H, NEW n \in H, r[m] = r[n], m # n
        PROVE  FALSE
    <3>1. <<m, n>> \in R \/ <<n, m>> \in R
        BY <2>1 DEF StrictOrder
    <3>2. r[m] < r[n] \/ r[n] < r[m]
        BY <1>3, <3>1
    <3>3. r[m] \in Nat /\ r[n] \in Nat
        BY <1>4
    <3> QED  BY <2>1, <3>2, <3>3
  <2> QED  BY <1>4, <2>1, Fun_IsInj
<1>7. IsFiniteSet(0..(size - 1)) /\ Cardinality(0..(size - 1)) = size
    BY <1>1, FS_Interval
<1>8. r \in Surjection(H, 0..(size - 1))
  <2> HIDE DEF size
  <2> QED  BY <1>6, <1>7, FS_Injection DEF size
<1>9. \A k \in 0..(size - 1) : \E n \in H : r[n] = k
    BY <1>8 DEF Surjection
<1> QED  BY <1>3, <1>4, <1>5, <1>9

(***************************************************************************)
(* Entries and their scores.                                               *)
(***************************************************************************)

StoredMemoryEvent ==
    [id : Nat \ {0}, receivedAt : Nat \ {0}, source : Seq(Word) \ {<<>>}, kind : Seq(Word) \ {<<>>},
     text : Seq(Word), externalId : Seq(Word), occurredAt : Optional,
     metadata : {Undefined} \cup {v \in Json : isJsonObject(v)}]

EntryOf(e) ==
    MemoryIndexEntry(e, buildSearchableText(e), sanitizeMetadata(e.metadata), countTerms(buildSearchableText(e)))

FullText(e) ==
    e.source \o e.kind \o e.externalId \o (IF e.occurredAt = "ok" THEN <<DateWord>> ELSE <<>>)
        \o <<DateWord>> \o e.text
        \o (IF e.metadata = Undefined THEN <<>> ELSE jsonValueToSearchText(e.metadata))

MetadataText(e) == IF e.metadata = Undefined THEN <<>> ELSE jsonValueToSearchText(e.metadata)

\* What is searched of metadata is a text.
LEMMA MetadataTextType ==
    ASSUME NEW e \in StoredMemoryEvent
    PROVE  MetadataText(e) \in Seq(Word)
BY SearchTexts, EmptySeq DEF MetadataText, StoredMemoryEvent

\* A cut text is a text.
LEMMA TruncateType ==
    ASSUME NEW T, NEW text \in Seq(T), NEW max \in Nat \ {0}
    PROVE  truncate(text, max) \in Seq(T) /\ (Len(text) <= max => truncate(text, max) = text)
BY DEF truncate

\* The text of an event is what it says and at most two dates.
LEMMA FullTextFacts ==
    ASSUME NEW e \in StoredMemoryEvent
    PROVE  /\ FullText(e) \in Seq(Word) /\ Said(e) \in Seq(Word)
           /\ Range(Said(e)) \subseteq Range(FullText(e))
           /\ Len(FullText(e)) <= Len(Said(e)) + 2
<1> DEFINE date == IF e.occurredAt = "ok" THEN <<DateWord>> ELSE <<>>
           U == Seq(Word)
           m == MetadataText(e)
           s1 == e.source \o e.kind
           s2 == s1 \o e.externalId
           t4 == s2 \o date
           t5 == t4 \o <<DateWord>>
           t6 == t5 \o e.text
           s4 == s2 \o e.text
<1>1. e.source \in U /\ e.kind \in U /\ e.externalId \in U /\ e.text \in U /\ m \in U
    BY MetadataTextType DEF StoredMemoryEvent
<1>2. date \in U /\ <<DateWord>> \in U /\ Len(date) <= 1 /\ Len(<<DateWord>>) = 1 /\ Len(date) \in Nat
    BY WordAssumption
<1>3. FullText(e) = t6 \o m /\ Said(e) = s4 \o m
    BY DEF FullText, Said, MetadataText
<1>4. \A s, t \in U : s \o t \in U /\ Len(s \o t) = Len(s) + Len(t) /\ Range(s \o t) = Range(s) \cup Range(t)
    BY ConcatProperties, RangeConcatenation
<1>5. \A s \in U : Len(s) \in Nat
    OBVIOUS
<1> HIDE DEF date, m, U
<1>6. s1 \in U /\ s2 \in U /\ t4 \in U /\ t5 \in U /\ t6 \in U /\ s4 \in U
    BY <1>1, <1>2, <1>4
<1>7. Range(s4) \subseteq Range(t6)
    BY <1>1, <1>2, <1>4, <1>6
<1> HIDE DEF t6, t5, t4, s4, s2
<1>8. Len(t6) <= Len(s4) + 2
  <2>1. Len(t4) = Len(s2) + Len(date)
      BY <1>2, <1>4, <1>6 DEF t4
  <2>2. Len(t5) = Len(t4) + 1
      BY <1>2, <1>4, <1>6 DEF t5
  <2>3. Len(t6) = Len(t5) + Len(e.text)
      BY <1>1, <1>4, <1>6 DEF t6
  <2>4. Len(s4) = Len(s2) + Len(e.text)
      BY <1>1, <1>4, <1>6 DEF s4
  <2>5. Len(s2) \in Nat /\ Len(e.text) \in Nat /\ Len(t4) \in Nat /\ Len(t5) \in Nat
      BY <1>1, <1>5, <1>6
  <2> DEFINE a == Len(s2)
             b == Len(date)
             c == Len(e.text)
  <2>6. Len(t6) = ((a + b) + 1) + c /\ Len(s4) = a + c
      BY <2>1, <2>2, <2>3, <2>4
  <2>7. a \in Nat /\ b \in Nat /\ c \in Nat /\ b <= 1
      BY <1>2, <2>5
  <2> HIDE DEF a, b, c
  <2> QED  BY <2>6, <2>7
<1>9. /\ t6 \o m \in U /\ Len(t6 \o m) = Len(t6) + Len(m) /\ Range(t6 \o m) = Range(t6) \cup Range(m)
      /\ s4 \o m \in U /\ Len(s4 \o m) = Len(s4) + Len(m) /\ Range(s4 \o m) = Range(s4) \cup Range(m)
    BY <1>1, <1>4, <1>6
<1>10. Range(s4 \o m) \subseteq Range(t6 \o m)
    BY <1>7, <1>9
<1>11. Len(t6 \o m) <= Len(s4 \o m) + 2
  <2>1. Len(t6) \in Nat /\ Len(s4) \in Nat /\ Len(m) \in Nat
      BY <1>1, <1>5, <1>6
  <2> QED  BY <1>8, <1>9, <2>1
<1> QED  BY <1>3, <1>9, <1>10, <1>11 DEF U

\* What is searched is a text, and every search word of a short event is in it.
LEMMA SearchableFacts ==
    ASSUME NEW e \in StoredMemoryEvent
    PROVE  /\ buildSearchableText(e) \in Seq(Word)
           /\ Len(Said(e)) + 2 <= MaxIndexText =>
                 Range(tokenize(Said(e))) \subseteq Range(tokenize(buildSearchableText(e)))
<1>1. buildSearchableText(e) = truncate(FullText(e), MaxIndexText)
    BY DEF buildSearchableText, FullText
<1>2. FullText(e) \in Seq(Word) /\ Said(e) \in Seq(Word) /\ MaxIndexText \in Nat \ {0}
    BY FullTextFacts, RequestAssumption
<1>3. buildSearchableText(e) \in Seq(Word)
    BY <1>1, <1>2, TruncateType
<1>4. ASSUME Len(Said(e)) + 2 <= MaxIndexText
      PROVE  Range(tokenize(Said(e))) \subseteq Range(tokenize(buildSearchableText(e)))
  <2>1. Len(FullText(e)) <= MaxIndexText
      BY <1>2, <1>4, FullTextFacts
  <2>2. buildSearchableText(e) = FullText(e)
      BY <1>1, <1>2, <2>1, TruncateType
  <2> QED  BY <1>2, <2>2, FullTextFacts, TokenizeRange
<1> QED  BY <1>3, <1>4

\* A word that is in a text and that objects do not inherit is counted at least
\* once, every count is a number but those of inherited words.
LEMMA CountFacts ==
    ASSUME NEW text \in Seq(Word)
    PROVE  LET terms == countTerms(text)
           IN  /\ DOMAIN terms = Range(tokenize(text))
               /\ \A w \in DOMAIN terms : w \notin Inherited => terms[w] \in Nat \ {0}
<1> DEFINE words == tokenize(text)
           at(w) == {i \in DOMAIN words : words[i] = w}
<1>1. words \in Seq(Term)
    BY TokenizeRange
<1>2. ASSUME NEW w \in Range(words)
      PROVE  Cardinality(at(w)) \in Nat \ {0}
  <2>1. at(w) # {}
      BY <1>2 DEF Range
  <2>2. IsFiniteSet(1..Len(words)) /\ at(w) \in SUBSET (1..Len(words))
      BY <1>1, FS_Interval
  <2>3. IsFiniteSet(at(w))
      BY <2>2, FS_Subset
  <2> HIDE DEF at
  <2> QED  BY <2>1, <2>3, FS_CardinalityType, FS_EmptySet
<1> HIDE DEF words
<1> QED  BY <1>2 DEF countTerms, words

\* The larger of two numbers, and the smaller.
LEMMA MaxMin ==
    ASSUME NEW a \in Nat, NEW b \in Nat
    PROVE  Max({a, b}) \in {a, b} /\ Min({a, b}) \in {a, b} /\ Min({a, b}) <= a /\ Min({a, b}) <= b
<1>1. \E x \in {a, b} : \A y \in {a, b} : x >= y
    BY a >= b \/ b >= a
<1>2. \E x \in {a, b} : \A y \in {a, b} : x =< y
    BY a >= b \/ b >= a
<1> QED  BY <1>1, <1>2 DEF Max, Min

\* A score is a number, positive for an entry with a word of the query, unless
\* the query has an inherited word.
LEMMA ScoreFacts ==
    ASSUME NEW e \in StoredMemoryEvent, NEW query \in Seq(Word)
    PROVE  /\ score(EntryOf(e), query) \in Int
           /\ (/\ Range(tokenize(query)) \cap Inherited = {}
               /\ Range(tokenize(query)) \cap Range(tokenize(buildSearchableText(e))) # {}) =>
                    score(EntryOf(e), query) > 0
<1> DEFINE entry == EntryOf(e)
           text == buildSearchableText(e)
           terms == countTerms(text)
           words == Range(tokenize(query))
           phrase == normalizeForSearch(query)
           FieldIs(w) == \E field \in {entry.source, entry.kind} : Len(field) = 1 /\ lower[field[1]] = w
           OfTerm(w)  == (IF w \in DOMAIN terms THEN terms[w] ELSE 0) + (IF FieldIs(w) THEN 2 ELSE 0)
           phraseFound == phrase # <<>> /\ includes(normalizeForSearch(entry.searchableText), phrase)
           pairs == UNION {{w} \X (1..OfTerm(w)) : w \in words}
           extra == IF phraseFound THEN Max({2, Cardinality(words)}) ELSE 0
<1>1. entry.terms = terms /\ entry.searchableText = text
    BY DEF EntryOf, MemoryIndexEntry
<1>2. score(entry, query) = IF words \cap Inherited # {} THEN NaN ELSE Cardinality(pairs) + extra
    BY <1>1 DEF score, scoreEntry
<1>3. text \in Seq(Word) /\ IsFiniteSet(words) /\ Cardinality(words) \in Nat
    BY SearchableFacts, TokenizeRange, FiniteRange, FS_CardinalityType
<1>4. DOMAIN terms = Range(tokenize(text)) /\ \A w \in DOMAIN terms : w \notin Inherited => terms[w] \in Nat \ {0}
    BY <1>3, CountFacts
<1>5. extra \in Nat
  <2> DEFINE n == Cardinality(words)
  <2> HIDE DEF words, phraseFound
  <2>1. Max({2, n}) \in Nat
    <3>1. n \in Nat
        BY <1>3 DEF words
    <3> HIDE DEF n
    <3>2. Max({2, n}) \in {2, n}
        BY <3>1, MaxMin
    <3> QED  BY <3>1, <3>2
  <2> QED  BY <2>1
<1> HIDE DEF extra, terms, FieldIs, words
<1>6. CASE words \cap Inherited # {}
    BY <1>2, <1>6 DEF NaN, words
<1>7. CASE words \cap Inherited = {}
  <2>1. ASSUME NEW w \in words
        PROVE  OfTerm(w) \in Nat /\ (w \in DOMAIN terms => OfTerm(w) > 0)
      BY <1>4, <1>7
  <2> DEFINE f == [w \in words |-> {w} \X (1..OfTerm(w))]
  <2> HIDE DEF OfTerm
  <2>2. ASSUME NEW w \in words
        PROVE  IsFiniteSet(f[w])
    <3> DEFINE g == [k \in 1..OfTerm(w) |-> <<w, k>>]
    <3>1. g \in Surjection(1..OfTerm(w), f[w])
        BY DEF Surjection
    <3> QED  BY <2>1, <3>1, FS_Interval, FS_Surjection
  <2>3. pairs = UNION {f[w] : w \in words}
      OBVIOUS
  <2>4. IsFiniteSet(pairs) /\ Cardinality(pairs) \in Nat
    <3> HIDE DEF f, pairs
    <3> QED  BY <1>3, <2>2, <2>3, FiniteUnion, FS_CardinalityType
  <2>5. ASSUME NEW w \in words, w \in Range(tokenize(text))
        PROVE  Cardinality(pairs) > 0
    <3>1. <<w, 1>> \in pairs
        BY <1>4, <2>1, <2>5
    <3> HIDE DEF pairs
    <3> QED  BY <2>4, <3>1, FS_EmptySet
  <2> QED
    <3> HIDE DEF pairs
    <3> QED  BY <1>2, <1>5, <1>7, <2>4, <2>5 DEF words
<1> QED  BY <1>6, <1>7

(***************************************************************************)
(* The two builders of the index.                                          *)
(***************************************************************************)

\* Both keep the same entries of an object.
LEMMA SameSafeEntries ==
    ASSUME NEW entries \in Seq(Key \X Json)
    PROVE  scriptSafeEntries(entries) = safeEntries(entries)
<1> DEFINE kept(p) ==
               IF p[1] \in Sensitive \/ ~isScalar(p[2]) THEN <<>>
               ELSE <<<<p[1], IF p[2] = JsonNull THEN JsonNull
                              ELSE <<"text", truncate(p[2][2], MaxMetadataText)>>>>>>
           scriptKept(p) ==
               IF p[1] \in Sensitive THEN <<>>
               ELSE IF p[2][1] = "text" THEN <<<<p[1], <<"text", truncate(p[2][2], MaxMetadataText)>>>>>>
               ELSE IF isScalar(p[2]) THEN <<p>> ELSE <<>>
<1>1. ASSUME NEW i \in DOMAIN entries
      PROVE  scriptKept(entries[i]) = kept(entries[i])
  <2>1. PICK k \in Key, v \in Json : entries[i] = <<k, v>>
      OBVIOUS
  <2>2. CASE v = JsonNull
    <3>1. v[1] = "null" /\ isScalar(v)
        BY <2>2 DEF JsonNull, isScalar
    <3> QED  BY <2>1, <2>2, <3>1
  <2>3. CASE v[1] = "text"
      BY <2>1, <2>3 DEF JsonNull, isScalar
  <2>4. CASE v[1] \in {"list", "object"}
      BY <2>1, <2>4 DEF isScalar
  <2> QED  BY <2>2, <2>3, <2>4, JsonShapes
<1>2. /\ scriptSafeEntries(entries) = FlattenSeq([i \in DOMAIN entries |-> scriptKept(entries[i])])
      /\ safeEntries(entries) = FlattenSeq([i \in DOMAIN entries |-> kept(entries[i])])
    BY DEF scriptSafeEntries, safeEntries
<1>3. [i \in DOMAIN entries |-> scriptKept(entries[i])] = [i \in DOMAIN entries |-> kept(entries[i])]
  <2> HIDE DEF kept, scriptKept
  <2> QED  BY <1>1
<1> HIDE DEF kept, scriptKept
<1> QED  BY <1>2, <1>3

\* Both make the same entry of an event.
LEMMA SameEntry ==
    ASSUME NEW e \in StoredMemoryEvent
    PROVE  /\ scriptSearchableText(e) = buildSearchableText(e)
           /\ scriptSanitizeMetadata(e.metadata) = sanitizeMetadata(e.metadata)
           /\ \A text : scriptCountTerms(text) = countTerms(text)
<1>1. CASE e.metadata = Undefined
  <2>1. ~isJsonObject(e.metadata)
      BY <1>1 DEF isJsonObject, Undefined
  <2> QED
      BY <1>1, <2>1 DEF scriptSearchableText, buildSearchableText, scriptSanitizeMetadata, sanitizeMetadata,
                        scriptCountTerms, countTerms, tokenize, normalizeForSearch
<1>2. CASE e.metadata # Undefined
  <2> DEFINE m == e.metadata
  <2>1. m \in Json /\ isJsonObject(m)
      BY <1>2 DEF StoredMemoryEvent
  <2>2. m[2] \in Seq(Key \X Json)
      BY <2>1, JsonShapes DEF isJsonObject, JsonNull
  <2>3. scriptSafeEntries(m[2]) = safeEntries(m[2]) /\ scriptSearchText(m) = jsonValueToSearchText(m)
      BY <2>1, <2>2, SameSafeEntries, SearchTexts
  <2>4. scriptSearchableText(e) = buildSearchableText(e)
      BY <1>2, <2>1, <2>3 DEF scriptSearchableText, buildSearchableText
  <2>5. scriptSanitizeMetadata(m) = sanitizeMetadata(m)
      BY <1>2, <2>1, <2>3 DEF scriptSanitizeMetadata, sanitizeMetadata
  <2> QED  BY <2>4, <2>5 DEF scriptCountTerms, countTerms, tokenize, normalizeForSearch
<1> QED  BY <1>1, <1>2

\* Both make the same index of events that are stored.
LEMMA SameIndex ==
    ASSUME NEW events \in Seq(StoredMemoryEvent)
    PROVE  /\ buildMemoryIndex(events) = [n \in DOMAIN events |-> EntryOf(events[n])]
           /\ scriptIndex(events) = buildMemoryIndex(events)
<1>1. buildMemoryIndex(events) = [n \in DOMAIN events |-> EntryOf(events[n])]
    BY DEF buildMemoryIndex, EntryOf
<1>2. ASSUME NEW n \in DOMAIN events
      PROVE  MemoryIndexEntry(events[n], scriptSearchableText(events[n]), scriptSanitizeMetadata(events[n].metadata),
                              scriptCountTerms(scriptSearchableText(events[n]))) = EntryOf(events[n])
  <2>1. events[n] \in StoredMemoryEvent
      OBVIOUS
  <2> QED  BY <2>1, SameEntry DEF EntryOf
<1>3. scriptIndex(events) = [n \in DOMAIN events |-> EntryOf(events[n])]
    BY <1>2 DEF scriptIndex
<1> QED  BY <1>1, <1>3

(***************************************************************************)
(* What is stored and what is built.                                       *)
(***************************************************************************)

\* What is stored was validated and can be read back; the index has the
\* entries of the oldest events, as they would be made now.
StoredOk == stored \in Seq(StoredMemoryEvent) /\ \A n \in DOMAIN stored : stored[n].id = n
BuiltOk ==
    /\ \E k \in 0..Len(stored) : DOMAIN built = 1..k
    /\ \A n \in DOMAIN built : built[n] = EntryOf(stored[n])

SearchInv == StoredOk /\ BuiltOk

\* Everything stored is read back.
LEMMA AllAreRead ==
    StoredOk => StoredEvents(stored) = stored
<1> SUFFICES ASSUME StoredOk
             PROVE  StoredEvents(stored) = stored
    OBVIOUS
<1>1. stored \in Seq(StoredMemoryEvent)
    BY DEF StoredOk
<1>2. ASSUME NEW e \in StoredMemoryEvent
      PROVE  isStoredMemoryEvent(e)
  <2>1. e.id \in Nat \ {0} /\ e.receivedAt \in Nat \ {0} /\ e.source # <<>> /\ e.kind # <<>>
      BY DEF StoredMemoryEvent
  <2> QED  BY <2>1 DEF isStoredMemoryEvent
<1>3. \A n \in DOMAIN stored : stored[n] \in StoredMemoryEvent
    BY <1>1
<1> QED  BY <1>1, <1>2, <1>3, StoredEventsAll

\* Nothing is stored or built at first.
LEMMA SearchInitInv ==
    SearchInit => SearchInv
BY EmptySeq DEF SearchInit, SearchInv, StoredOk, BuiltOk

\* A validated payload becomes an event that can be read back.
LEMMA AppendedEvent ==
    ASSUME NEW p \in Payload, NEW id \in Nat \ {0}, NEW time \in 1..MaxTime, validateMemoryIngestPayload(p)
    PROVE  appendMemoryEvent(p, id, time) \in StoredMemoryEvent
<1>1. p \in MemoryIngestPayload /\ time \in Nat \ {0}
    BY RequestAssumption
<1>2. p.source \in Seq(Word) \ {<<>>} /\ p.kind \in Seq(Word) \ {<<>>}
    BY <1>1 DEF MemoryIngestPayload, validateMemoryIngestPayload
<1>3. p.metadata \in {Undefined} \cup {v \in Json : isJsonObject(v)}
    BY <1>1 DEF MemoryIngestPayload, validateMemoryIngestPayload
<1>4. p.text \in Seq(Word) /\ p.externalId \in Seq(Word) /\ p.occurredAt \in Optional
    BY <1>1 DEF MemoryIngestPayload
<1> QED  BY <1>1, <1>2, <1>3, <1>4 DEF appendMemoryEvent, StoredMemoryEvent

\* Every step keeps the invariant.
LEMMA SearchStepInv ==
    SearchInv /\ [SearchNext]_searchVars => SearchInv'
<1> SUFFICES ASSUME SearchInv, [SearchNext]_searchVars
             PROVE  SearchInv'
    OBVIOUS
<1>1. stored \in Seq(StoredMemoryEvent) /\ Len(stored) \in Nat /\ DOMAIN stored = 1..Len(stored)
    BY DEF SearchInv, StoredOk
<1>2. CASE IngestEvent
  <2>1. PICK e \in StoredMemoryEvent : stored' = Append(stored, e) /\ e.id = Len(stored) + 1
    <3>1. PICK p \in Payload, time \in 1..MaxTime :
              /\ validateMemoryIngestPayload(p)
              /\ stored' = Append(stored, appendMemoryEvent(p, Len(stored) + 1, time))
        BY <1>2 DEF IngestEvent
    <3>2. appendMemoryEvent(p, Len(stored) + 1, time) \in StoredMemoryEvent
        BY <1>1, <3>1, AppendedEvent
    <3>3. appendMemoryEvent(p, Len(stored) + 1, time).id = Len(stored) + 1
        BY DEF appendMemoryEvent
    <3> QED  BY <3>1, <3>2, <3>3
  <2>2. /\ stored' \in Seq(StoredMemoryEvent) /\ Len(stored') = Len(stored) + 1
        /\ DOMAIN stored' = 1..(Len(stored) + 1)
        /\ \A n \in 1..Len(stored) : stored'[n] = stored[n]
        /\ stored'[Len(stored) + 1] = e
      BY <1>1, <2>1
  <2>3. StoredOk'
      BY <1>1, <2>1, <2>2 DEF SearchInv, StoredOk
  <2>4. built' = built
      BY <1>2 DEF IngestEvent
  <2>5. BuiltOk'
      BY <1>1, <2>2, <2>4 DEF SearchInv, BuiltOk
  <2> QED  BY <2>3, <2>5 DEF SearchInv
<1>3. ASSUME built' = [n \in DOMAIN stored |-> EntryOf(stored[n])], stored' = stored
      PROVE  SearchInv'
  <2>1. StoredOk'
      BY <1>3 DEF SearchInv, StoredOk
  <2>2. DOMAIN built' = 1..Len(stored') /\ Len(stored') \in 0..Len(stored')
      BY <1>1, <1>3
  <2>3. \A n \in DOMAIN built' : built'[n] = EntryOf(stored'[n])
      BY <1>3
  <2> QED  BY <2>1, <2>2, <2>3 DEF SearchInv, BuiltOk
<1>4. StoredEvents(stored) = stored
    BY AllAreRead DEF SearchInv
<1>5. CASE rebuildMemoryIndex
  <2>1. built' = buildMemoryIndex(stored) /\ stored' = stored
      BY <1>4, <1>5 DEF rebuildMemoryIndex
  <2> QED  BY <1>1, <1>3, <2>1, SameIndex
<1>6. CASE RunScript
  <2>1. built' = scriptIndex(stored) /\ stored' = stored
      BY <1>4, <1>6 DEF RunScript
  <2> QED  BY <1>1, <1>3, <2>1, SameIndex
<1>7. CASE UNCHANGED searchVars
    BY <1>7 DEF searchVars, SearchInv, StoredOk, BuiltOk
<1> QED  BY <1>2, <1>5, <1>6, <1>7 DEF SearchNext

\* The index always has the entries of stored events.
THEOREM SearchInvariant ==
    SearchSpec => []SearchInv
<1>1. SearchInit => SearchInv
    BY SearchInitInv
<1>2. SearchInv /\ [SearchNext]_searchVars => SearchInv'
    BY SearchStepInv
<1> QED  BY <1>1, <1>2, PTL DEF SearchSpec

\* The script and the server make the same index of every queue.
THEOREM ScriptBuildsSameIndex ==
    SearchSpec => []SameIndexFromScript
<1>1. SearchInv => SameIndexFromScript
  <2> SUFFICES ASSUME SearchInv
               PROVE  SameIndexFromScript
      OBVIOUS
  <2>1. StoredEvents(stored) = stored /\ stored \in Seq(StoredMemoryEvent)
      BY AllAreRead DEF SearchInv, StoredOk
  <2> QED  BY <2>1, SameIndex DEF SameIndexFromScript
<1> QED  BY <1>1, SearchInvariant, PTL

\* What stands under a sensitive key has no influence on the index.
THEOREM BodiesStayOut ==
    SearchSpec => []BodiesDoNotMatter
<1>1. SearchInv => BodiesDoNotMatter
  <2> SUFFICES ASSUME SearchInv, NEW n \in DOMAIN built, NEW m \in Json,
                      stored[n].metadata \in Json, Alike(stored[n].metadata, m)
               PROVE  <<built[n]>> = buildMemoryIndex(<<[stored[n] EXCEPT !.metadata = m]>>)
      BY DEF BodiesDoNotMatter
  <2> DEFINE e == stored[n]
             f == [e EXCEPT !.metadata = m]
  <2>1. n \in DOMAIN stored /\ built[n] = EntryOf(e)
      BY DEF SearchInv, StoredOk, BuiltOk
  <2>2. e \in StoredMemoryEvent
      BY <2>1 DEF SearchInv, StoredOk
  <2>3. e.metadata # Undefined /\ isJsonObject(e.metadata)
    <3>1. e.metadata # Undefined
        BY JsonShapes DEF Undefined, JsonNull
    <3> QED  BY <2>2, <3>1 DEF StoredMemoryEvent
  <2>4. isJsonObject(m) /\ sanitizeMetadata(m) = sanitizeMetadata(e.metadata)
      BY <2>3, AlikeSameMetadata
  <2>5. jsonValueToSearchText(m) = jsonValueToSearchText(e.metadata) /\ m # Undefined
    <3>1. m # Undefined
        BY <2>4 DEF isJsonObject, Undefined
    <3> QED  BY <3>1, AlikeSameText
  <2>6. /\ f.metadata = m /\ f.id = e.id /\ f.receivedAt = e.receivedAt /\ f.source = e.source /\ f.kind = e.kind
        /\ f.text = e.text /\ f.externalId = e.externalId /\ f.occurredAt = e.occurredAt
      BY <2>2 DEF StoredMemoryEvent
  <2> HIDE DEF f, e
  <2>7. buildSearchableText(f) = buildSearchableText(e)
      BY <2>3, <2>5, <2>6 DEF buildSearchableText
  <2>8. EntryOf(f) = EntryOf(e)
      BY <2>4, <2>6, <2>7 DEF EntryOf, MemoryIndexEntry
  <2>9. buildMemoryIndex(<<f>>) = <<EntryOf(f)>>
      BY DEF buildMemoryIndex, EntryOf
  <2> QED  BY <2>1, <2>8, <2>9 DEF f, e
<1> QED  BY <1>1, SearchInvariant, PTL

(***************************************************************************)
(* The ranking.                                                            *)
(***************************************************************************)

\* Entries whose results can be ranked.
Rankable(entries, query) ==
    /\ IsFiniteSet(DOMAIN entries) /\ DOMAIN entries \subseteq Nat
    /\ \A n \in DOMAIN entries : score(entries[n], query) \in Int /\ entries[n].receivedAt \in Nat

Before(entries, query) ==
    {p \in hits(entries, query) \X hits(entries, query) : before(entries, query, p[1], p[2])}

\* Of two results that can be ranked, one comes before the other.
LEMMA BeforeIsStrict ==
    ASSUME NEW entries, NEW query, Rankable(entries, query)
    PROVE  StrictOrder(hits(entries, query), Before(entries, query))
<1> DEFINE H == hits(entries, query)
           R == Before(entries, query)
           s == [n \in H |-> score(entries[n], query)]
           t == [n \in H |-> entries[n].receivedAt]
<1>1. \A n \in H : s[n] \in Int /\ t[n] \in Int /\ n \in Int
    BY DEF Rankable, hits
<1>2. \A m, n \in H : <<m, n>> \in R <=>
          s[m] > s[n] \/ (s[m] = s[n] /\ t[m] > t[n]) \/ (s[m] = s[n] /\ t[m] = t[n] /\ m < n)
    BY DEF Before, before
<1> HIDE DEF H, R, s, t
<1>3. \A n \in H : <<n, n>> \notin R
    BY <1>1, <1>2
<1>4. ASSUME NEW k \in H, NEW m \in H, NEW n \in H, <<k, m>> \in R, <<m, n>> \in R
      PROVE  <<k, n>> \in R
  <2>1. /\ s[k] \in Int /\ s[m] \in Int /\ s[n] \in Int /\ t[k] \in Int /\ t[m] \in Int /\ t[n] \in Int
        /\ k \in Int /\ m \in Int /\ n \in Int
      BY <1>1
  <2> QED  BY <1>2, <1>4, <2>1
<1>5. ASSUME NEW m \in H, NEW n \in H, m # n
      PROVE  <<m, n>> \in R \/ <<n, m>> \in R
  <2>1. s[m] \in Int /\ s[n] \in Int /\ t[m] \in Int /\ t[n] \in Int /\ m \in Int /\ n \in Int
      BY <1>1
  <2> QED  BY <1>2, <1>5, <2>1
<1> QED  BY <1>3, <1>4, <1>5 DEF StrictOrder, H, R

\* An entry with a positive score is among the results, or as many as were
\* asked for are ranked before it.
LEMMA HitsAreRanked ==
    ASSUME NEW entries, NEW query, Rankable(entries, query), NEW limit \in Nat, NEW n \in hits(entries, query)
    PROVE  LET found == searchMemoryIndex(entries, query, limit)
           IN  \/ \E i \in DOMAIN found : found[i] = MemorySearchResult(entries[n], query)
               \/ /\ Len(found) = limit
                  /\ \A i \in DOMAIN found : \E m \in hits(entries, query) :
                        found[i] = MemorySearchResult(entries[m], query) /\ before(entries, query, m, n)
<1> DEFINE H == hits(entries, query)
           R == Before(entries, query)
           r == [m \in H |-> Cardinality({l \in H : <<l, m>> \in R})]
           size == Cardinality(H)
           last == Min({limit, size})
           Ranked(i) == CHOOSE m \in H : rank(entries, query, m) = i - 1
           found == searchMemoryIndex(entries, query, limit)
<1>1. IsFiniteSet(H) /\ size \in Nat
    BY FS_Subset, FS_CardinalityType DEF Rankable, hits
<1>2. ASSUME NEW m \in H
      PROVE  rank(entries, query, m) = r[m]
  <2>1. {l \in H : before(entries, query, l, m)} = {l \in H : <<l, m>> \in R}
      BY DEF Before
  <2> QED  BY <2>1 DEF rank
<1>3. /\ r \in [H -> 0..(size - 1)]
      /\ \A l, m \in H : <<l, m>> \in R <=> r[l] < r[m]
      /\ \A k \in 0..(size - 1) : \E m \in H : r[m] = k
  <2>1. StrictOrder(H, R)
      BY BeforeIsStrict
  <2>2. r = [m \in H |-> Cardinality({l \in H : <<l, m>> \in R})]
      OBVIOUS
  <2> HIDE DEF H, R, r
  <2> QED  BY <1>1, <2>1, <2>2, Ranks
<1>4. last \in Nat /\ last \in {limit, size} /\ last <= size
  <2> HIDE DEF size
  <2> QED  BY <1>1, MaxMin
<1>5. found = [i \in 1..last |-> MemorySearchResult(entries[Ranked(i)], query)]
    BY DEF searchMemoryIndex
<1>6. \A m, l \in H : <<m, l>> \in R => before(entries, query, m, l)
    BY DEF Before
<1> HIDE DEF H, R, r, size, last, found
<1>7. ASSUME NEW i \in 1..last
      PROVE  Ranked(i) \in H /\ r[Ranked(i)] = i - 1
  <2>1. i - 1 \in 0..(size - 1)
      BY <1>1, <1>4
  <2>2. \E m \in H : rank(entries, query, m) = i - 1
      BY <1>2, <1>3, <2>1
  <2> QED  BY <1>2, <2>2
<1>8. n \in H /\ r[n] \in 0..(size - 1)
    BY <1>3 DEF H
<1>9. CASE r[n] < last
  <2> DEFINE i == r[n] + 1
  <2>1. i \in 1..last /\ i - 1 = r[n]
      BY <1>1, <1>4, <1>8, <1>9
  <2> HIDE DEF i
  <2>2. Ranked(i) \in H /\ r[Ranked(i)] = r[n]
      BY <1>7, <2>1
  <2>3. Ranked(i) = n
    <3> DEFINE m == Ranked(i)
    <3>1. m \in H /\ n \in H /\ r[m] = r[n] /\ r[n] \in Int
        BY <1>8, <2>2
    <3> HIDE DEF m
    <3>2. ~(r[m] < r[n]) /\ ~(r[n] < r[m])
        BY <3>1
    <3>3. <<m, n>> \notin R /\ <<n, m>> \notin R
        BY <1>3, <3>1, <3>2
    <3>4. StrictOrder(H, R)
        BY BeforeIsStrict DEF H, R
    <3>5. m = n
        BY <3>1, <3>3, <3>4 DEF StrictOrder
    <3> QED  BY <3>5 DEF m
  <2>4. i \in DOMAIN found /\ found[i] = MemorySearchResult(entries[n], query)
      BY <1>5, <2>1, <2>3
  <2> QED  BY <2>4 DEF found
<1>10. CASE ~(r[n] < last)
  <2>1. last = limit
      BY <1>1, <1>4, <1>8, <1>10
  <2>2. Len(found) = limit /\ DOMAIN found = 1..last
      BY <1>5, <2>1
  <2>3. ASSUME NEW i \in 1..last
        PROVE  \E m \in H : found[i] = MemorySearchResult(entries[m], query) /\ before(entries, query, m, n)
    <3>1. Ranked(i) \in H /\ r[Ranked(i)] = i - 1
        BY <1>7
    <3>2. r[Ranked(i)] < r[n]
        BY <1>1, <1>4, <1>8, <1>10, <3>1
    <3>3. found[i] = MemorySearchResult(entries[Ranked(i)], query)
        BY <1>5
    <3> DEFINE m == Ranked(i)
    <3>4. m \in H /\ r[m] < r[n] /\ found[i] = MemorySearchResult(entries[m], query)
        BY <3>1, <3>2, <3>3
    <3> HIDE DEF m
    <3>5. before(entries, query, m, n)
        BY <1>3, <1>6, <1>8, <3>4
    <3> QED  BY <3>4, <3>5
  <2> QED  BY <2>2, <2>3 DEF found, H
<1> QED  BY <1>9, <1>10

\* Whoever searches for a word of an event in the index finds the event, or as
\* many others that are not ranked below it.
THEOREM MentionsFound ==
    SearchSpec => []MentionsAreFound
<1>1. SearchInv => MentionsAreFound
  <2> SUFFICES ASSUME SearchInv, NEW s \in Searches, NEW n \in DOMAIN built,
                      Range(tokenize(s[1])) \cap Inherited = {},
                      Range(tokenize(s[1])) \cap Range(tokenize(Said(stored[n]))) # {},
                      Len(Said(stored[n])) + 2 <= MaxIndexText
               PROVE  LET found == searchMemoryIndex(built, s[1], s[2])
                      IN  \/ \E i \in DOMAIN found : found[i].id = n
                          \/ /\ Len(found) = s[2]
                             /\ \A i \in DOMAIN found :
                                   \/ found[i].score > score(built[n], s[1])
                                   \/ found[i].score = score(built[n], s[1]) /\ found[i].receivedAt >= built[n].receivedAt
      BY DEF MentionsAreFound
  <2> DEFINE query == s[1]
             limit == s[2]
             found == searchMemoryIndex(built, query, limit)
  <2>1. query \in Seq(Word) /\ limit \in Nat
      BY RequestAssumption DEF Searches, validateMemorySearchPayload
  <2>2. ASSUME NEW m \in DOMAIN built
        PROVE  /\ stored[m] \in StoredMemoryEvent /\ built[m] = EntryOf(stored[m])
               /\ built[m].id = m /\ built[m].receivedAt \in Nat /\ score(built[m], query) \in Int
    <3>1. m \in DOMAIN stored /\ built[m] = EntryOf(stored[m]) /\ stored[m].id = m
        BY DEF SearchInv, StoredOk, BuiltOk
    <3>2. stored[m] \in StoredMemoryEvent
        BY <3>1 DEF SearchInv, StoredOk
    <3>3. built[m].id = stored[m].id /\ built[m].receivedAt = stored[m].receivedAt
        BY <3>1 DEF EntryOf, MemoryIndexEntry
    <3>4. stored[m].receivedAt \in Nat
        BY <3>2 DEF StoredMemoryEvent
    <3> QED  BY <2>1, <3>1, <3>2, <3>3, <3>4, ScoreFacts
  <2>3. Rankable(built, query)
    <3>1. PICK k \in 0..Len(stored) : DOMAIN built = 1..k
        BY DEF SearchInv, BuiltOk
    <3>2. Len(stored) \in Nat
        BY DEF SearchInv, StoredOk
    <3>3. k \in Nat /\ 1..k \subseteq Nat
        BY <3>2
    <3>4. IsFiniteSet(1..k)
        BY <3>3, FS_Interval
    <3> QED  BY <2>2, <3>1, <3>3, <3>4 DEF Rankable
  <2>4. score(built[n], query) > 0
    <3>1. Range(tokenize(query)) \cap Range(tokenize(buildSearchableText(stored[n]))) # {}
        BY <2>2, SearchableFacts
    <3> QED  BY <2>1, <2>2, <3>1, ScoreFacts
  <2>5. n \in hits(built, query)
      BY <2>4 DEF hits
  <2>6. \/ \E i \in DOMAIN found : found[i] = MemorySearchResult(built[n], query)
        \/ /\ Len(found) = limit
           /\ \A i \in DOMAIN found : \E m \in hits(built, query) :
                 found[i] = MemorySearchResult(built[m], query) /\ before(built, query, m, n)
      BY <2>1, <2>3, <2>5, HitsAreRanked
  <2>7. MemorySearchResult(built[n], query).id = n
      BY <2>2 DEF MemorySearchResult
  <2>8. ASSUME NEW m \in hits(built, query), before(built, query, m, n)
        PROVE  LET result == MemorySearchResult(built[m], query)
               IN  \/ result.score > score(built[n], query)
                   \/ result.score = score(built[n], query) /\ result.receivedAt >= built[n].receivedAt
    <3>1. m \in DOMAIN built
        BY DEF hits
    <3>2. built[m].receivedAt \in Nat /\ built[n].receivedAt \in Nat
        BY <2>2, <3>1
    <3> QED  BY <2>8, <3>2 DEF MemorySearchResult, before
  <2> HIDE DEF query, limit, found
  <2>9. CASE \E i \in DOMAIN found : found[i] = MemorySearchResult(built[n], query)
      BY <2>7, <2>9 DEF found, query, limit
  <2>10. CASE Len(found) = limit /\ \A i \in DOMAIN found : \E m \in hits(built, query) :
                 found[i] = MemorySearchResult(built[m], query) /\ before(built, query, m, n)
      BY <2>8, <2>10 DEF found, query, limit
  <2> QED  BY <2>6, <2>9, <2>10
<1> QED  BY <1>1, SearchInvariant, PTL
=============================================================================
