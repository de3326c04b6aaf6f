---------------------------- MODULE MemoryIndex ----------------------------
(***************************************************************************)
(* The memory queue and its search index: POST /api/memory/ingest, POST    *)
(* /api/memory/search, the mail webhook and the rebuild script.            *)
(*                                                                         *)
(* An ingest appends one JSON line to events.jsonl and then rebuilds       *)
(* index.json from the whole queue: it reads the queue, writes a temporary *)
(* file called index.json.<pid>.<ms>.tmp and renames it over the index.    *)
(* Nothing serialises two rebuilds.  Handlers of the one server process    *)
(* have the same pid, so two that reach the file in the same millisecond   *)
(* share a temporary file; the script runs in a process of its own.        *)
(***************************************************************************)
EXTENDS Naturals, Sequences, FiniteSets

CONSTANTS
    Event,      \* the events clients send, each at most once
    Handler,    \* ingest requests the server process works on
    Script,     \* runs of scripts/rebuild-memory-index.mjs
    TempName,   \* names a temporary file can have
    Inode,      \* files, whatever their names
    Null,
    MaxFaults   \* bound on short writes, failed rebuilds and crashes

ASSUME EventAssumption == IsFiniteSet(Event) /\ Null \notin Event
ASSUME WorkerAssumption == Handler \cap Script = {}
ASSUME FileAssumption == Null \notin TempName \cup Inode
ASSUME FaultAssumption == MaxFaults \in Nat

VARIABLES
    queue,       \* events.jsonl, as the pieces the appends left in it
    worker,      \* the rebuild each handler or script run is in
    temp,        \* the directory: which file a temporary name stands for
    index,       \* which file index.json is
    content,     \* what the bytes of each file are
    acked,       \* events the client got 202 (or, from the webhook, 200) for
    indexed,     \* events answered with indexed: true
    overlapped,  \* two rebuilds were between reading and renaming at once
    shared,      \* two rebuilds were writing under one temporary name
    faults

vars == <<queue, worker, temp, index, content, acked, indexed, overlapped, shared, faults>>

Worker == Handler \cup Script

----------------------------------------------------------------------------
(* The queue.  A piece is "line", what a complete append leaves; "cut", a  *)
(* prefix of the JSON text without its end; or "bare", the whole text      *)
(* without the newline.  What follows a piece that has no newline is read  *)
(* as part of the same line, which then no longer parses.                  *)

Piece == [event : Event, kind : {"line", "cut", "bare"}]

Parses(q, i) ==
    /\ q[i].kind # "cut"
    /\ i > 1 => q[i-1].kind = "line"
    /\ i < Len(q) => q[i].kind = "line"

\* Mutant: a line that runs into an unfinished one would be kept.
ReadableWithoutChecking(q) ==
    {q[i].event : i \in {j \in DOMAIN q : j = Len(q) \/ q[j].kind = "line"}}

\* The events readMemoryEventsFromQueue returns; other lines it skips.
Readable(q) == {q[i].event : i \in {j \in DOMAIN q : Parses(q, j)}}

Appended(q) == {q[i].event : i \in DOMAIN q}

(* A file: the rebuild that wrote last put the entries of `events` there,  *)
(* `size` is the length of the file in entries (plus one for the frame),   *)
(* and the file parses when nothing else is left in it.                    *)

Content == [events : SUBSET Event, size : Nat, whole : BOOLEAN]

Truncated == [events |-> {}, size |-> 0, whole |-> FALSE]

\* Writing from offset 0 leaves the tail of a longer text in place.
Overwritten(old, events) ==
    LET length == Cardinality(events) + 1
    IN  [events |-> events,
         size   |-> IF length < old.size THEN old.size ELSE length,
         whole  |-> length >= old.size]

CutShort(old) == [old EXCEPT !.whole = FALSE]

Idle == [pc |-> "idle", event |-> Null, seen |-> {}, name |-> Null, file |-> Null]

Rebuilding == {w \in Worker : worker[w].pc \in {"open", "write", "rename"}}
Writing    == {w \in Worker : worker[w].pc \in {"write", "rename"}}

InUse == {index} \cup {temp[n] : n \in TempName} \cup {worker[w].file : w \in Worker}

\* A file without a name and without a writer is gone.
Reclaim == content' = [i \in Inode |-> IF i \in InUse' THEN content[i] ELSE Truncated]

IndexReadable == index # Null /\ content[index].whole

\* What a search can find; without a readable index it answers 503.
Searchable == IF IndexReadable THEN content[index].events ELSE {}

----------------------------------------------------------------------------

Init ==
    /\ queue = <<>>
    /\ worker = [w \in Worker |-> Idle]
    /\ temp = [n \in TempName |-> Null]
    /\ index = Null
    /\ content = [i \in Inode |-> Truncated]
    /\ acked = {} /\ indexed = {}
    /\ overlapped = FALSE /\ shared = FALSE
    /\ faults = 0

\* Mutant: the newline would be written before the next line instead of after this one.
ExtendWithoutNewline(e, kind) ==
    /\ e \notin Appended(queue)
    /\ queue' = Append(queue, [event |-> e, kind |-> IF kind = "line" THEN "bare" ELSE kind])

Extend(e, kind) ==
    /\ e \notin Appended(queue)
    /\ queue' = Append(queue, [event |-> e, kind |-> kind])

\* Mutant: the index would be read into memory before the event is appended.
IngestAfterReading(h, e) ==
    /\ worker[h].pc = "idle"
    /\ Extend(e, "line")
    /\ worker' = [worker EXCEPT ![h] = [Idle EXCEPT !.pc = "open", !.event = e, !.seen = Readable(queue)]]
    /\ UNCHANGED <<temp, index, content, acked, indexed, overlapped, shared, faults>>

\* An authorised, valid ingest appends its event and goes on to rebuild.
Ingest(h, e) ==
    /\ worker[h].pc = "idle"
    /\ Extend(e, "line")
    /\ worker' = [worker EXCEPT ![h] = [Idle EXCEPT !.pc = "read", !.event = e]]
    /\ UNCHANGED <<temp, index, content, acked, indexed, overlapped, shared, faults>>

\* The mail webhook appends and answers; it does not rebuild.
MailWebhook(e) ==
    /\ Extend(e, "line")
    /\ acked' = acked \cup {e}
    /\ UNCHANGED <<worker, temp, index, content, indexed, overlapped, shared, faults>>

\* An append that runs out of space has written a part of its line; the
\* handler throws and the client gets 500.
AppendFails(e) ==
    /\ faults < MaxFaults
    /\ \E kind \in {"cut", "bare"} : Extend(e, kind)
    /\ faults' = faults + 1
    /\ UNCHANGED <<worker, temp, index, content, acked, indexed, overlapped, shared>>

StartScript(s) ==
    /\ worker[s].pc = "idle"
    /\ worker' = [worker EXCEPT ![s] = [Idle EXCEPT !.pc = "read"]]
    /\ UNCHANGED <<queue, temp, index, content, acked, indexed, overlapped, shared, faults>>

ReadQueue(w) ==
    /\ worker[w].pc = "read"
    /\ worker' = [worker EXCEPT ![w].pc = "open", ![w].seen = Readable(queue)]
    /\ overlapped' = (overlapped \/ Rebuilding # {})
    /\ UNCHANGED <<queue, temp, index, content, acked, indexed, shared, faults>>

\* A name no rebuild under way has and no earlier one left behind.
Fresh(n) == temp[n] = Null /\ \A v \in Writing : worker[v].name # n

FreshName == CHOOSE n \in TempName : Fresh(n)

\* The names other handlers of the server took in the same millisecond.
SharedNames(w) == IF w \in Handler THEN {worker[v].name : v \in Writing \cap Handler} ELSE {}

FreshInode == CHOOSE i \in Inode : i \notin InUse

\* Bound: the instance has a name and a file left.
RoomLeft == {n \in TempName : Fresh(n)} # {} /\ Inode \ InUse # {}

\* Mutant: the index would be written in place.
OpenInPlace(w) ==
    /\ worker[w].pc = "open" /\ RoomLeft
    /\ LET n == FreshName
           i == IF index = Null THEN FreshInode ELSE index
       IN  /\ index' = i
           /\ temp' = [temp EXCEPT ![n] = i]
           /\ content' = [content EXCEPT ![i] = Truncated]
           /\ worker' = [worker EXCEPT ![w].pc = "write", ![w].name = n, ![w].file = i]
    /\ UNCHANGED <<queue, acked, indexed, overlapped, shared, faults>>

\* writeFile opens the file, which creates it or empties the one that is there.
OpenTemp(w) ==
    /\ worker[w].pc = "open" /\ RoomLeft
    /\ \E n \in {FreshName} \cup SharedNames(w) :
          LET i == IF temp[n] = Null THEN FreshInode ELSE temp[n]
          IN  /\ temp' = [temp EXCEPT ![n] = i]
              /\ content' = [content EXCEPT ![i] = Truncated]
              /\ worker' = [worker EXCEPT ![w].pc = "write", ![w].name = n, ![w].file = i]
              /\ shared' = (shared \/ n \in SharedNames(w))
    /\ UNCHANGED <<queue, index, acked, indexed, overlapped, faults>>

WriteTemp(w) ==
    /\ worker[w].pc = "write"
    /\ content' = [content EXCEPT ![worker[w].file] = Overwritten(@, worker[w].seen)]
    /\ worker' = [worker EXCEPT ![w].pc = "rename", ![w].file = Null]
    /\ UNCHANGED <<queue, temp, index, acked, indexed, overlapped, shared, faults>>

\* Mutant: the script's run would be answered like an ingest.
AnswerUnappended(w, ok) ==
    /\ worker' = [worker EXCEPT ![w] = Idle]
    /\ acked' = acked \cup {worker[w].event}
    /\ indexed' = IF ok THEN indexed \cup ({worker[w].event} \ {Null}) ELSE indexed

\* The answer of an ingest, {received: true, indexed: ok}.  A script run exits.
Answer(w, ok) ==
    /\ worker' = [worker EXCEPT ![w] = Idle]
    /\ acked' = acked \cup ({worker[w].event} \ {Null})
    /\ indexed' = IF ok THEN indexed \cup ({worker[w].event} \ {Null}) ELSE indexed

Publish(w) ==
    /\ worker[w].pc = "rename"
    /\ temp[worker[w].name] # Null
    /\ index' = temp[worker[w].name]
    /\ temp' = [temp EXCEPT ![worker[w].name] = Null]
    /\ Answer(w, TRUE)
    /\ Reclaim
    /\ UNCHANGED <<queue, overlapped, shared, faults>>

\* Another rebuild has renamed the file they shared: rename throws ENOENT.
NothingToRename(w) ==
    /\ worker[w].pc = "rename"
    /\ temp[worker[w].name] = Null
    /\ Answer(w, FALSE)
    /\ UNCHANGED <<queue, temp, index, content, overlapped, shared, faults>>

\* Reading, opening or writing fails; a file that was opened stays behind.
RebuildFails(w) ==
    /\ worker[w].pc \in {"read", "open", "write"}
    /\ faults < MaxFaults
    /\ content' = IF worker[w].pc = "write"
                  THEN [content EXCEPT ![worker[w].file] = CutShort(@)]
                  ELSE content
    /\ Answer(w, FALSE)
    /\ faults' = faults + 1
    /\ UNCHANGED <<queue, temp, index, overlapped, shared>>

\* A process stops; its requests are never answered.
Crash(process) ==
    /\ \E w \in process : worker[w].pc # "idle"
    /\ faults < MaxFaults
    /\ worker' = [w \in Worker |-> IF w \in process THEN Idle ELSE worker[w]]
    /\ faults' = faults + 1
    /\ UNCHANGED <<queue, temp, index, content, acked, indexed, overlapped, shared>>

Next ==
    \/ \E e \in Event : MailWebhook(e) \/ AppendFails(e)
    \/ \E h \in Handler, e \in Event : Ingest(h, e)
    \/ \E s \in Script : StartScript(s) \/ Crash({s})
    \/ \E w \in Worker :
          \/ ReadQueue(w) \/ OpenTemp(w) \/ WriteTemp(w)
          \/ Publish(w) \/ NothingToRename(w) \/ RebuildFails(w)
    \/ Crash(Handler)

Spec == Init /\ [][Next]_vars

----------------------------------------------------------------------------
(* Properties *)

WorkerState ==
    [pc : {"idle", "read", "open", "write", "rename"},
     event : Event \cup {Null}, seen : SUBSET Event,
     name : TempName \cup {Null}, file : Inode \cup {Null}]

(* Types, and that answers and published entries are about appended events. *)
TypeOK ==
    /\ queue \in Seq(Piece)
    /\ worker \in [Worker -> WorkerState]
    /\ temp \in [TempName -> Inode \cup {Null}]
    /\ index \in Inode \cup {Null}
    /\ content \in [Inode -> Content]
    /\ indexed \subseteq acked /\ acked \subseteq Appended(queue)
    /\ overlapped \in BOOLEAN /\ shared \in BOOLEAN
    /\ faults \in 0..MaxFaults

(* The index is built beside the live one and renamed over it, so that a    *)
(* search never reads a half-written index, whatever fails or crashes:      *)
(* true as long as no two rebuilds wrote under one temporary name.          *)
WholeUnlessShared == ~shared /\ index # Null => content[index].whole

(* An event whose ingest was answered indexed: true is found by every later *)
(* search, through failed rebuilds, crashes and script runs, as long as its *)
(* line parses and no two rebuilds overlapped.                              *)
IndexedStaysSearchable ==
    ~overlapped => (indexed \cap Readable(queue)) \subseteq Searchable

(* An acknowledged event is readable by every later rebuild, but for one    *)
(* event at most per append that failed: the one appended next.             *)
LossBoundedByFaults == Cardinality(acked \ Readable(queue)) <= faults

(* Nothing the queue holds only a part of is ever searchable.               *)
NoPartialEventIndexed ==
    \A e \in Searchable : \E i \in DOMAIN queue : queue[i].event = e /\ queue[i].kind # "cut"
============================================================================
