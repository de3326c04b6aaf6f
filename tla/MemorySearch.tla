---------------------------- MODULE MemorySearch ----------------------------
(***************************************************************************)
(* What the memory index contains and what a search returns: the           *)
(* validation of ingested events (lib/memory/store.ts), the index and the  *)
(* ranking (lib/memory/index.ts), and the second builder of the same index *)
(* in scripts/rebuild-memory-index.mjs.                                    *)
(*                                                                         *)
(* A text is a sequence of the words it is written with.  `normal` says    *)
(* which search words a written word becomes (case folded, accents and     *)
(* punctuation removed: none, one or several), `lower` what its lower case *)
(* is.  Lengths are counted in words: a limit falls between two words, and  *)
(* the dots of a cut text belong to none.  MemoryIndex models when the     *)
(* index is read and replaced, and incomplete lines; here an append and a  *)
(* rebuild are one step each.                                              *)
(***************************************************************************)
EXTENDS Integers, SequencesExt

CONSTANTS
    Word, Term,     \* written words and search words
    normal, lower,  \* from the ones to the others
    DateWord,       \* every date is written with one word of its own
    Ignored,        \* search words of one letter and STOP_WORDS
    Inherited,      \* search words that every JavaScript object has as a property
    Within,         \* <<part, whole, at>>: a search word in another one, "start", "end" or "inside" of it
    Key, Sensitive, \* keys of metadata, and SENSITIVE_METADATA_KEYS in any case
    Json, depth,    \* the JSON values that may come in metadata, and how deep they are nested
    Payload,        \* what clients send to the ingest route
    Query, Limit,   \* what clients send to the search route
    MaxIndexText, MaxExcerpt, MaxMetadataText, MaxQueryLength, MaxLimit,
    MaxEvents,      \* bound on the queue
    MaxTime         \* bound on the clock

VARIABLES
    stored,  \* the stored events, oldest first
    built    \* the entries of index.json

searchVars == <<stored, built>>

(* JSON values: a pair of a type and a content; an object is the sequence  *)
(* of its keys and values, and what it holds is nested less deep.          *)

Undefined == <<"undefined", <<>>>>
JsonNull  == <<"null", <<>>>>

isJsonObject(v) == v[1] = "object"
isScalar(v)     == v[1] \in {"text", "null"}  \* numbers and booleans as their texts

ASSUME WordAssumption == normal \in [Word -> Seq(Term)] /\ DateWord \in Word

ASSUME JsonAssumption ==
    /\ Json \subseteq {JsonNull} \cup ({"text"} \X Seq(Word)) \cup ({"list"} \X Seq(Json))
                         \cup ({"object"} \X Seq(Key \X Json))
    /\ depth \in [Json -> Nat]
    /\ \A v \in Json : v[1] = "list" => \A i \in DOMAIN v[2] : depth[v[2][i]] < depth[v]
    /\ \A v \in Json : isJsonObject(v) => \A i \in DOMAIN v[2] : depth[v[2][i][2]] < depth[v]

----------------------------------------------------------------------------
(* Ingest.  A payload has its texts as sequences, <<>> for absent or blank *)
(* ones, and for a date or a privacy level "none", "ok" or "bad".          *)

Optional == {"none", "ok", "bad"}
MemoryIngestPayload ==
    [source : Seq(Word), kind : Seq(Word), text : Seq(Word), externalId : Seq(Word),
     occurredAt : Optional, privacy : Optional, metadata : Json \cup {Undefined}]

ASSUME RequestAssumption ==
    /\ Payload \subseteq MemoryIngestPayload
    /\ Query \subseteq Seq(Word)
    /\ {MaxIndexText, MaxExcerpt, MaxMetadataText, MaxQueryLength, MaxLimit} \subseteq Nat \ {0}
    /\ MaxTime \in Nat

validateMemoryIngestPayload(p) ==
    /\ p.source # <<>> /\ p.kind # <<>>
    /\ p.occurredAt # "bad" /\ p.privacy # "bad"
    /\ p.metadata = Undefined \/ isJsonObject(p.metadata)

appendMemoryEvent(p, id, time) ==
    [id |-> id, receivedAt |-> time, source |-> p.source, kind |-> p.kind, text |-> p.text,
     externalId |-> p.externalId, occurredAt |-> p.occurredAt, metadata |-> p.metadata]

----------------------------------------------------------------------------
(* The index.                                                              *)

isStoredMemoryEvent(e) == e.id > 0 /\ e.receivedAt > 0 /\ e.source # <<>> /\ e.kind # <<>>

\* The members of s that are not in S, in their order.
Without(s, S) == FlattenSeq([i \in DOMAIN s |-> IF s[i] \in S THEN <<>> ELSE <<s[i]>>])

\* What readMemoryEventsFromQueue returns.
StoredEvents(events) ==
    FlattenSeq([n \in DOMAIN events |-> IF isStoredMemoryEvent(events[n]) THEN <<events[n]>> ELSE <<>>])

truncate(text, max) == IF Len(text) <= max THEN text ELSE SubSeq(text, 1, max - 1)

normalizeForSearch(text) == FlattenSeq([i \in DOMAIN text |-> normal[text[i]]])
tokenize(text) == Without(normalizeForSearch(text), Ignored)

\* The count of a word that objects inherit is not a number: the first
\* addition already starts from a function.
NaN == -1

countTerms(text) ==
    LET words == tokenize(text)
    IN  [w \in Range(words) |->
            IF w \in Inherited THEN NaN ELSE Cardinality({i \in DOMAIN words : words[i] = w})]

\* Mutant: sensitive keys would be left out of the outermost object only.
searchTextOutermost(value) ==
    LET nestedText[v \in Json] ==
            CASE v[1] = "text"   -> v[2]
              [] v[1] = "list"   -> FlattenSeq([i \in DOMAIN v[2] |-> nestedText[v[2][i]]])
              [] v[1] = "object" -> FlattenSeq([i \in DOMAIN v[2] |->
                                        IF v = value /\ v[2][i][1] \in Sensitive THEN <<>> ELSE nestedText[v[2][i][2]]])
              [] OTHER           -> <<>>
    IN  nestedText[value]

jsonValueToSearchText(value) ==
    LET searchText[v \in Json] ==
            IF v[1] = "text" THEN v[2]
            ELSE IF v[1] = "list" THEN FlattenSeq([i \in DOMAIN v[2] |-> searchText[v[2][i]]])
            ELSE IF v[1] = "object"
                 THEN FlattenSeq([i \in DOMAIN v[2] |-> IF v[2][i][1] \in Sensitive THEN <<>> ELSE searchText[v[2][i][2]]])
            ELSE <<>>
    IN  searchText[value]

\* The entries of an object that are kept, each with its value cut.
safeEntries(entries) ==
    FlattenSeq([i \in DOMAIN entries |->
        IF entries[i][1] \in Sensitive \/ ~isScalar(entries[i][2]) THEN <<>>
        ELSE <<<<entries[i][1], IF entries[i][2] = JsonNull THEN JsonNull
                               ELSE <<"text", truncate(entries[i][2][2], MaxMetadataText)>>>>>>])

sanitizeMetadata(metadata) ==
    IF metadata = Undefined \/ safeEntries(metadata[2]) = <<>> THEN Undefined
    ELSE <<"object", safeEntries(metadata[2])>>

buildSearchableText(e) ==
    truncate(e.source \o e.kind \o e.externalId \o (IF e.occurredAt = "ok" THEN <<DateWord>> ELSE <<>>)
               \o <<DateWord>> \o e.text
               \o (IF e.metadata = Undefined THEN <<>> ELSE jsonValueToSearchText(e.metadata)), MaxIndexText)

MemoryIndexEntry(e, text, metadata, terms) ==
    [id |-> e.id, receivedAt |-> e.receivedAt, source |-> e.source, kind |-> e.kind,
     text |-> truncate(e.text, MaxIndexText), metadata |-> metadata, searchableText |-> text, terms |-> terms]

buildMemoryIndex(events) ==
    [n \in DOMAIN events |->
        MemoryIndexEntry(events[n], buildSearchableText(events[n]), sanitizeMetadata(events[n].metadata),
                         countTerms(buildSearchableText(events[n])))]

(* The script has functions of its own for all of this.                    *)

scriptCountTerms(text) ==
    LET words == Without(FlattenSeq([i \in DOMAIN text |-> normal[text[i]]]), Ignored)
    IN  [w \in Range(words) |-> IF w \in Inherited THEN NaN ELSE Cardinality({i \in DOMAIN words : words[i] = w})]

scriptSearchText(value) ==
    LET text[v \in Json] ==
            IF v[1] = "text" THEN v[2]
            ELSE IF v[1] = "list" THEN FlattenSeq([i \in DOMAIN v[2] |-> text[v[2][i]]])
            ELSE IF isJsonObject(v)
                 THEN FlattenSeq([i \in DOMAIN v[2] |-> IF v[2][i][1] \notin Sensitive THEN text[v[2][i][2]] ELSE <<>>])
            ELSE <<>>
    IN  text[value]

\* Mutant: the script would keep every scalar, whatever its key.
scriptKeepsBodies(metadata) ==
    IF ~isJsonObject(metadata) THEN Undefined
    ELSE LET safe == FlattenSeq([i \in DOMAIN metadata[2] |-> IF isScalar(metadata[2][i][2]) THEN <<metadata[2][i]>> ELSE <<>>])
         IN  IF safe = <<>> THEN Undefined ELSE <<"object", safe>>

scriptSafeEntries(entries) ==
    FlattenSeq([i \in DOMAIN entries |->
        IF entries[i][1] \in Sensitive THEN <<>>
        ELSE IF entries[i][2][1] = "text"
             THEN <<<<entries[i][1], <<"text", truncate(entries[i][2][2], MaxMetadataText)>>>>>>
        ELSE IF isScalar(entries[i][2]) THEN <<entries[i]>> ELSE <<>>])

scriptSanitizeMetadata(metadata) ==
    IF ~isJsonObject(metadata) THEN Undefined
    ELSE LET safe == scriptSafeEntries(metadata[2])
         IN  IF safe = <<>> THEN Undefined ELSE <<"object", safe>>

scriptSearchableText(e) ==
    truncate(e.source \o e.kind \o e.externalId \o (IF e.occurredAt = "ok" THEN <<DateWord>> ELSE <<>>)
               \o <<DateWord>> \o e.text
               \o (IF isJsonObject(e.metadata) THEN scriptSearchText(e.metadata) ELSE <<>>), MaxIndexText)

scriptIndex(events) ==
    [n \in DOMAIN events |->
        LET text == scriptSearchableText(events[n])
        IN  MemoryIndexEntry(events[n], text, scriptSanitizeMetadata(events[n].metadata), scriptCountTerms(text))]

----------------------------------------------------------------------------
(* A search.                                                               *)

validateMemorySearchPayload(query, limit) ==
    query # <<>> /\ Len(query) <= MaxQueryLength /\ limit \in 1..MaxLimit

\* A query is searched for as one text, whose ends may lie inside words.
includes(text, query) ==
    LET Place(i) == IF Len(query) = 1 THEN {"start", "end", "inside"}
                    ELSE (IF i = 1 THEN {"end"} ELSE {}) \cup (IF i = Len(query) THEN {"start"} ELSE {})
    IN  \E from \in 0..(Len(text) - Len(query)) : \A i \in DOMAIN query :
            \/ query[i] = text[from + i]
            \/ \E at \in Place(i) : <<query[i], text[from + i], at>> \in Within

scoreEntry(entry, queryTerms, normalizedQuery) ==
    LET FieldIs(w)  == \E field \in {entry.source, entry.kind} : Len(field) = 1 /\ lower[field[1]] = w
        OfTerm(w)   == (IF w \in DOMAIN entry.terms THEN entry.terms[w] ELSE 0) + (IF FieldIs(w) THEN 2 ELSE 0)
        phraseFound == normalizedQuery # <<>> /\ includes(normalizeForSearch(entry.searchableText), normalizedQuery)
    IN  IF queryTerms \cap Inherited # {} THEN NaN
        ELSE Cardinality(UNION {{w} \X (1..OfTerm(w)) : w \in queryTerms})  \* the sum of OfTerm
             + (IF phraseFound THEN Max({2, Cardinality(queryTerms)}) ELSE 0)

score(entry, query) == scoreEntry(entry, Range(tokenize(query)), normalizeForSearch(query))

makeExcerpt(entry) ==
    truncate(IF entry.text # <<>> THEN entry.text ELSE entry.searchableText, MaxExcerpt)

MemorySearchResult(entry, query) ==
    [id |-> entry.id, score |-> score(entry, query), excerpt |-> makeExcerpt(entry),
     receivedAt |-> entry.receivedAt, metadata |-> entry.metadata]

hits(entries, query) == {n \in DOMAIN entries : score(entries[n], query) > 0}

\* The comparison of the sort, which leaves equal results in the order of the index.
before(entries, query, n, m) ==
    LET scores == <<score(entries[n], query), score(entries[m], query)>>
        times  == <<entries[n].receivedAt, entries[m].receivedAt>>
    IN  \/ scores[1] > scores[2]
        \/ scores[1] = scores[2] /\ times[1] > times[2]
        \/ scores[1] = scores[2] /\ times[1] = times[2] /\ n < m

\* How many results come before that of entry n.
rank(entries, query, n) == Cardinality({m \in hits(entries, query) : before(entries, query, m, n)})

\* Mutant: the limit would be applied before the ranking.
searchMemoryIndexUnranked(entries, query, limit) ==
    LET First(i) == CHOOSE n \in hits(entries, query) : Cardinality({m \in hits(entries, query) : m < n}) = i - 1
    IN  [i \in 1..Min({limit, Cardinality(hits(entries, query))}) |-> MemorySearchResult(entries[First(i)], query)]

searchMemoryIndex(entries, query, limit) ==
    LET Ranked(i) == CHOOSE n \in hits(entries, query) : rank(entries, query, n) = i - 1
    IN  [i \in 1..Min({limit, Cardinality(hits(entries, query))}) |-> MemorySearchResult(entries[Ranked(i)], query)]

----------------------------------------------------------------------------

SearchInit == stored = <<>> /\ built = <<>>

\* The time is read before the line is appended: appends may overtake each other.
IngestEvent ==
    /\ Len(stored) < MaxEvents
    /\ \E p \in Payload, time \in 1..MaxTime :
          /\ validateMemoryIngestPayload(p)
          /\ stored' = Append(stored, appendMemoryEvent(p, Len(stored) + 1, time))
    /\ UNCHANGED built

rebuildMemoryIndex == built' = buildMemoryIndex(StoredEvents(stored)) /\ UNCHANGED stored
RunScript          == built' = scriptIndex(StoredEvents(stored)) /\ UNCHANGED stored

SearchNext == IngestEvent \/ rebuildMemoryIndex \/ RunScript

SearchSpec == SearchInit /\ [][SearchNext]_searchVars

----------------------------------------------------------------------------
(* Properties.                                                             *)

Searches == {s \in Query \X Limit : validateMemorySearchPayload(s[1], s[2])}

Said(e) ==
    e.source \o e.kind \o e.externalId \o e.text
        \o (IF e.metadata = Undefined THEN <<>> ELSE jsonValueToSearchText(e.metadata))

\* Whoever searches for a word of an indexed event gets that event, or as many
\* events as were asked for, none of them ranked below it.  The text of the
\* event must fit into the entry, and no word of the query may be one that
\* objects inherit: with such a word a search finds nothing.
MentionsAreFound ==
    \A s \in Searches, n \in DOMAIN built :
        LET words  == Range(tokenize(s[1]))
            found  == searchMemoryIndex(built, s[1], s[2])
        IN  (/\ words \cap Inherited = {}
             /\ words \cap Range(tokenize(Said(stored[n]))) # {}
             /\ Len(Said(stored[n])) + 2 <= MaxIndexText) =>
                \/ \E i \in DOMAIN found : found[i].id = n
                \/ /\ Len(found) = s[2]
                   /\ \A i \in DOMAIN found :
                         \/ found[i].score > score(built[n], s[1])
                         \/ found[i].score = score(built[n], s[1]) /\ found[i].receivedAt >= built[n].receivedAt

\* Two values that differ at most in what stands under sensitive keys.
Alike(value, other) ==
    LET alike[p \in Json \X Json] ==
            LET v == p[1]
                w == p[2]
            IN  /\ v[1] = w[1]
                /\ v[1] \in {"list", "object"} => Len(v[2]) = Len(w[2])
                /\ v[1] = "list" => \A i \in DOMAIN v[2] : alike[<<v[2][i], w[2][i]>>]
                /\ v[1] = "object" => \A i \in DOMAIN v[2] :
                      /\ v[2][i][1] = w[2][i][1]
                      /\ v[2][i][1] \in Sensitive \/ alike[<<v[2][i][2], w[2][i][2]>>]
                /\ v[1] \notin {"list", "object"} => v = w
    IN  alike[<<value, other>>]

\* What metadata keeps under a sensitive key, at any depth, has no influence on
\* the index, whoever built it: not on what is found, on the ranking, on an
\* excerpt nor on a citation.
BodiesDoNotMatter ==
    \A n \in DOMAIN built, m \in Json :
        LET e == stored[n]
        IN  e.metadata \in Json /\ Alike(e.metadata, m) =>
                <<built[n]>> = buildMemoryIndex(<<[e EXCEPT !.metadata = m]>>)

\* The script that an administrator runs and the server that rebuilds after
\* every ingest make the same index of a queue, with functions of their own.
SameIndexFromScript == scriptIndex(StoredEvents(stored)) = buildMemoryIndex(StoredEvents(stored))
=============================================================================
