--------------------------- MODULE PlatformConfig ---------------------------
(***************************************************************************)
(* The platform console: browser tabs of administrators                    *)
(* (components/platform/PlatformAdminClient.tsx), the handlers of          *)
(* /api/admin/platform, and the one file they store the configuration in   *)
(* (lib/platform/store.ts).                                                *)
(*                                                                         *)
(* Saving a draft and publishing both read the file, change the document   *)
(* and write the file back, in place: writeFile truncates the file, then   *)
(* writes from its start.  Nothing serialises two requests.  A draft takes *)
(* its content from the tab and its publication from the file; a           *)
(* publication takes its content from the file and sends none.             *)
(*                                                                         *)
(* Publications are numbered in the order in which they are made; the      *)
(* number stands for publishedAt and publishedBy, 0 for null.  updatedAt   *)
(* is only displayed, and so are the publication and the messages a tab    *)
(* shows (the server replaces what a tab sends of them): left out.         *)
(***************************************************************************)
EXTENDS PlatformDocument

CONSTANTS
    Tab,              \* open consoles; each has one request at a time
    Edit,             \* what can be typed: pairs of a section and a JSON value
    MaxPublications,  \* bound on publications
    MaxFaults         \* bound on failed writes and crashes

ASSUME EditAssumption == \A e \in Edit : e[1] \in Section
ASSUME BoundAssumption == MaxPublications \in Nat /\ MaxFaults \in Nat

VARIABLES
    file,          \* the configuration file
    tab,           \* what each console shows
    request,       \* the request each console waits for
    publications,  \* how many publications have been given a number
    stored,        \* what the file would hold if requests ran one by one
    raced,         \* a request read the file while another was to write it
    overlapped,    \* a request truncated the file while another was to write it
    faults

vars == <<file, tab, request, publications, stored, raced, overlapped, faults>>

Document == [config |-> defaultPlatformConfig, published |-> 0]
Absent   == [state |-> "absent", doc |-> Document]
Incomplete(state) == [state |-> state, doc |-> Document]

NoRequest == [kind |-> "none", phase |-> "none", payload |-> Undefined, doc |-> Document, answer |-> "none"]

\* Mutant: a file that does not parse would be read as the default.
ReadableOrDefault == file.state = "whole" => validatePlatformConfig(file.doc.config).ok

\* The reader accepts a missing file and a file whose document validates.
Readable == \/ file.state = "absent"
            \/ file.state = "whole" /\ validatePlatformConfig(file.doc.config).ok

\* What readPlatformConfig returns.
Current == IF file.state = "absent" THEN Document
           ELSE [file.doc EXCEPT !.config = validatePlatformConfig(file.doc.config).config]

Pending(c) == request[c].phase \in {"open", "write"}  \* has read, has yet to write
Writers    == {c \in Tab : request[c].phase = "write"}

Shown(doc) == [s \in Section |-> doc.config[2][s]]

Init ==
    /\ file = Absent /\ stored = Document
    /\ tab = [c \in Tab |-> [open |-> FALSE, text |-> Shown(Document)]]
    /\ request = [c \in Tab |-> NoRequest]
    /\ publications = 0 /\ raced = FALSE /\ overlapped = FALSE /\ faults = 0

----------------------------------------------------------------------------
(* The console.                                                            *)

Busy(c) == request[c].kind # "none"

\* The page is rendered from the file; it fails when the file is not readable.
PlatformAdminPage(c) ==
    /\ ~Busy(c) /\ Readable
    /\ tab' = [tab EXCEPT ![c] = [open |-> TRUE, text |-> Shown(Current)]]
    /\ UNCHANGED <<file, request, publications, stored, raced, overlapped, faults>>

\* The text areas are not disabled while a request runs.
Type(c) ==
    /\ tab[c].open
    /\ \E e \in Edit : tab' = [tab EXCEPT ![c].text[e[1]] = e[2]]
    /\ UNCHANGED <<file, request, publications, stored, raced, overlapped, faults>>

\* saveDraft sends the five texts; it sends nothing unless each is an array.
SaveDraft(c) ==
    /\ tab[c].open /\ ~Busy(c)
    /\ \A s \in Section : isArray(tab[c].text[s])
    /\ request' = [request EXCEPT ![c] = [NoRequest EXCEPT !.kind = "save", !.phase = "sent",
                                                           !.payload = Object(tab[c].text)]]
    /\ UNCHANGED <<file, tab, publications, stored, raced, overlapped, faults>>

\* With the approval phrase and a note of twenty characters; no content is sent.
PublishChanges(c) ==
    /\ tab[c].open /\ ~Busy(c)
    /\ request' = [request EXCEPT ![c] = [NoRequest EXCEPT !.kind = "publish", !.phase = "sent"]]
    /\ UNCHANGED <<file, tab, publications, stored, raced, overlapped, faults>>

\* A saved draft comes back as the server stored it and replaces the texts,
\* what was typed meanwhile included.  Any other answer, or none, replaces
\* no text, not even that of a publication.
Receive(c) ==
    /\ request[c].phase = "answered"
    /\ tab' = IF request[c].answer = "ok" /\ request[c].kind = "save"
              THEN [tab EXCEPT ![c].text = Shown(request[c].doc)]
              ELSE tab
    /\ request' = [request EXCEPT ![c] = NoRequest]
    /\ UNCHANGED <<file, publications, stored, raced, overlapped, faults>>

----------------------------------------------------------------------------
(* The handlers.                                                           *)

Answered(c, answer) ==
    request' = [request EXCEPT ![c] = [kind |-> request[c].kind, phase |-> "answered", payload |-> Undefined,
                                       doc |-> IF answer = "ok" THEN request[c].doc ELSE Document, answer |-> answer]]

\* No administrator, no recent re-authentication, too many requests, a wrong
\* CSRF token, too large a payload, or a publication without its approval.
Refuse(c) ==
    /\ request[c].phase = "sent"
    /\ Answered(c, "error")
    /\ UNCHANGED <<file, tab, publications, stored, raced, overlapped, faults>>

ReadFails(c) ==
    /\ request[c].phase = "sent" /\ ~Readable
    /\ Answered(c, "error")
    /\ UNCHANGED <<file, tab, publications, stored, raced, overlapped, faults>>

Proceed(c, doc) ==
    /\ request' = [request EXCEPT ![c].phase = "open", ![c].doc = doc, ![c].payload = Undefined]
    /\ raced' = (raced \/ \E d \in Tab : Pending(d))

\* Mutant: the draft would not carry over the publication of the file.
SavePlatformDraftUnpublished(c) ==
    /\ request[c].phase = "sent" /\ Readable
    /\ LET validated == validatePlatformConfig(request[c].payload)
       IN  IF validated.ok
           THEN Proceed(c, [config |-> validated.config, published |-> 0])
           ELSE Answered(c, "error") /\ UNCHANGED raced
    /\ UNCHANGED <<file, tab, publications, stored, overlapped, faults>>

SavePlatformDraft(c) ==
    /\ request[c].phase = "sent" /\ Readable
    /\ LET validated == validatePlatformConfig(request[c].payload)
       IN  IF validated.ok
           THEN Proceed(c, [config |-> validated.config, published |-> Current.published])
           ELSE Answered(c, "error") /\ UNCHANGED raced
    /\ UNCHANGED <<file, tab, publications, stored, overlapped, faults>>

PublishPlatformConfig(c) ==
    /\ request[c].phase = "sent" /\ Readable
    /\ publications < MaxPublications
    /\ LET validated == validatePlatformConfig(Current.config)
       IN  IF validated.ok
           THEN /\ publications' = publications + 1
                /\ Proceed(c, [config |-> validated.config, published |-> publications + 1])
           ELSE Answered(c, "error") /\ UNCHANGED <<publications, raced>>
    /\ UNCHANGED <<file, tab, stored, overlapped, faults>>

PUT(c)  == request[c].kind = "save" /\ (Refuse(c) \/ ReadFails(c) \/ SavePlatformDraft(c))
POST(c) == request[c].kind = "publish" /\ (Refuse(c) \/ ReadFails(c) \/ PublishPlatformConfig(c))

(* writePlatformConfig: mkdir and the truncating open, then the write.     *)

Truncate(c) ==
    /\ request[c].phase = "open"
    /\ file' = Incomplete("empty")
    /\ request' = [request EXCEPT ![c].phase = "write"]
    /\ overlapped' = (overlapped \/ Writers # {})
    /\ UNCHANGED <<tab, publications, stored, raced, faults>>

\* Over another text, a shorter one leaves the other's tail behind it.
Overwritten(doc) ==
    {[state |-> "whole", doc |-> doc]} \cup
    (IF file.state = "empty" \/ file = [state |-> "whole", doc |-> doc]
     THEN {} ELSE {Incomplete("mixed")})

\* One by one, a draft changes the content only and a publication its number only.
Effect(c) == IF request[c].kind = "save" THEN [stored EXCEPT !.config = request[c].doc.config]
                                         ELSE [stored EXCEPT !.published = request[c].doc.published]

WritePlatformConfig(c) ==
    /\ request[c].phase = "write"
    /\ file' \in Overwritten(request[c].doc)
    /\ stored' = Effect(c)
    /\ Answered(c, "ok")
    /\ UNCHANGED <<tab, publications, raced, overlapped, faults>>

\* The open fails, or the write stops half-way: the handler answers 500.
WriteFails(c) ==
    /\ faults < MaxFaults /\ faults' = faults + 1
    /\ Pending(c)
    /\ file' = IF request[c].phase = "open" THEN file ELSE Incomplete("mixed")
    /\ Answered(c, "error")
    /\ UNCHANGED <<tab, publications, stored, raced, overlapped>>

\* The server process ends; what it had in hand is answered by the proxy.
Crash ==
    /\ faults < MaxFaults /\ faults' = faults + 1
    /\ request' = [c \in Tab |-> IF request[c].phase \in {"none", "answered"} THEN request[c]
                                 ELSE [NoRequest EXCEPT !.kind = request[c].kind, !.phase = "answered", !.answer = "error"]]
    /\ UNCHANGED <<file, tab, publications, stored, raced, overlapped>>

Next ==
    \/ \E c \in Tab :
          \/ PlatformAdminPage(c) \/ Type(c) \/ SaveDraft(c) \/ PublishChanges(c) \/ Receive(c)
          \/ PUT(c) \/ POST(c) \/ Truncate(c) \/ WritePlatformConfig(c) \/ WriteFails(c)
    \/ Crash

Spec == Init /\ [][Next]_vars

----------------------------------------------------------------------------

(* What is written can be read again: a complete document in the file      *)
(* validates and validation returns it unchanged, and the file holds a     *)
(* complete document, or is not there yet, whenever nobody is writing it,  *)
(* unless two writes overlapped or one did not finish.                     *)
WhatIsWrittenCanBeRead ==
    /\ file.state = "whole" => validatePlatformConfig(file.doc.config) = [ok |-> TRUE, config |-> file.doc.config]
    /\ ~overlapped /\ faults = 0 /\ Writers = {} => file.state \in {"absent", "whole"}

(* As long as no request reads the file while another is about to write    *)
(* it, and no write fails, the file holds what it would hold if requests   *)
(* ran one by one: no draft undoes a publication, no publication changes   *)
(* the content, and both start from what the last one stored.              *)
AsIfOneByOne ==
    ~raced /\ faults = 0 /\ Writers = {} => file.state \in {"absent", "whole"} /\ file.doc = stored

Wedged == file.state \in {"empty", "mixed"} /\ \A c \in Tab : ~Pending(c)

(* A file that was left incomplete stays so: saving a draft and publishing *)
(* both read it first and fail, and the console cannot even be opened.     *)
WedgedForGood == [][Wedged => Wedged']_vars
=============================================================================
