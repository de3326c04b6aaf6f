--------------------------- MODULE MCMemorySearch ---------------------------
\* Three events over a small vocabulary: a mail with a body in its metadata, at
\* two depths, notes whose texts share words, and one that has to be cut.
EXTENDS MemorySearch

Lower(word) == CASE word = "Alpha" -> "alpha" [] word = "E-mail" -> "e-mail" [] OTHER -> word
MCWord   == {"Alpha", "alphabet", "E-mail", "the", "constructor", "2026", "--", "note"}
MCnormal ==
    [word \in MCWord |->
        CASE word = "E-mail" -> <<"e", "mail">> [] word = "--" -> <<>> [] OTHER -> <<Lower(word)>>]
MClower   == [word \in MCWord |-> Lower(word)]
MCTerm    == UNION {Range(MCnormal[word]) : word \in MCWord}
MCIgnored == {"e", "the"}
MCWithin  == {<<"alpha", "alphabet", "start">>}

\* The metadata of mails that differ in what stands under their sensitive keys.
Body    == <<"text", <<"Alpha", "constructor">>>>
To      == <<"text", <<"Alpha">>>>
Note    == <<"text", <<"note">>>>
Subject == <<"text", <<"Alpha", "--", "alphabet">>>>
Scalars == {Body, To, Note, Subject, JsonNull}
Part(body)   == <<"object", <<<<"body", body>>, <<"to", To>>>>>>
Parts(body)  == <<"list", <<Note, Part(body)>>>>
Mail(b, c)   == <<"object", <<<<"body", b>>, <<"parts", Parts(c)>>, <<"subject", Subject>>>>>>
Bodies       == {Body, Note, JsonNull}
Flat         == {<<"object", <<>>>>, <<"object", <<<<"flag", JsonNull>>>>>>, <<"list", <<>>>>}
MCJson  == Scalars \cup Flat \cup {Part(b) : b \in Bodies} \cup {Parts(b) : b \in Bodies}
                   \cup {Mail(b, c) : b \in Bodies \cup {Parts(JsonNull)}, c \in Bodies}
MCdepth ==
    [v \in MCJson |->
        IF v \in Scalars THEN 0 ELSE IF v \in Flat \cup {Part(b) : b \in Bodies} THEN 1
        ELSE IF v[1] = "list" THEN 2 ELSE 3]

P(source, kind, text, metadata) ==
    [source |-> source, kind |-> kind, text |-> text, metadata |-> metadata,
     externalId |-> <<>>, occurredAt |-> "none", privacy |-> "none"]

MCPayload ==
    {P(<<"Alpha">>, <<"note">>, <<"the", "alphabet">>, Undefined),
     P(<<"note">>, <<"note">>, <<"constructor">>, <<"object", <<>>>>),
     P(<<"E-mail">>, <<"note">>, <<>>, Mail(Body, Body)),
     [P(<<"note">>, <<"E-mail">>, <<"Alpha", "Alpha", "--">>, <<"object", <<<<"flag", JsonNull>>>>>>) EXCEPT !.occurredAt = "ok", !.externalId = <<"Alpha">>],
     P(<<"note">>, <<>>, <<>>, Undefined),
     [P(<<"note">>, <<"note">>, <<>>, <<"list", <<>>>>) EXCEPT !.privacy = "bad"]}
MCQuery == {<<>>, <<"Alpha">>, <<"the">>, <<"E-mail">>, <<"alphabet", "note">>, <<"constructor", "Alpha">>,
            <<"note", "Alpha", "the", "alphabet">>}
MCLimit == {0, 1, 2}
=============================================================================
