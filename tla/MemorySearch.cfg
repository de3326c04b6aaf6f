SPECIFICATION SearchSpec
CONSTANTS
    Word <- MCWord
    Term <- MCTerm
    normal <- MCnormal
    lower <- MClower
    DateWord = "2026"
    Ignored <- MCIgnored
    Inherited = {"constructor"}
    Within <- MCWithin
    Key = {"body", "parts", "subject", "to", "flag"}
    Sensitive = {"body"}
    Json <- MCJson
    depth <- MCdepth
    Payload <- MCPayload
    Query <- MCQuery
    Limit <- MCLimit
    MaxIndexText = 7
    MaxExcerpt = 3
    MaxMetadataText = 2
    MaxQueryLength = 3
    MaxLimit = 2
    MaxEvents = 3
    MaxTime = 2
INVARIANTS MentionsAreFound BodiesDoNotMatter SameIndexFromScript
