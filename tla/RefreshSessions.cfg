\* Two accounts, three sessions: rotation chains, replays and a whole-table request.
SPECIFICATION Spec
CONSTANTS
    User = {u1, u2}
    Session = {s1, s2, s3}
    Request = {r1}
    Null = Null
SYMMETRY Symmetry
INVARIANTS
    ChainOK
    OneLivePerFamily
    EndedStaysEnded
PROPERTIES
    GrowsOnlyByRotation
    FamilyRevocationIsIdle
CHECK_DEADLOCK FALSE
