SPECIFICATION VoiceSpec
CONSTANTS
    User = {ann}
    Call = {c1, c2}
    ConcurrentLimit = 1
    MaxSeconds = 2
    MaxSessions = 3
    Limit = 2
    Window = 2
    MaxRequests = 3
INVARIANTS VoiceTypeOK LimitExceededOnlyByOverlap AtMostTwoWindows
PROPERTY PlaceComesBack
CHECK_DEADLOCK FALSE
