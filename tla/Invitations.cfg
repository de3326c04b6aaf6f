SPECIFICATION Spec
CONSTANTS
    Address = {ann}
    Role = {"USER", "ADMIN"}
    Handler = {h1, h2}
    Nobody = nobody
    MaxInvitations = 2
    MaxToken = 3
    MaxTroubled = 1
SYMMETRY Interchangeable
INVARIANTS TypeOK SpentOnce OneActiveUnlessOverlapped WorkingLinkArrives
CHECK_DEADLOCK FALSE
