\* Two administrator requests racing a login or a sign-up, two accounts.
SPECIFICATION Spec
CONSTANTS
    User = {a, b}
    Request = {r1, r2}
    Login = {l1}
    Operation <- Guarded
    CodeCount = 1
    Null = Null
SYMMETRY Symmetry
INVARIANTS
    GuardHolds
    DecisionStands
PROPERTIES
    RevocationLeavesAnother
CHECK_DEADLOCK FALSE
