SPECIFICATION Spec
CONSTANTS
    Admin = {ann}
    Handler = {h1, h2}
    Login = {l1}
    Null = null
    CodeCount = 1
    MaxBatch = 2
    MaxToken = 2
    MaxReset = 1
SYMMETRY Interchangeable
INVARIANTS EnrolmentConsistent ResetEndsProofs ProofsCountOnce
CONSTRAINT SecondTokenAlone
CHECK_DEADLOCK FALSE
