\* A sign-in and two requests for tokens around one account.
SPECIFICATION Spec
CONSTANTS
    User = {u1}
    Login = {l1}
    Mailing = {m1, m2}
    Token = {t1, t2}
    FailureLimit = 2
    MaxEpoch = 1
    MaxHeld = 2
    Null = Null
SYMMETRY Symmetry
CHECK_DEADLOCK FALSE
INVARIANTS
    ResetSignsOut
    VoidTokensStayVoid
    DisabledStaysOut
    OnlyAdministratorUnlocks
    OneLiveToken
