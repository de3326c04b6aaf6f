\* A reset while a sign-in with the old password is under way.
SPECIFICATION Spec
CONSTANTS
    User = {u1}
    Login = {l1}
    Mailing = {m1, m2}
    Token = {t1, t2}
    FailureLimit = 2
    MaxEpoch = 1
    MaxHeld = 1
    Null = Null
SYMMETRY Symmetry
CHECK_DEADLOCK FALSE
INVARIANT MustSignInAgain
