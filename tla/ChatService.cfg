\* The limits of the services in every order, ties included.
SPECIFICATION Spec
CONSTANTS
    Request = {r1}
    Null = Null
    Limits <- AllLimits
    MaxCrashes = 1
CHECK_DEADLOCK FALSE
INVARIANTS
    TypeOK
    FailuresAreTrue
    CallOutlivesAnswerOnlyIfLate
    NoDropWithLongIdleLimit
PROPERTY ImplementsContract
