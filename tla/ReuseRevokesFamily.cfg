\* The README's promise on replayed refresh tokens, against the refresh handler.
SPECIFICATION Spec
CONSTANTS
    User = {u1}
    Session = {s1, s2, s3}
    Request = {r1}
    Null = Null
PROPERTIES
    ReuseRevokesFamily
CHECK_DEADLOCK FALSE
