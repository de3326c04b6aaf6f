\* Two handlers and a run of the script over two events.
SPECIFICATION Spec
CONSTANTS
    Event = {e1, e2}
    Handler = {h1, h2}
    Script = {s1}
    TempName = {t1, t2, t3, t4, t5}
    Inode = {i1, i2, i3, i4, i5, i6}
    Null = Null
    MaxFaults = 2
SYMMETRY Symmetry
CHECK_DEADLOCK FALSE
INVARIANTS
    TypeOK
    WholeUnlessShared
    IndexedStaysSearchable
    LossBoundedByFaults
    NoPartialEventIndexed
