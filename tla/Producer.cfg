SPECIFICATION Spec
CONSTANTS
    m1 = m1
    m2 = m2
    m3 = m3
    c1 = c1
    c2 = c2
    Message = {m1, m2, m3}
    Caller = {c1, c2}
    MaxCopies = 2
INVARIANTS CountersFollowResults
PROPERTIES ImplementsOutbox
CHECK_DEADLOCK FALSE
