SPECIFICATION Spec
CONSTANTS
    u1 = u1
    u2 = u2
    l1 = l1
    d1 = d1
    c1 = c1
    c2 = c2
    User = {u1, u2}
    Login = {l1}
    Nobody = Nobody
    Doc = {d1}
    Caller = {c1, c2}
    MaxCalls = 6
    MaxFaults = 1
SYMMETRY Symmetry
INVARIANTS DocumentsHaveFiles VerdictStandsUnlessRivalled OfferedTwiceOnlyByOverlap StatsOffByComersAndGoers
CHECK_DEADLOCK FALSE
