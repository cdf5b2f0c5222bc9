SPECIFICATION Spec
CONSTANTS
    c1 = c1
    c2 = c2
    s1 = s1
    s2 = s2
    g1 = g1
    g2 = g2
    Callers = {c1, c2}
    Sessions = {s1, s2}
    Grants = {g1, g2}
    NoSession = NoSession
    NoGrant = NoGrant
    MaxLife = 1
    MaxTime = 2
    MaxRequests = 5
INVARIANTS AnsweredRevocationHolds UseIsCovered
SYMMETRY AccessSymmetry
CHECK_DEADLOCK FALSE
