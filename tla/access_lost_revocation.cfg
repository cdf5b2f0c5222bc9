SPECIFICATION Spec
CONSTANTS
    c1 = c1
    c2 = c2
    s1 = s1
    s2 = s2
    g1 = g1
    Callers = {c1, c2}
    Sessions = {s1, s2}
    Grants = {g1}
    NoSession = NoSession
    NoGrant = NoGrant
    MaxLife = 1
    MaxTime = 2
    MaxRequests = 4
PROPERTIES RevokedIsLeftByRequest
CHECK_DEADLOCK FALSE
