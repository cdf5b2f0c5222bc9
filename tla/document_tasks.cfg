SPECIFICATION FairSpec
CONSTANTS
    c1 = c1
    c2 = c2
    r1 = r1
    f1 = f1
    j1 = j1
    j2 = j2
    p1 = p1
    p2 = p2
    Conns = {c1, c2}
    Starters = {c1}
    Roots = {r1}
    Children = {f1}
    Jobs = {j1, j2}
    Providers = {p1, p2}
    NoConn = NoConn
    NoTask = NoTask
    NoProvider = NoProvider
    MaxAttempts = 2
    MaxCancels = 1
    MaxFaults = 1
INVARIANTS OwnAttempt EgressEnds CompletedIsAudited CancelStands
PROPERTIES StartedIsSettled
CHECK_DEADLOCK FALSE
