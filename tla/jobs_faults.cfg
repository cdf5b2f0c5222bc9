SPECIFICATION Spec
CONSTANTS
    c1 = c1
    f1 = f1
    j1 = j1
    Jobs = {j1}
    QuietJobs = {}
    Controls = {c1}
    Ops = {"pause", "resume", "cancel"}
    Fps = {f1}
    NoJob = NoJob
    NoFp = NoFp
    MaxAttempts = 2
    Limit = 8
    MaxEnvelopes = 64
    Grace = 1
    Lead = 1
    MaxTime = 2
    MaxRequests = 1
    MaxCrashes = 1
    MaxAuditFaults = 1
    MaxStoreFaults = 1
    Day = 3
    QuietFrom = 1
    QuietTo = 2
    BaseBackoff = 1
    MaxBackoff = 2
    ZoneOffset = 1
    ClientOffsets = {0}
INVARIANTS RefusedLeavesNothing InputRetained
PROPERTIES ImplementsLifecycle
CHECK_DEADLOCK FALSE
