SPECIFICATION Spec
CONSTANTS
    c1 = c1
    f1 = f1
    j1 = j1
    Jobs = {j1}
    QuietJobs = {j1}
    Controls = {c1}
    Ops = {"pause", "resume", "cancel"}
    Fps = {f1}
    NoJob = NoJob
    NoFp = NoFp
    MaxAttempts = 2
    Limit = 8
    MaxEnvelopes = 64
    Grace = 3
    Lead = 1
    MaxTime = 4
    MaxRequests = 2
    MaxCrashes = 1
    MaxAuditFaults = 0
    MaxStoreFaults = 0
    Day = 3
    QuietFrom = 1
    QuietTo = 2
    BaseBackoff = 1
    MaxBackoff = 2
    ZoneOffset = 1
    ClientOffsets <- BehindAndAhead
INVARIANTS TypeOK AttemptsWithinBudget RunningIsHeld
PROPERTIES PauseIsRespected TerminalIsFinal ImplementsLifecycle
