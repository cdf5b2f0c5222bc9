SPECIFICATION FairSpec
CONSTANTS
    c1 = c1
    f1 = f1
    j1 = j1
    j2 = j2
    Jobs = {j1, j2}
    QuietJobs = {j1}
    Controls = {c1}
    Ops = {"pause", "resume", "cancel"}
    Fps = {f1}
    NoJob = NoJob
    NoFp = NoFp
    MaxAttempts = 2
    Limit = 1
    MaxEnvelopes = 1
    Grace = 1
    Lead = 1
    MaxTime = 2
    MaxRequests = 1
    MaxCrashes = 1
    MaxAuditFaults = 0
    MaxStoreFaults = 0
    Day = 3
    QuietFrom = 0
    QuietTo = 1
    BaseBackoff = 1
    MaxBackoff = 2
    ZoneOffset <- Behind
    ClientOffsets = {0, 1}
PROPERTIES ClaimsAreSettled DueIsClaimed ExpiredInputsGo
