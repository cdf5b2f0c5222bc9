SPECIFICATION Spec
CONSTANTS
    c1 = c1
    c2 = c2
    p1 = p1
    p2 = p2
    x1 = x1
    a1 = a1
    a2 = a2
    Conns = {c1, c2}
    Proposals = {p1, p2}
    Contents = {x1}
    Approvals = {a1, a2}
    NoConn = NoConn
    NoProposal = NoProposal
    NoContent = NoContent
    NoApproval = NoApproval
    MaxActive = 2
    ProposalTTL = 1
    OnceTTL = 1
    Durations = {1}
    MaxTime = 1
INVARIANTS OnceRunsOnce SucceedsOnce OneStandingGrant CancelledStaysCancelled
SYMMETRY ApprovalSymmetry
CHECK_DEADLOCK FALSE
