SPECIFICATION Spec
CONSTANTS
    Guests = {g1, g2}
    Desks = {o1}
    Handoffs = {h1, h2}
    Analyses = {a1, a2}
    Transfers = {t1, t2}
    NoGuest = NoGuest
    NoHandoff = NoHandoff
    NoAnalysis = NoAnalysis
    NoTransfer = NoTransfer
    Capacity = 1
    Life = 1
    MaxTime = 1
    MaxRequests = 8
INVARIANTS OneDecision EndedStaysEnded TrackedTransfers GoneLeavesNothing
SYMMETRY VisualSymmetry
CHECK_DEADLOCK FALSE
