SPECIFICATION Spec
CONSTANTS
    MaxTurns = 2
    MaxChunks = 1
    Capacity = 2
    MaxBargeIns = 1
    MaxLosses = 1
INVARIANTS InterruptedStaysSilent StoppedIsSilent AnswersAreNotCutShort
CHECK_DEADLOCK FALSE
