SPECIFICATION Spec
CONSTANTS
    Modes = {"utterance"}
    MaxIds = 2
    MaxKeys = 2
    MaxSignals = 1
INVARIANTS GoodbyeIsKept
CHECK_DEADLOCK FALSE
