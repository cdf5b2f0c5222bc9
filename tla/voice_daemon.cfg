SPECIFICATION FairSpec
CONSTANTS
    Modes = {"utterance", "frame", "local"}
    MaxIds = 2
    MaxKeys = 2
    MaxSignals = 2
INVARIANTS TypeOK CommandNeedsWake OneCommandPerWake HalfDuplex
PROPERTIES SignalEnds
CHECK_DEADLOCK FALSE
