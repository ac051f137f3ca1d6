SPECIFICATION Spec
CONSTANTS
    Sources <- MCSources
    Counts = {1, 100}
    SniffLimit = 48
    CompactThreshold = 3
    MaxPending = 4
INVARIANTS
    ChunksDoNotMatter
    OutcomeMatchesTheRun
    
CHECK_DEADLOCK FALSE
