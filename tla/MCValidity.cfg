SPECIFICATION Spec
CONSTANTS
    NameTokens <- TheNameTokens
    NcNames <- TheNcNames
    NmTokens <- TheNmTokens
    Scenes <- TheScenes
    Root = "r"
INVARIANTS
    VerdictIsTheDefinition
    StopsAtTheLimit
    
CHECK_DEADLOCK FALSE
