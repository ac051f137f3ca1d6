SPECIFICATION Spec
CONSTANTS
    MaxNodes = 16
    BadNames = {"1bad"}
    Values <- TheValues
    Other <- OtherDocument
    SelfReference = TRUE
    XmlId = TRUE
    WithDoctype = FALSE
    Disturbances = {"continue", "break", "error"}
    Scenarios <- Scenes
INVARIANTS
    WalksPairUp
CHECK_DEADLOCK FALSE
