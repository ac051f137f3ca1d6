SPECIFICATION Spec
CONSTANTS
    MaxNodes = 16
    BadNames = {"1bad"}
    Values <- TheValues
    Other <- OtherDocument
    SelfReference = FALSE
    XmlId = TRUE
    WithDoctype = FALSE
    Disturbances = {"continue", "break", "error"}
    Scenarios <- Scenes
INVARIANTS
    LinksAgree
    ReadsTheTree
    TreeOfEvents
PROPERTIES
    IsAForest
    FailsCleanly
CHECK_DEADLOCK FALSE
