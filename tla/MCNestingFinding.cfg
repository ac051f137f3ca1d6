SPECIFICATION Spec
CONSTANTS
    Names = {"a", "b", "c", "d"}
    Tags = {"r", "x"}
    Doc = Doc
    Nothing = Nothing
    NoLimit = NoLimit
    Inputs <- AllInputs
    TextFragment = 2
    ReadBuffer = 3
PROPERTIES
    EndsWhereItStarted
CHECK_DEADLOCK FALSE
