SPECIFICATION FairSpec
CONSTANTS
    Names = {"a", "b", "c", "d"}
    Tags = {"r", "x"}
    Doc = Doc
    Nothing = Nothing
    NoLimit = NoLimit
    Inputs <- AllInputs
    TextFragment = 2
    ReadBuffer = 3
INVARIANTS
    FeedsWhatIsRead
    AgreesWithReference
    WithinLimits
PROPERTIES
    ReadsTheDocument
    ReadEnds
CHECK_DEADLOCK FALSE
