SPECIFICATION Spec
CONSTANTS
    Works <- MCWorks
    Main = "m"
    NoLimit = NoLimit
    XmlBase = TRUE
    XmlLang = TRUE
INVARIANTS
    ChainIsWhatIsRead
    ReplacesInclusions
    ErrorsReachUpstream
PROPERTIES
    QuietOnceStopped
