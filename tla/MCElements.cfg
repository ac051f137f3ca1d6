SPECIFICATION SceneSpec
CONSTANTS
    PrefixNames = {"p", "q", "xml", "xmlns"}
    None = None
    Xml = "xml"
    Xmlns = "xmlns"
    Locals = {"e", "f", "g", "k", "id", "space", "lang", "base"}
    Names = {"u", "v", "xml-ns", "xmlns-ns"}
    XmlNs = "xml-ns"
    XmlnsNs = "xmlns-ns"
    Events <- MCEvents
    MaxOpen = 2
    Tags <- MCTags
    Values <- MCValues
    Empty = ""
    Collapsed <- MCCollapsed
    Attlist <- MCAttlist
    Outside <- MCOutside
    Standalone = TRUE
    Extensions = {"xml:id", "xml:base"}
    DocumentBase <- MCBase
    Absolute = {"u"}
    NoUri = {"bad"}
    MaxElementDepth = 2
    MaxAttributes = 4
    Strings = {"r", "s", "a", "b"}
    Reserved <- MCReserved
    MaxNames = 4
    Identities = 6
    MaxPools = 4
    Documents <- MCDocuments
    Later <- MCLater
    Pointers <- MCPointers
    WithDoctype = FALSE
    MaxPending = 5
    NoLimit = NoLimit
    Runs = 2
    Absent = Absent
    SchemeNames = {"s", "S", "t", "a"}
    SchemeRules <- MCSchemeRules
    Forbidden = {"bad"}
    Lowered <- MCLowered
    Decoded <- MCDecoded
INVARIANTS
    EnforcesTheRules
    ContextAsDefined
    AttributesAsDeclared
    StrictAcceptsTheParser
    ForwardsTheSelection
    PendingBounded
    HandlesAgree
    ReferencesResolve
PROPERTIES
    KeepsTheContext
CHECK_DEADLOCK FALSE
