SPECIFICATION Spec
CONSTANTS
    MaxNodes = 24
    BadNames = {"1bad"}
    Many = 99
    PrefixOrder <- ThePrefixes
    LowerCase <- TheLowerCase
    Plans <- ThePlans
INVARIANTS
    EvaluatesAsDefined
    PrintParsesBack
    DepthIsBounded
CHECK_DEADLOCK FALSE
