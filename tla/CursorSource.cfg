SPECIFICATION FairSpec
CONSTANTS
    N = 3
    Validators = {2}
    MaxErrors = 1
    NoLimit = NoLimit
    UsizeMax = 3
    Counts = {0, 1, 3}
    MaxEvents = 4
INVARIANTS
    TypeOK
    AgreesWithCaller
PROPERTIES
    KeepsContract
    LimitHolds
    RunEnds
