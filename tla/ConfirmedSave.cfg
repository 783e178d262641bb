SPECIFICATION FairSpec
CONSTANTS
    Content = {d1, d2}
    max_attempts = 3
    MaxOps = 2
    MaxRecalls = 2
INVARIANTS
    TypeOK
    SavedClaimTrue
    NoResultHonest
PROPERTIES
    OperationEnds
CHECK_DEADLOCK FALSE
