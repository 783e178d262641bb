SPECIFICATION Spec
CONSTANTS
    Content = {d1, d2}
    max_attempts = 2
    MaxOps = 2
    MaxRecalls = 1
INVARIANTS
    NotSavedClaimTrue
CHECK_DEADLOCK FALSE
