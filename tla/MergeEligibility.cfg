SPECIFICATION Spec
CONSTANTS
    Requirement = {r1}
    Evidence = {e1}
    Source = {s1, s2}
    Evaluator = {v1}
    OtherPolicies <- MCOtherPolicies
    MaxDeviations = 2
    NoRecord = NoRecord
INVARIANTS
    VerifiedEligibleIsClean
    GenuineRecordVerifies
    PrimaryExplains
    VerifiedIsTheDecision
PROPERTY
    RepairNeverHurts
SYMMETRY Sources
