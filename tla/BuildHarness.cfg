SPECIFICATION HarnessSpec
CONSTANTS
    RequiredEvidence = {"pytest"}
    allowed_paths = {"in", "both", "manifest"}
    forbidden_paths = {"both"}
    DEPENDENCY_FILES = {"manifest"}
    InvalidPaths = {"bad"}
    broad_scope_allowed = FALSE
    DependencyApproval = TRUE
    GateInputs <- MCGateInputs
    RawReports <- MCRawReports
    NoneYet = NoneYet
    Writer = {w1, w2}
    Content = {c1, c2}
    Absent = Absent
    Torn = Torn
    Checkout <- MCCheckout
    Candidate <- MCCandidate
    Requirement = {"pytest"}
    EvidenceId = {e1, e2}
    RunId = {r1, r2}
    TaskId = {"t1"}
    RejectionStatus = {"EXECUTION_FAILED", "COMMIT_MISMATCH", "REPOSITORY_MISMATCH", "DIRTY_WORKTREE"}
    MaxCollected = 2
    Nothing = Nothing
SYMMETRY Ids
INVARIANTS
    HarnessTypeOK
    ShippingIsEarned
    GatePassIsProof
    ArtifactIsWhole
    LoggedEventsAreRead
    VerifiedBelongsToRun
PROPERTIES
    OverwriteNeedsRace
CHECK_DEADLOCK FALSE
