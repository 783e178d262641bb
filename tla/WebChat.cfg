SPECIFICATION Spec
CONSTANTS
    Request = {r1, r2, r3}
    Session = {s1, s2}
    Project = {p1}
    Input = {"delete_all", "ok", "query", "note", "fact", "reset"}
    configured_project_id = NoProject
    NoProject = NoProject
    Batch <- MCBatch
    conflict_limit = 2
    limit = 2
    expires_after_turns = 2
SYMMETRY Symmetry
INVARIANTS
    WipeForgetsAcknowledged
    LossHasACause
    FailedLeavesPrefix
CHECK_DEADLOCK FALSE
