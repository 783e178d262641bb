SPECIFICATION Spec
CONSTANTS
    Request = {r1, r2, r3}
    Session = {s1}
    Project = {p1}
    Input = {"delete_all", "ok"}
    configured_project_id = NoProject
    NoProject = NoProject
    Batch <- MCBatch
    conflict_limit = 2
    limit = 3
    expires_after_turns = 2
SYMMETRY Symmetry
INVARIANTS
    WipeAnswersQuestion
CHECK_DEADLOCK FALSE
