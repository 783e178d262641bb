SPECIFICATION FairSpec
CONSTANTS
    Request = {r1, r2}
    Session = {s1}
    Project = {p1, p2}
    Input = {"delete_all", "ok", "no", "query", "note", "fact", "reset"}
    configured_project_id = p1
    NoProject = NoProject
    Batch <- MCBatch
    conflict_limit = 2
    limit = 3
    expires_after_turns = 2
PROPERTY
    EveryRequestEnds
CHECK_DEADLOCK FALSE
