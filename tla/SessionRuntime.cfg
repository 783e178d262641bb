SPECIFICATION MCSpec
CONSTANTS
    Input <- AllMessages
    MaxTurns = 4
    MaxRuns = 2
    expires_after_turns = 2
INVARIANTS
    ShownIsDurable
    WipeIsConfirmed
    NoteAnswersFreshQuestion
    ContinuationHasFact
CHECK_DEADLOCK FALSE
