SPECIFICATION FairSpec
CONSTANTS
    ToolName <- MCToolName
    Backends <- MCBackends
    PlansFor <- MCPlansFor
    StepId = {1, 2, 3, 4}
    MaxSteps = 3
    UserText <- MCUserText
INVARIANTS
    TypeOK
    CallsGated
    TrailIsPrefix
    CompletedHonest
    
PROPERTIES
    Terminates
CHECK_DEADLOCK FALSE
