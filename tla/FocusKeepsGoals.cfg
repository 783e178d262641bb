SPECIFICATION MemorySpec
CONSTANTS
    Name = {n1, n2}
    Content = {c1, c2}
    Blank = Blank
    Scope = {s1}
    Tokens <- MCTokens
    TokenBudget = 2
    MaxItems = 2
    MaxRecords = 3
    MaxTime = 3
    MaxFaults = 1
    SavedKind = {"decision"}
    None = None
    Thing = {"ai", "ai agent", "llm"}
    Person = {p1, p2}
    Overlap <- MCOverlap
    AiKey = "ai"
    AiRelated = {"ai", "ai agent", "llm"}
    Label = {"ban gai", "nguoi yeu", "ban"}
    LookupLimit = 3
    ScanLimit = 4
    WipeLimit = 5
    MaxFacts = 4
    Nobody = Nobody
SYMMETRY MemorySymmetry
INVARIANTS
    FocusKeepsGoals
CHECK_DEADLOCK FALSE
