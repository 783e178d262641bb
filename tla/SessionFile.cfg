SPECIFICATION Spec
CONSTANTS
    Time <- MCTime
    NoFile = NoFile
    Torn = Torn
    MaxTurns = 3
INVARIANTS
    TypeOK
    AlwaysLoadable
    NotPersistedTrue
    SyncedTurnsStay
PROPERTY
    ImplementsRegister
CHECK_DEADLOCK FALSE
