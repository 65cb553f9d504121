SPECIFICATION Spec
CONSTANTS
    Bits = 2
    Null = Null
    None = None
    Figures <- MCFigures
    Days <- MCDays
    Dictionaries <- MCDictionaries
    Times <- MCTimes
    Registries <- MCRegistries
    Databases <- MCDatabases
CHECK_DEADLOCK FALSE
INVARIANTS
    LoopsNamed
    VerdictsExplained
    AbusesCounted
    MalwareFound
    StampsRight
    ImportsKeep
