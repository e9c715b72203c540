SPECIFICATION Spec
CONSTANTS
    None = None
    Homes <- SmallHomes
    Values <- SmallValues
    Vocabulary <- SmallVocabulary
    MaxInFlight = 2
    MaxDisturbances = 3
    MaxCommands = 2
INVARIANTS
    TypeOK
    Delivered
    Fed
    Accurate
    DoneIsApplied
    Echo
PROPERTIES
    EchoComes
CHECK_DEADLOCK FALSE
