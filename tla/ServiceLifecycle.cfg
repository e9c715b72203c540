SPECIFICATION Spec
CONSTANTS
    Callbacks = {c1, c2}
    MaxTransitions = 3
INVARIANTS
    TypeOK
    HistoryIsPath
    NeverActiveAgain
    HeardOnceInOrder
PROPERTIES
    EventuallyHeard
    ImplementsContract
