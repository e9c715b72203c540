SPECIFICATION Spec
CONSTANTS
    d1 = d1
    d2 = d2
    NoDevice = NoDevice
    Devices = {d1, d2}
    Dashed = {d1}
    Faults = {"rest", "mqtt", "startup_drop", "startup_event", "cancel"}
    MaxDisturbances = 2
INVARIANTS
    TypeOK
    OutageAllOffline
    OutageExclusive
    ShutdownComplete
PROPERTIES ImplementsContract StartupEnds FailureEnds
