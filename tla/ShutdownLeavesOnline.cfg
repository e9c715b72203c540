SPECIFICATION Spec
CONSTANTS
    d1 = d1
    d2 = d2
    NoDevice = NoDevice
    Devices = {d1}
    Dashed = {d1}
    Faults = {"cancel"}
    MaxDisturbances = 2
INVARIANTS
    StoppedAllOffline
