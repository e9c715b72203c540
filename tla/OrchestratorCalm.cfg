SPECIFICATION Spec
CONSTANTS
    d1 = d1
    d2 = d2
    NoDevice = NoDevice
    Devices = {d1, d2}
    Dashed = {d1}
    Faults = {}
    MaxDisturbances = 3
INVARIANTS CalmIsAccurate
PROPERTIES OutageRecovers DevicesAppear
