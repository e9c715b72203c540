SPECIFICATION Spec
CONSTANTS
    d1 = d1
    d2 = d2
    NoDevice = NoDevice
    Devices = {d1}
    Dashed = {d1}
    Faults = {}
    MaxDisturbances = 2
PROPERTIES
    GracefulStop
