SPECIFICATION Spec
CONSTANTS
    low = low  high = high
    Kinds <- MCKinds
    Values <- MCValues
    FirstValue = low
    None = None
    Faults = {"rest", "mqtt"}
    MaxDisturbances = 3
    MaxEarly = 1
INVARIANTS TypeOK CalmIsAccurate
PROPERTIES OutageRepairs
