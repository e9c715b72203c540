SPECIFICATION Spec
CONSTANTS
    FloatExponents = 3
    MaxTroubles = 5
INVARIANTS NeverGivesUp
