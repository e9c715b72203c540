SPECIFICATION Spec
CONSTANTS
    FloatExponents = 3
    MaxTroubles = 5
INVARIANTS TypeOK ConnectedIsRevoked Watched StopComplete LastsToOverflow
PROPERTIES VanishedIsDetected StopReturns Reconnects
