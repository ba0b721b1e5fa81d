SPECIFICATION MCSpec
CHECK_DEADLOCK FALSE
CONSTANTS
    Owners <- TwoOwners
    Alphabet <- AnyRead
    Steps = {1, 3}
    MinAdvance = 2
    ConfirmTolerance = 0
    GapLimit = 2
    MaxAhead = 20
    ShiftTolerance = 2
    OscillationDelta = 1
    MaxSamples = 5
    MaxTime = 9
    MaxFaults = 1
INVARIANTS
    AcceptedIsNoAnomaly
