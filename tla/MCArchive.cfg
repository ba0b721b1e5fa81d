SPECIFICATION MCSpec
CHECK_DEADLOCK FALSE
CONSTANTS
    Owners <- TwoOwners
    Alphabet <- AnyRead
    Steps = {1, 6, 10}
    Histories <- OldHistories
    StartAt = 3
    MaxCycles = 4
    MaxFaults = 2
    MinAdvance = 2
    ConfirmTolerance = 0
    GapLimit = 4
    MaxAhead = 40
    ShiftTolerance = 2
    OscillationDelta = 1
    RecentSpan = 4
    MediumSpan = 8
    MediumBucket = 2
    OldBucket = 4
    Retention = 9
    HistorySpan = 6
INVARIANTS
    ResetsAreProven
PROPERTIES
    NeededIsKept
