SPECIFICATION Spec
CONSTANTS
    Thresholds <- Low
    Percent <- LowLevel
    Full = 2
    Channels = {discord}
    Attempts = 1
    MaxWeek = 3
    MaxFaults = 1
INVARIANTS
    OnlyStaleExpires
