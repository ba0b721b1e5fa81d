SPECIFICATION Spec
CONSTANTS
    Thresholds <- Low
    Percent <- LowLevel
    Full = 2
    Channels = {discord, telegram}
    Attempts = 2
    MaxWeek = 3
    MaxFaults = 1
CONSTRAINT LastWeekIsCalm
INVARIANTS
    DeliveryAccounted
PROPERTIES
    NothingStaleIsSent
