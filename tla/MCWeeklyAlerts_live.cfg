SPECIFICATION FairSpec
CONSTANTS
    Thresholds <- Low
    Percent <- LowLevel
    Full = 2
    Channels = {discord}
    Attempts = 2
    MaxWeek = 3
    MaxFaults = 1
PROPERTIES
    EveryAlertSettles
    CrossingIsAnnounced
