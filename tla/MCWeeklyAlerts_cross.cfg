SPECIFICATION Spec
CONSTANTS
    Thresholds <- Both
    Percent <- Level
    Full = 4
    Channels = {discord}
    Attempts = 2
    MaxWeek = 2
    MaxFaults = 1
INVARIANTS
    StateMatchesJournal
PROPERTIES
    KeepsPromise
