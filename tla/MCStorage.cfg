SPECIFICATION MCSpec
CHECK_DEADLOCK FALSE
CONSTANTS
    Writers <- TwoWriters
    Readers <- OneReader
    Originals <- AllOriginals
    MaxBackups = 3
    MaxCrashes = 1
    Runs <- TwoRuns
    Keep = 1
    Foreign <- TwoForeign
    MaxTime = 1
    MaxFiles = 4
    Requests <- TwoRequests
    MaxEntries = 1
    MaxWrites = 1
    MaxReplacements = 1
    MaxFaults = 0
INVARIANTS
    HashedOnce
    ShownOpaque
    BackedUp
    BackupsAreSafe
    ServedIsCurrent
PROPERTIES
    FutureUntouched
    EnoughBackups
