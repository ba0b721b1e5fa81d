SPECIFICATION MCSpec
CONSTANTS
    Windows <- OneWindow
    Limits <- TwoLimits
    Resets <- NearResets
    Grace = 2
    BusyWait = 1
    FailWait = 2
    Timeout = 2
    Interval = 3
    ActiveInterval = 2
    MaxTime = 4
    MaxRequests = 2
    MaxManual = 1
    MaxCrashes = 1
INVARIANTS
    FreshAnswer
    CheckedAfterGrace
PROPERTIES
    AnswerIsFinal
    ChecksAreKept
