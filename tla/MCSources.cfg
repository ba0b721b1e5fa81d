SPECIFICATION MCSpec
CHECK_DEADLOCK FALSE
CONSTANTS
    Messages <- TwoMessages
    Counters <- TwoCounters
    Overlap = 1
    MaxLines = 4
    MaxTotal = 2
    MaxInode = 3
    MaxTime = 4
    MaxCount = 3
    Replies <- SomeReplies
    Deadline = 1
    MaxLine = 2
    MaxWrites = 3
    Retention = 2
    MaxEntries = 2
    Times <- FourTimes
    Readings <- SomeReadings
    OldEntries <- OneOldEntry
    MaxUpdates = 3
    MaxFaults = 1
INVARIANTS
    TokensAreCounted
    ExchangeIsSound
    ShownIsNewest
PROPERTIES
    HermesExact
    AnswerIsRead
    UpdatesAreWhole
