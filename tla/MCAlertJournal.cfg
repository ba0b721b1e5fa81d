SPECIFICATION MCSpec
CHECK_DEADLOCK FALSE
CONSTANTS
    Keys <- AllKeys
    Channels <- AllChannels
INVARIANTS
    RowsValid
    InterruptionIsFinal
    OnePendingThreshold
    RecoveryKeepsOneAuthority
PROPERTIES
    DeliveredIsForever
