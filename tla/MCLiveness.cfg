SPECIFICATION MCSpec
CHECK_DEADLOCK FALSE
PROPERTIES
    EveryResetIsChecked
    CollectionEnds
    EveryAnomalyIsTold
    EveryRequestEnds
