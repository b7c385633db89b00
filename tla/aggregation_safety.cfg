SPECIFICATION Spec
CONSTANTS
    SECOND = 2
    update_interval = 1
    MaxRows = 5
    MaxArray = 3
    MaxTime = 9
    Times = {0, 3}
    MaxMeasurements = 10
INVARIANTS
    TypeOK
    AggregatedOnce
    StampsIncrease
    WithinInterval
    PicksRepresent
CHECK_DEADLOCK FALSE
