SPECIFICATION Spec
CONSTANTS
    SECOND = 2
    update_interval = 1
    MaxRows = 4
    MaxArray = 3
    MaxTime = 9
    Times = {0, 3}
    MaxMeasurements = 1
INVARIANTS
    NoneForgotten
