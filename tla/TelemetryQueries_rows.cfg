SPECIFICATION Spec
CHECK_DEADLOCK FALSE
CONSTANTS
    MaxTime = 4
    Now = 2
    Grace = 1
    Values = {0, 1, 2}
    Thresholds = {0, 1}
    Widths = {1, 2}
    MaxBuckets = 2
    MaxLimit = 2
    Cap = 2
    Envelope = 1
    Absent = Absent
INVARIANTS
    TypeOK
    LimitKeepsNewest
    WindowsTile
    AlertsAreBreaches
    ToolResultFits
PROPERTY
    PurgeCountExact
