SPECIFICATION Spec
CHECK_DEADLOCK FALSE
CONSTANTS
    MaxTime = 4
    Now = 3
    Grace = 1
    Values = {0}
    Thresholds = {1}
    Widths = {1}
    MaxBuckets = 2
    MaxLimit = 2
    Cap = 2
    Envelope = 1
    Absent = Absent
INVARIANT
    SurvivorsAreRecent
