SPECIFICATION Spec
CHECK_DEADLOCK FALSE
CONSTANTS
    MaxTime = 2
    Now = 1
    Grace = 1
    Values = {0, 1, 2}
    Thresholds = {1}
    Widths = {2}
    MaxBuckets = 2
    MaxLimit = 2
    Cap = 2
    Envelope = 1
    Absent = Absent
INVARIANT
    NoServerError
