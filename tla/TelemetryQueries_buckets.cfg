SPECIFICATION Spec
CHECK_DEADLOCK FALSE
CONSTANTS
    MaxTime = 4
    Now = 4
    Grace = 1
    Values = {0}
    Thresholds = {1}
    Widths = {2}
    MaxBuckets = 2
    MaxLimit = 4
    Cap = 2
    Envelope = 1
    Absent = Absent
INVARIANT
    BucketCeiling
