SPECIFICATION Spec
CHECK_DEADLOCK FALSE
CONSTANTS
    query = query
    aggregate = aggregate
    Names <- OneName
    Networks = {"steady"}
    MaxSends = 3
    MaxCalls = 1
    MaxMessages = 4
INVARIANT
    RequestAccepted
