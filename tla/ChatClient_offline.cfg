SPECIFICATION Spec
CHECK_DEADLOCK FALSE
CONSTANTS
    query = query
    aggregate = aggregate
    Names <- OneName
    Networks = {"online"}
    MaxSends = 2
    MaxCalls = 1
    MaxMessages = 4
INVARIANT
    IsStreamingHonest
