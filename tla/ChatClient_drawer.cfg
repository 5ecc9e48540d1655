SPECIFICATION Spec
CHECK_DEADLOCK FALSE
CONSTANTS
    query = query
    aggregate = aggregate
    Names <- TwoNames
    Networks = {"steady", "online"}
    MaxSends = 2
    MaxCalls = 2
    MaxMessages = 4
INVARIANTS
    TypeOK
    StopReaches
    NothingDiscardedSent
    ChipsInPlace
