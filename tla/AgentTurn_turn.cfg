SPECIFICATION FairSpec
CONSTANTS
    registered = registered
    invented = invented
    Names <- MCNames
    Tools <- MCTools
    MaxToolCalls = 3
    Deadline = 2
    MaxClock = 3
    MaxBatch = 2
    MaxChunks = 1
INVARIANTS
    TypeOK
    RequestWellFormed
    StreamGrammar
PROPERTIES
    RefinesEventStream
    TurnEnds
