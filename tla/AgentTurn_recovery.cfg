SPECIFICATION Spec
CONSTANTS
    registered = registered
    invented = invented
    Names <- MCNames
    Tools <- MCTools
    MaxToolCalls = 2
    Deadline = 2
    MaxClock = 3
    MaxBatch = 2
    MaxChunks = 1
INVARIANT
    RecoveryPossible
