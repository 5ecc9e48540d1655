SPECIFICATION Spec
CHECK_DEADLOCK FALSE
CONSTANTS
    Calls = {a, b}
    NoCall = NoCall
    Settings = {"password"}
    MaxAccounts = 2
INVARIANT
    OwnerIsAnswering
