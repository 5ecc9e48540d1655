SPECIFICATION Spec
CHECK_DEADLOCK FALSE
CONSTANTS
    Calls = {a, b}
    NoCall = NoCall
    Settings = {"both"}
    MaxAccounts = 2
PROPERTY
    SuppliedTokenKept
