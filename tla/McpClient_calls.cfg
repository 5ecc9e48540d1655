SPECIFICATION Spec
CHECK_DEADLOCK FALSE
CONSTANTS
    Calls = {a, b}
    NoCall = NoCall
    Settings = {"token", "password", "both"}
    MaxAccounts = 2
INVARIANTS
    TypeOK
    OneLoginOnFirstUse
    SecondRejectionMeansGone
    AnswersForOwner
PROPERTIES
    RuntimeBuiltOnce
    CallsEnd
