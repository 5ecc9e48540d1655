SPECIFICATION Spec
CHECK_DEADLOCK FALSE
CONSTANTS
    Accounts = {ann, bob}
    None = None
    Mutations = {remove}
    Streams = {chat}
    Devices = Devices
    Poll = Poll
    MaxAttempts = 2
INVARIANT
    SharedCacheOfUser
