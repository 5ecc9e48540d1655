SPECIFICATION PartsSpec
CHECK_DEADLOCK FALSE
CONSTANTS
    Values = {"one", "two"}
    MaxText = 0
    Names = {query, alerts}
    Args = {d1, d2}
    MaxExpected = 3
    MaxActual = 3
    NoCeiling = NoCeiling
    Chunks = {hot, cold}
    Tools = {query}
    Budgets = {1, 2}
    Accounts = {ann, bob}
    Nobody = Nobody
    Slots = {s1, s2}
    TTL = 1
    Lifetime = 2
    MaxTime = 2
    MaxTokens = 2
INVARIANT
    SetMatchPasses
