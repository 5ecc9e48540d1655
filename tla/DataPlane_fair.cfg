SPECIFICATION FairSpec
CONSTANTS
    Slots = {s1, s2}
    Users = {u1}
    Emails = {e1}
    Devices = {d1}
    Names = {n1}
    Times = {t1, t2}
    Levels = {1, 2}
    None = None
    Keep = Keep
    MaxRows = 2
    Ops = {"signup", "close", "create", "update", "delete", "ingest", "purge"}
    Requests <- Contending
    s1 = s1
    s2 = s2
    u1 = u1
    e1 = e1
    d1 = d1
    n1 = n1
    t1 = t1
    t2 = t2
INVARIANT
    Consistent
PROPERTIES
    RefinesStore
    SuccessMeansStored
    Quiescence
