SPECIFICATION Spec
CONSTANTS
    Slots = {s1, s2}
    Users = {u1, u2}
    Emails = {e1, e2}
    Devices = {d1, d2}
    Names = {n1, n2}
    Times = {t1}
    Levels = {}
    None = None
    Keep = Keep
    MaxRows = 1
    Ops = {"signup", "close", "create", "update", "delete"}
    Requests <- MCRequests
    s1 = s1
    s2 = s2
    u1 = u1
    u2 = u2
    e1 = e1
    e2 = e2
    d1 = d1
    d2 = d2
    n1 = n1
    n2 = n2
    t1 = t1
SYMMETRY Symmetry
INVARIANTS
    TypeOK
PROPERTIES
    RefinesStore
    WritesByOwner
