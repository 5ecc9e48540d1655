SPECIFICATION Spec
CONSTANTS
    Slots = {s1, s2}
    Users = {u1}
    Emails = {e1}
    Devices = {d1}
    Names = {n1}
    Times = {t1}
    Levels = {}
    None = None
    Keep = Keep
    MaxRows = 1
    Ops = {"signup", "create", "delete", "ingest"}
    Requests <- MCRequests
    s1 = s1
    s2 = s2
    u1 = u1
    e1 = e1
    d1 = d1
    n1 = n1
    t1 = t1
SYMMETRY Symmetry
PROPERTIES
    DuplicateHonest
