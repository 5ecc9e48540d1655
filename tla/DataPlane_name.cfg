SPECIFICATION Spec
CONSTANTS
    Slots = {s1}
    Users = {u1}
    Emails = {e1}
    Devices = {d1}
    Names = {n1}
    Times = {t1}
    Levels = {1, 2}
    None = None
    Keep = Keep
    MaxRows = 1
    Ops = {"signup", "create", "update"}
    Requests <- MCRequests
    s1 = s1
    u1 = u1
    e1 = e1
    d1 = d1
    n1 = n1
    t1 = t1
SYMMETRY Symmetry
PROPERTIES
    NameConflictHonest
