SPECIFICATION Spec
CONSTANTS
    p1 = p1
    p2 = p2
    l1 = l1
    l2 = l2
    l3 = l3
    l4 = l4
    h1 = h1
    h2 = h2
    None = None
    Procs = {p1, p2}
    Logins = {l1, l2, l3, l4}
    Handlers = {h1, h2}
    MaxPending = 2
SYMMETRY Symmetry
INVARIANTS
    DatabaseOutlivesItsUsers
    CapIsForTheLiving
    EachUsedOnce
    OneSecret
CHECK_DEADLOCK FALSE
