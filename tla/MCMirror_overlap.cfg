CONSTANTS
    t1 = t1
    s1 = s1
    c1 = c1
    x1 = x1
    Processes = {serve, cli}
    Accounts = {}
    Categories = {}
    Txns = {t1}
    Subs = {}
    Scheds = {}
    SchedSubs = {}
    Parent <- ParentOf
    MaxKnowledge = 3
SPECIFICATION Spec
INVARIANTS
    CursorNeverAheadOfData
