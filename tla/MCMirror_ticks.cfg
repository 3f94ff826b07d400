CONSTANTS
    t1 = t1
    s1 = s1
    c1 = c1
    x1 = x1
    Processes = {serve}
    Accounts = {a1}
    Categories = {k1}
    Txns = {t1}
    Subs = {s1}
    Scheds = {}
    SchedSubs = {}
    Parent <- ParentOf
    MaxKnowledge = 3
SPECIFICATION FairSpec
INVARIANTS
    CursorNeverAheadOfData
    NeverSunkByForeignKeys
    NoLineOutlivesItsTransaction
    FirstSeenIsFirstSight
    LinkEventsOncePerTransition
PROPERTIES
    CursorNeverMovesBack
    MirrorIsAPlanReplica
    CatchesUp
