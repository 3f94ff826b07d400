CONSTANTS
    c1 = c1
    c2 = c2
    c3 = c3
    None = None
    Channels = {c1, c2, c3}
    RepostEvery = 2
    MaxFaults = 4
SPECIFICATION Spec
INVARIANTS
PROPERTIES
    AtMostOnePostPerWindow
    NoNeedlessMessage
    SettlesOnOneMessage
