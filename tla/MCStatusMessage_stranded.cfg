CONSTANTS
    c1 = c1
    c2 = c2
    c3 = c3
    None = None
    Channels = {c1, c2}
    RepostEvery = 2
    MaxFaults = 2
SPECIFICATION Spec
PROPERTIES
    AlwaysSettles
