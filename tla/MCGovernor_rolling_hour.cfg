CONSTANTS
    c1 = c1
    c2 = c2
    Clients = {c1}
    Limit = 3
    Reserve = 1
    Hour = 4
    MaxAttempts = 2
    MaxClock = 6
SPECIFICATION Spec
INVARIANTS
    RollingHourLimit
