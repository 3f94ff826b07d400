CONSTANTS
    g1 = g1
    k1 = k1
    k2 = k2
    u1 = u1
    r1 = r1
    r2 = r2
    r3 = r3
    AllUsers = AllUsers
    Requests = {r1, r2, r3}
    Grants = {g1}
    Clients = {k1, k2}
    Users = {u1}
    ClientOf <- MCClientOf
    UserOf <- MCUserOf
    MaxClients = 1
    MaxPairs = 3
    MaxRevokes = 1
SPECIFICATION Spec
SYMMETRY Symmetry
INVARIANTS
    OneGrantOnePair
    RevokeWins
    EndedStaysEnded
    LatestRefreshWorks
