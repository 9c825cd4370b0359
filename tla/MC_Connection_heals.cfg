SPECIFICATION Spec
CONSTANTS
    Users = {owner}
    Owner = owner
    Procs = {p1, p2}
    Calls = {c1, c2}
    Rotating = TRUE
    MaxGrants = 2
    MaxTurns = 2
    MaxRequests = 1
    MaxFaults = 1
    owner = owner
    p1 = p1
    p2 = p2
    c1 = c1
    c2 = c2
PROPERTIES
    GoodTokenHeals
CHECK_DEADLOCK FALSE
