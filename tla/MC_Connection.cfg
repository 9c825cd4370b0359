SPECIFICATION Spec
CONSTANTS
    Users = {owner, other}
    Owner = owner
    Procs = {p1, p2}
    Calls = {c1, c2}
    Rotating = TRUE
    MaxGrants = 1
    MaxTurns = 2
    MaxRequests = 1
    MaxFaults = 1
    owner = owner
    other = other
    p1 = p1
    p2 = p2
    c1 = c1
    c2 = c2
INVARIANTS
    ConnectionTypeOK
    TokensKept
    DisconnectHolds
CHECK_DEADLOCK FALSE
SYMMETRY Symmetry
