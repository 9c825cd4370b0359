SPECIFICATION Spec
CONSTANTS
    Cycles = {c1}
    Requests = {r1}
    Window = 3
    Overflow <- MC_Overflow
    Rolling = 2
    FirstDay = 4
    LastDay = 6
    MaxFaults = 1
    MaxOrders = 1
INVARIANTS
    ProviderTypeOK
    CheckpointIsTrue
PROPERTIES
    LagIsRepaired
CHECK_DEADLOCK FALSE
