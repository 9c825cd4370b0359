CONSTANTS
    Workers = {w1, w2}
    Crons = {c1}
    Callers = {w1, w2, c1}
    NoCaller = NoCaller
    Modules = 2
    MaxTimeouts = 1
    MaxFaults = 1
SPECIFICATION Spec
INVARIANTS
    StackingIsPaidFor
PROPERTIES
    SyncGoesOn
    RunningEnds
