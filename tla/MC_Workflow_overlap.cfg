SPECIFICATION Spec
CONSTANTS
    Workers = {w1}
    Requests = {r1}
    Nodes <- GatedNodes
    Kind <- GatedKind
    Edges <- GatedEdges
    Trigger = "trigger"
    MaxAttempts = 2
    MaxIngests = 1
    MaxResponses = 1
    MaxFaults = 1
INVARIANT WorkflowTypeOK
INVARIANT EffectsOnce
INVARIANT SettledIsPersisted
PROPERTY OnlyLateWritesStrand
