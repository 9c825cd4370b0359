SPECIFICATION Spec
CONSTANTS
    Workers = {w1}
    Requests = {r1}
    Nodes <- BriefNodes
    Kind <- BriefKind
    Edges <- BriefEdges
    Trigger = "trigger"
    MaxAttempts = 2
    MaxIngests = 1
    MaxResponses = 1
    MaxFaults = 0
INVARIANT DecidedOnce
