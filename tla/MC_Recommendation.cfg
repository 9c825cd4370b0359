SPECIFICATION Spec
CONSTANTS
    Recs = {r1}
    Manual = {}
    Reviewers = {d1}
    Executors = {x1, x2}
    MaxTries = 2
    MaxVersions = 2
    MaxOrders = 2
    MaxFaults = 1
INVARIANTS
    RecommendationTypeOK
    ExecutedWasDone
    RepeatsArePaidFor
    BatchAddsUp
PROPERTIES
    ImplementsMandate
    OnlyStaleWritesReopen
    ExecutionEnds
CHECK_DEADLOCK FALSE
