SPECIFICATION Spec
CONSTANTS
    Records = {"a", "b"}
    Standing = {"b"}
    Ingestors = {"i1"}
    Jobs = {"j1"}
    Passes = {"q1"}
    PerDay = 2
    Window = 1
    Span = 1
    RawFloor = 2
    RawConfigured = 1
    RunFloor = 1
    RunConfigured = 0
    LineageKept = 1
    ValueKept = 1
    Ages = {0}
    LastTick = 5
    MaxValues = 2
    MaxRuns = 2
INVARIANTS
    RetentionTypeOK
PROPERTIES
    LatestIsExplained
    EndOfDayKept
    NothingUsedIsDeleted
CHECK_DEADLOCK FALSE
