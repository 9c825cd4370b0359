CONSTANTS
    Callers = {r1, r2}
    NoCaller = NoCaller
    Outreach = {e1}
    Alerts = {}
    NoEvent = NoEvent
    RetryLimits = {1, 2}
    DispatchedDays = 1
    DeadLetterDays = 2
    MaxFaults = 1
    MaxOperations = 1
    MaxDays = 2
SPECIFICATION Spec
INVARIANTS
    OutboxTypeOK
    DispatchedWasSent
    DispatchedMeansSent
    DuplicatesArePaidFor
    OnlyRulingsAreOverruled
PROPERTIES
    EventuallySettled
    DispatchedIsFinal
    LiveKeptUndisturbed
    ImplementsDelivery
