CONSTANTS
    Callers = {c1, c2, c3}
    NoCaller = NoCaller
SPECIFICATION LockSpec
INVARIANTS
    OwnerHolds
PROPERTIES
    ImplementsExclusion
    NeverLeaked
    ConnectionReleased
