CONSTANTS
    Pages = {p1, p2}
    NoPage = none
    Workers = 2
    FailsForLockout = 2
    LockoutSeconds = 2
    MaxDoublings = 1
    UnbindAfter = 4
    SessionTtl = 1
    MaxDelay = 1
SPECIFICATION FairSpec
INVARIANTS
    LockoutHolds
PROPERTIES
    LockoutEnds
    ReconnectEnds
