SPECIFICATION Spec
CONSTANTS
    Events = {"e1", "e2", "e3"}
    Key <- MCKey
    Slots = {"s1", "s2"}
    MaxStarts = 2
    MaxRetries = 1
    MaxCancels = 1
INVARIANTS
    PoolInv
    OneRunPerIssue
    FailedForCause
CHECK_DEADLOCK FALSE
