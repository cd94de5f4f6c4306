SPECIFICATION Spec
CONSTANTS
    Events = {"e1", "e2", "e3"}
    Key <- MCKey
    Slots = {"s1"}
    MaxStarts = 2
    MaxRetries = 0
    MaxCancels = 0
PROPERTIES
    EventuallyHandled
CHECK_DEADLOCK FALSE
