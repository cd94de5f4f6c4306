SPECIFICATION Spec
CONSTANTS
    MaxTasks = 3
    MaxTransports = 2
    MaxDisconnects = 1
    MaxDelays = 1
    BurstLimit = 2
INVARIANTS
    QuietInv
    StaysOff
    OneReconnection
PROPERTIES
    LossIsNoticed
CHECK_DEADLOCK FALSE
