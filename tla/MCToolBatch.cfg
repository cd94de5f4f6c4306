SPECIFICATION Spec
CONSTANTS
    MaxCalls = 3
    MaxSteer = 2
    InterruptMode = "immediate"
    SteeringMode = "one-at-a-time"
INVARIANTS
    BatchInv
    ExclusiveAlone
    SteeringInOrder
PROPERTIES
    ImplementsOrderedBatch
    BatchReturns
CHECK_DEADLOCK FALSE
