SPECIFICATION Spec
CONSTANTS
    MaxCalls = 2
    MaxToolCalls = 2
    MaxMessages = 2
    MaxPrompts = 1
    MaxTurns = 2
    InterruptMode = "immediate"
    SteeringMode = "all"
    FollowUpMode = "one-at-a-time"
INVARIANTS
    LoopInv
    ConversationMirrored
    MessagesDelivered
PROPERTIES
    AbortEndsRun
CHECK_DEADLOCK FALSE
