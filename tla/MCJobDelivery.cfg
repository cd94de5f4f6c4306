SPECIFICATION DeliverySpec
CONSTANTS
    MaxRuns = 2
    MaxRunning = 2
    Polls = {1}
    MaxFailures = 0
    MaxPrompts = 2
    MaxAborts = 1
INVARIANTS
    FlushInv
    EntryKept
PROPERTIES
    NotToldTwice
    FlushedInTheEnd
CHECK_DEADLOCK FALSE
