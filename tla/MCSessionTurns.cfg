SPECIFICATION Spec
CONSTANTS
    MaxPrompts = 2
    MaxRuns = 3
    MaxAborts = 1
    MaxManual = 1
    MaxAnswers = 1
    maxRetries = 1
INVARIANTS
    CountInv
    RetriesBounded
    ReturnedIsSettled
PROPERTIES
    AbortStopsRetries
    PromptReturns
CHECK_DEADLOCK FALSE
