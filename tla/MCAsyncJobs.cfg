SPECIFICATION Spec
CONSTANTS
    MaxRuns = 2
    MaxRunning = 2
    Polls = {1, 2}
    MaxFailures = 1
INVARIANTS
    ResultKept
    HeardAtMostOnce
PROPERTIES
    ReportedIsNotHanded
    ResultsArrive
    DisposeEnds
CHECK_DEADLOCK FALSE
